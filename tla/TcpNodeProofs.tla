---------------------------- MODULE TcpNodeProofs -----------------------------
(***************************************************************************)
(* Proofs about TcpNode, for any number of application threads, calls,     *)
(* connections, ports and buffers.                                         *)
(***************************************************************************)
EXTENDS TcpNode, TLAPS

USE DEF Workers, Threads, Ids, locks, peerVars, listenerVars, flagVars,
        lifeVars, connectLocals, connectVars, sendVars, listenLocals,
        callerVars, ListenMoves, SendMoves, OnlyMoves, ListenResults

-----------------------------------------------------------------------------
(***************************************************************************)
(* Program counters.                                                       *)
(***************************************************************************)
\* The application's threads are none of the workers.
LEMMA CallersDistinct ==
  \A c \in Callers : c # "connect" /\ c # "send" /\ c # "listen" /\ c # "none"
<1> SUFFICES ASSUME NEW c \in Callers
             PROVE  c \notin Workers \cup {"none"}
  OBVIOUS
<1> QED
  BY ConstantsAssumption

\* The points of the code each thread can be at.
LEMMA LabelsOf ==
  /\ Labels("connect") = ConnectLabels
  /\ Labels("send") = SendLabels
  /\ Labels("listen") = ListenLabels
  /\ \A c \in Callers : Labels(c) = CallerLabels
  BY CallersDistinct DEF Labels

\* Every program counter is one of AllLabels.
LEMMA LabelsSubset == \A t \in Threads : Labels(t) \subseteq AllLabels
  BY LabelsOf DEF AllLabels

\* A thread that goes to a point of its own code keeps the counters typed.
LEMMA GoTyped ==
  ASSUME PcOK, NEW t \in Threads, NEW l \in Labels(t), Go(t, l)
  PROVE  PcOK'
  BY LabelsSubset DEF PcOK, Go

\* So does one that also wakes a worker.
LEMMA GoAndNotifyTyped ==
  ASSUME PcOK, NEW t \in Threads, NEW l \in Labels(t), NEW w \in Workers,
         GoAndNotify(t, l, w)
  PROVE  PcOK'
<1> DEFINE v == Woken(w)
<1>1. v \in Labels(w)
  BY LabelsOf DEF PcOK, Woken, ConnectLabels, SendLabels, ListenLabels
<1>2. pc' = [pc EXCEPT ![w] = v, ![t] = l]
  BY DEF GoAndNotify
<1> HIDE DEF v
<1> QED
  BY <1>1, <1>2, LabelsSubset DEF PcOK

\* A step that moves no thread keeps the program counters typed.
LEMMA PcUnchanged ==
  ASSUME PcOK, UNCHANGED pc
  PROVE  PcOK'
  BY DEF PcOK

\* Every step of _connectThreadJob() leads to a label of that thread.
LEMMA ConnectPc ==
  ASSUME PcOK, _connectThreadJob
  PROVE  PcOK'
<1>1. CASE ConnectWhile
  BY <1>1, GoTyped, LabelsOf DEF ConnectWhile, ConnectLabels
<1>2. CASE ConnectSize
  BY <1>2, GoTyped, LabelsOf DEF ConnectSize, ConnectLabels
<1>3. CASE _pauseUntilQueueNotEmpty
  BY <1>3, GoTyped, LabelsOf DEF _pauseUntilQueueNotEmpty, PauseTest,
     PauseBlock, ConnectLabels
<1>4. CASE ConnectFront
  BY <1>4, GoTyped, LabelsOf DEF ConnectFront, ConnectLabels
<1>5. CASE ConnectRetry
  BY <1>5, PcUnchanged DEF ConnectRetry
<1>6. CASE ConnectFailed
  BY <1>6, GoTyped, LabelsOf DEF ConnectFailed, AfterPass, ConnectLabels
<1>7. CASE ConnectSucceeded
  BY <1>7, GoTyped, LabelsOf DEF ConnectSucceeded, ConnectLabels
<1>8. CASE ConnectCallback
  BY <1>8, GoAndNotifyTyped, LabelsOf DEF ConnectCallback, AfterPass,
     ConnectLabels
<1>9. CASE ConnectPop
  BY <1>9, GoTyped, LabelsOf DEF ConnectPop, ConnectLabels
<1> QED
  BY <1>1, <1>2, <1>3, <1>4, <1>5, <1>6, <1>7, <1>8, <1>9 DEF
     _connectThreadJob

\* Every step of _sendThreadJob() leads to a label of that thread.
LEMMA SendPc ==
  ASSUME PcOK, _sendThreadJob
  PROVE  PcOK'
<1>1. CASE SendWhile
  BY <1>1, GoTyped, LabelsOf DEF SendWhile, SendLabels
<1>2. CASE SendPause
  BY <1>2, GoTyped, LabelsOf DEF SendPause, SendLabels
<1>3. CASE _pauseUntilDataToSendAvailable
  BY <1>3, GoTyped, LabelsOf DEF _pauseUntilDataToSendAvailable, PauseTest,
     PauseBlock, SendLabels
<1>4. CASE SendNothing
  BY <1>4, GoTyped, LabelsOf DEF SendNothing, SendLabels
<1>5. CASE SendNoPeer
  BY <1>5, GoTyped, LabelsOf DEF SendNoPeer, SendLabels
<1>6. CASE SendDropped
  BY <1>6, GoTyped, LabelsOf DEF SendDropped, PopAndUnlock, SendLabels
<1>7. CASE SendBytes
  BY <1>7, GoTyped, LabelsOf DEF SendBytes, SendLabels
<1>8. CASE SendFailed
  BY <1>8, GoTyped, LabelsOf DEF SendFailed, PopAndUnlock, SendLabels
<1>9. CASE SendSentCallback
  BY <1>9, GoTyped, LabelsOf DEF SendSentCallback, SendCallback, PopAndUnlock,
     SendLabels
<1>10. CASE SendErrorCallback
  BY <1>10, GoTyped, LabelsOf DEF SendErrorCallback, SendCallback,
     PopAndUnlock, SendLabels
<1> QED
  BY <1>1, <1>2, <1>3, <1>4, <1>5, <1>6, <1>7, <1>8, <1>9, <1>10 DEF
     _sendThreadJob

\* Every step of _listenThreadJob() leads to a label of that thread.
LEMMA ListenPc ==
  ASSUME PcOK, _listenThreadJob
  PROVE  PcOK'
<1>1. CASE ListenWhile
  BY <1>1, GoTyped, LabelsOf DEF ListenWhile, ListenLabels
<1>2. CASE ListenFlags
  BY <1>2, GoTyped, LabelsOf DEF ListenFlags, ListenLabels
<1>3. CASE ListenFlags2
  BY <1>3, GoTyped, LabelsOf DEF ListenFlags2, ListenLabels
<1>4. CASE ListenOpened
  BY <1>4, GoTyped, LabelsOf DEF ListenOpened, ListenLabels
<1>5. CASE ListenOpenFailed
  BY <1>5, GoTyped, LabelsOf DEF ListenOpenFailed, ListenLabels
<1>6. CASE ListenOpenedCallback
  BY <1>6, GoTyped, LabelsOf DEF ListenOpenedCallback, ListenCallbackFound,
     ListenLabels
<1>7. CASE ListenOpenFailedCallback
  BY <1>7, GoTyped, LabelsOf DEF ListenOpenFailedCallback,
     ListenCallbackFound, ListenLabels
<1>8. CASE ListenClose
  BY <1>8, GoTyped, LabelsOf DEF ListenClose, ListenLabels
<1>9. CASE ListenClosedCallback
  BY <1>9, GoTyped, LabelsOf DEF ListenClosedCallback, ListenLabels
<1>10. CASE ListenClear
  BY <1>10, GoTyped, LabelsOf DEF ListenClear, ListenLabels
<1>11. CASE _pauseUntilPeersOrListenerAvailable
  BY <1>11, GoTyped, LabelsOf DEF _pauseUntilPeersOrListenerAvailable,
     PauseTest, PauseBlock, ListenLabels
<1>12. CASE ListenDestructor
  BY <1>12, GoTyped, LabelsOf DEF ListenDestructor, ListenLabels
<1>13. CASE ListenNoAccept
  BY <1>13, GoTyped, LabelsOf DEF ListenNoAccept, StartReceiving, ListenLabels
<1>14. CASE ListenAccepted
  BY <1>14, GoTyped, LabelsOf DEF ListenAccepted, ListenLabels
<1>15. CASE ListenAcceptFailed
  BY <1>15, GoTyped, LabelsOf DEF ListenAcceptFailed, ListenLabels
<1>16. CASE ListenAcceptedCallback
  BY <1>16, GoTyped, LabelsOf DEF ListenAcceptedCallback,
     ListenAcceptCallback, ListenCallbackFound, StartReceiving, ListenLabels
<1>17. CASE ListenAcceptFailedCallback
  BY <1>17, GoTyped, LabelsOf DEF ListenAcceptFailedCallback,
     ListenAcceptCallback, ListenCallbackFound, StartReceiving, ListenLabels
<1>18. CASE ListenReceived
  BY <1>18, GoTyped, LabelsOf DEF ListenReceived, ListenLabels
<1>19. CASE ListenNothingReceived
  BY <1>19, PcUnchanged DEF ListenNothingReceived
<1>20. CASE ListenReceiveFailed
  BY <1>20, PcUnchanged DEF ListenReceiveFailed
<1>21. CASE ListenNoDelete
  BY <1>21, GoTyped, LabelsOf DEF ListenNoDelete, ListenLabels
<1>22. CASE ListenDelete
  BY <1>22, GoTyped, LabelsOf DEF ListenDelete, ListenLabels
<1>23. CASE ListenDeletedCallback
  BY <1>23, GoTyped, LabelsOf DEF ListenDeletedCallback, ListenCallbackFound,
     ListenLabels
<1> QED
  BY <1>1, <1>2, <1>3, <1>4, <1>5, <1>6, <1>7, <1>8, <1>9, <1>10, <1>11,
     <1>12, <1>13, <1>14, <1>15, <1>16, <1>17, <1>18, <1>19, <1>20, <1>21,
     <1>22, <1>23 DEF _listenThreadJob

\* A call that creates a worker, or finds it created, keeps them typed too.
LEMMA StartTyped ==
  ASSUME PcOK, NEW c \in Callers, NEW l \in CallerLabels, NEW w \in Workers,
         NEW v \in Labels(w), pc' = [pc EXCEPT ![w] = v, ![c] = l]
  PROVE  PcOK'
  BY CallersDistinct, LabelsOf, LabelsSubset DEF PcOK

\* A worker that is started, or was already, is at a label of its own.
LEMMA StartedTyped ==
  ASSUME PcOK, NEW w \in Workers
  PROVE  Started(w) \in Labels(w)
  BY LabelsOf DEF PcOK, Started, ConnectLabels, SendLabels, ListenLabels

\* The first step of a call leads to labels of the threads it moves.
LEMMA CallPc ==
  ASSUME PcOK, NEW c \in Callers, Call(c)
  PROVE  PcOK'
<1>1. CASE connectTo(c)
  BY <1>1, GoTyped, StartTyped, CallersDistinct, LabelsOf, StartedTyped DEF
     connectTo, CallerLabels
<1>2. CASE \E port \in Ports : doListen(c, port)
  BY <1>2, GoTyped, GoAndNotifyTyped, PcUnchanged, LabelsOf DEF doListen,
     CallerLabels
<1>3. CASE stopListening(c)
  BY <1>3, GoTyped, GoAndNotifyTyped, PcUnchanged, LabelsOf DEF stopListening,
     CallerLabels
<1>4. CASE \E id \in Ids : \E len \in Lengths : sendData(c, id, len)
  BY <1>4, GoTyped, StartTyped, CallersDistinct, LabelsOf, StartedTyped DEF
     sendData, CallerLabels
<1>5. CASE \E id \in 0 .. m_connection_counter : sendData_unknown(c, id)
  BY <1>5, GoTyped, GoAndNotifyTyped, PcUnchanged, LabelsOf DEF
     sendData_unknown, CallerLabels
<1>6. CASE \E id \in Ids : disconnectPeer(c, id)
  BY <1>6, PcUnchanged DEF disconnectPeer, CallerLabels
<1>7. CASE disconnectAll(c)
  BY <1>7, PcUnchanged DEF disconnectAll, CallerLabels
<1>8. CASE setListener(c)
  BY <1>8, PcUnchanged DEF setListener, CallerLabels
<1>9. CASE \E callback \in CallbackNames : onCallback(c, callback)
  BY <1>9, PcUnchanged DEF onCallback, CallerLabels
<1>10. CASE destructor(c)
  BY <1>10, GoTyped, GoAndNotifyTyped, PcUnchanged, LabelsOf DEF destructor,
     CallerLabels
<1> QED
  BY <1>1, <1>2, <1>3, <1>4, <1>5, <1>6, <1>7, <1>8, <1>9, <1>10 DEF Call

\* The tables of the destructor hold labels of a caller.
LEMMA DestructorLabelsTyped ==
  \A w \in Workers : /\ Stopping[After[w]] \in CallerLabels
                     /\ Notifying[w] \in CallerLabels
                     /\ Joining[w] \in CallerLabels
  BY DEF Stopping, Notifying, Joining, After, CallerLabels

\* The later steps of a call lead to labels of the threads they move.
LEMMA ContinuePc ==
  ASSUME PcOK, NEW c \in Callers, Continue(c)
  PROVE  PcOK'
<1>1. CASE connectTo_notify(c)
  BY <1>1, GoTyped, GoAndNotifyTyped, PcUnchanged, LabelsOf DEF
     connectTo_notify, CallerLabels
<1>2. CASE doListen_changing(c)
  BY <1>2, GoTyped, GoAndNotifyTyped, PcUnchanged, LabelsOf DEF
     doListen_changing, CallerLabels
<1>3. CASE doListen_notify(c)
  BY <1>3, GoTyped, GoAndNotifyTyped, PcUnchanged, LabelsOf DEF
     doListen_notify, CallerLabels
<1>4. CASE _startListenThreadIfNotRunning(c)
  BY <1>4, GoTyped, StartTyped, PcUnchanged, LabelsOf
     DEF _startListenThreadIfNotRunning, ListenLabels, CallerLabels
<1>5. CASE stopListening_wakeup(c)
  BY <1>5, GoTyped, GoAndNotifyTyped, PcUnchanged, LabelsOf DEF
     stopListening_wakeup, CallerLabels
<1>6. CASE stopListening_notify(c)
  BY <1>6, GoTyped, GoAndNotifyTyped, PcUnchanged, LabelsOf DEF
     stopListening_notify, CallerLabels
<1>7. CASE sendData_notify(c)
  BY <1>7, GoTyped, GoAndNotifyTyped, PcUnchanged, LabelsOf DEF
     sendData_notify, CallerLabels
<1>8. CASE sendData_error(c)
  BY <1>8, GoTyped, GoAndNotifyTyped, PcUnchanged, LabelsOf DEF
     sendData_error, CallerLabels
<1>9. CASE _destructor(c)
  <2>1. CASE \E w \in Workers : destructor_stop(c, w)
    BY <2>1, GoTyped, LabelsOf, DestructorLabelsTyped DEF destructor_stop
  <2>2. CASE \E w \in Workers : destructor_notify(c, w)
    BY <2>2, GoAndNotifyTyped, LabelsOf, DestructorLabelsTyped DEF destructor_notify
  <2>3. CASE \E w \in Workers : destructor_join(c, w)
    BY <2>3, GoTyped, LabelsOf, DestructorLabelsTyped DEF destructor_join
  <2>4. CASE destructor_end(c)
    BY <2>4, GoTyped, LabelsOf DEF destructor_end, CallerLabels
  <2>5. CASE destructor_members(c)
    BY <2>5, GoTyped, PcUnchanged, LabelsOf
       DEF destructor_members, CallerLabels
  <2> QED
    BY <1>9, <2>1, <2>2, <2>3, <2>4, <2>5 DEF _destructor
<1> QED
  BY <1>1, <1>2, <1>3, <1>4, <1>5, <1>6, <1>7, <1>8, <1>9 DEF Continue

-----------------------------------------------------------------------------
(***************************************************************************)
(* The operations on the table and on the queues keep them typed.          *)
(***************************************************************************)
LEMMA NewPeerTyped ==
  ASSUME PeersOK, NEW id \in Ids, NewPeer(id)
  PROVE  PeersOK'
  BY ConstantsAssumption DEF PeersOK, NewPeer

\* scheduleDelete() keeps the peer table typed.
LEMMA ScheduleTyped ==
  ASSUME PeersOK, NEW ids \in SUBSET Ids, NEW type \in DisconnectType,
         scheduleDelete(ids, type),
         m_socket' \in [Ids -> {"none", "connected", "closed", "deleted"}]
  PROVE  PeersOK'
  BY DEF PeersOK, scheduleDelete

\* So does deleting a peer.
LEMMA EraseTyped ==
  ASSUME PeersOK, NEW id \in Ids, destroySocketAndErase(id)
  PROVE  PeersOK'
  BY DEF PeersOK, destroySocketAndErase

\* And so does leaving the table alone.
LEMMA PeersUnchanged ==
  ASSUME PeersOK, UNCHANGED peerVars
  PROVE  PeersOK'
  BY DEF PeersOK

\* front() and pop_front() of a queue that is not empty.
LEMMA HeadTyped ==
  ASSUME NEW S, NEW s \in Seq(S), s # <<>>
  PROVE  Head(s) \in S /\ Tail(s) \in Seq(S)
  OBVIOUS

\* A queue is not empty after push_back().
LEMMA AppendNotEmpty ==
  ASSUME NEW S, NEW s \in Seq(S), NEW x
  PROVE  Append(s, x) # <<>>
<1>1. Len(Append(s, x)) = Len(s) + 1 /\ Len(s) \in Nat
  OBVIOUS
<1>2. Len(<<>>) = 0
  OBVIOUS
<1> QED
  BY <1>1, <1>2

\* push_back() keeps a queue typed and makes it one longer.
LEMMA AppendTyped ==
  ASSUME NEW S, NEW s \in Seq(S), NEW e \in S
  PROVE  Append(s, e) \in Seq(S) /\ Len(Append(s, e)) = Len(s) + 1
  OBVIOUS

\* Overwriting an element keeps a sequence typed and as long as it was.
LEMMA UpdateTyped ==
  ASSUME NEW S, NEW s \in Seq(S), NEW e \in S, NEW n \in 1 .. Len(s)
  PROVE  /\ [s EXCEPT ![n] = e] \in Seq(S)
         /\ Len([s EXCEPT ![n] = e]) = Len(s)
  OBVIOUS

\* A sequence over a set is one over a larger set.
LEMMA WidenSeq ==
  ASSUME NEW S, NEW T, S \subseteq T, NEW s \in Seq(S)
  PROVE  s \in Seq(T)
  OBVIOUS

-----------------------------------------------------------------------------
(***************************************************************************)
(* The connect thread.                                                     *)
(***************************************************************************)
\* What the connect thread changes, and at which of its steps.
LEMMA ConnectFrame ==
  ASSUME _connectThreadJob
  PROVE  /\ connectUnchanged
         /\ m_data_access' \in {m_data_access, "none", "connect"}
         /\ UNCHANGED m_callback_access
         /\ ConnectSucceeded \/ UNCHANGED <<peerVars, new_peer>>
         /\ ConnectFront \/ UNCHANGED dialled
         /\ ConnectPop \/ UNCHANGED m_potential_peers
  BY DEF _connectThreadJob, ConnectWhile, ConnectSize,
     _pauseUntilQueueNotEmpty, ConnectFront, ConnectRetry, ConnectFailed,
     ConnectSucceeded, ConnectCallback, ConnectPop, KeepLocks, PauseTest,
     PauseBlock, KeepData, KeepCb, UnlockData

\* _connectThreadJob() keeps all variables typed.
LEMMA ConnectTypeOK ==
  ASSUME TypeOK, FrontExists, _connectThreadJob
  PROVE  TypeOK'
<1> USE DEF TypeOK
<1>1. PcOK'
  BY ConnectPc
<1>2. LifeOK' /\ ListenerOK' /\ ApplicationOK'
  BY ConnectFrame DEF connectUnchanged, LifeOK, ListenerOK, ApplicationOK
<1>3. PeersOK'
  <2>1. CASE ConnectSucceeded
    BY <2>1, NewPeerTyped DEF ConnectSucceeded
  <2> QED
    BY <2>1, ConnectFrame, PeersUnchanged
<1>4. LocalsOK'
  <2>1. queue_length' \in Nat /\ i' \in Nat /\ tries' \in 0 .. MaxTries
    BY ConstantsAssumption DEF LocalsOK, QueuesOK, _connectThreadJob,
       ConnectWhile, ConnectSize, _pauseUntilQueueNotEmpty, ConnectFront,
       ConnectRetry, ConnectFailed, ConnectSucceeded, ConnectCallback,
       ConnectPop, PauseTest, PauseBlock, NextPass
  <2>2. new_peer' \in Ids \cup {0}
    BY ConnectFrame DEF LocalsOK, ConnectSucceeded
  <2> QED
    BY <2>1, <2>2, ConnectFrame DEF LocalsOK, connectUnchanged
<1>5. QueuesOK'
  <2>1. CASE ConnectFront
    <3>1. Head(m_potential_peers) \in 1 .. Len(dialled)
      BY <2>1, HeadTyped DEF QueuesOK, ConnectFront, FrontExists
    <3>2. dialled' \in Seq(Nat) /\ Len(dialled') = Len(dialled)
      <4> DEFINE r == Head(m_potential_peers)
                 n == dialled[r] + 1
      <4>1. dialled' = [dialled EXCEPT ![r] = n]
        BY <2>1 DEF ConnectFront
      <4>2. r \in 1 .. Len(dialled) /\ n \in Nat
        BY <3>1 DEF QueuesOK
      <4> HIDE DEF r, n
      <4> QED
        BY <4>1, <4>2, UpdateTyped DEF QueuesOK
    <3> QED
      BY <2>1, <3>2 DEF QueuesOK, Buffers, ConnectFront, connectUnchanged
  <2>2. CASE ConnectPop
    <3>1. m_potential_peers # <<>>
      BY <2>2 DEF ConnectPop, FrontExists
    <3> QED
      BY <2>2, <3>1, HeadTyped DEF QueuesOK, Buffers, ConnectPop,
         connectUnchanged
  <2>3. CASE UNCHANGED <<dialled, m_potential_peers>>
    BY <2>3, ConnectFrame DEF QueuesOK, Buffers, connectUnchanged
  <2> QED
    BY <2>1, <2>2, <2>3, ConnectFrame
<1> QED
  BY <1>1, <1>2, <1>3, <1>4, <1>5

-----------------------------------------------------------------------------
(***************************************************************************)
(* The send thread.                                                        *)
(***************************************************************************)
\* The thread is done with the buffer whose callback it looked for or ran.
SendFinished ==
  /\ pc["send"] \in {"sent", "onSend", "nopeer", "onSendError"}
  /\ PopAndUnlock
  /\ UNCHANGED outcome

\* What the send thread changes, and at which of its steps.
LEMMA SendFrame ==
  ASSUME _sendThreadJob
  PROVE  /\ sendUnchanged
         /\ m_data_access' \in {m_data_access, "none", "send"}
         /\ UNCHANGED m_callback_access
         /\ terminated' = terminated \/ terminated' \in BOOLEAN
         /\ SendFailed \/ UNCHANGED peerVars
         /\ \/ SendNoPeer \/ SendDropped \/ SendBytes \/ SendFailed
            \/ SendFinished
            \/ UNCHANGED sendVars
  BY DEF SendFinished, _sendThreadJob, SendWhile, SendPause,
     _pauseUntilDataToSendAvailable, SendNothing, SendNoPeer, SendDropped,
     SendBytes, SendFailed, SendSentCallback, SendErrorCallback, KeepLocks,
     PauseTest, PauseBlock, LockData, KeepCb, PopAndUnlock, SendCallback,
     KeepData, UnlockData, CallAndReturn

\* The buffers that can be queued depend on the length of outcome only.
LEMMA SameBuffers ==
  ASSUME Len(outcome') = Len(outcome)
  PROVE  Buffers' = Buffers
  BY DEF Buffers

\* Recording what became of the first buffer keeps outcome typed.
LEMMA RecordTyped ==
  ASSUME QueuesOK, m_data_to_send # <<>>, NEW r \in Outcomes, Record(r)
  PROVE  outcome' \in Seq(Outcomes) /\ Len(outcome') = Len(outcome)
<1> DEFINE b == curr_out_buffer.buf
<1>1. b \in 1 .. Len(outcome)
  <2>1. curr_out_buffer \in Buffers
    BY HeadTyped DEF QueuesOK, curr_out_buffer
  <2> QED
    BY <2>1 DEF Buffers
<1>2. outcome' = [outcome EXCEPT ![b] = r]
  BY DEF Record
<1> HIDE DEF b
<1> QED
  BY <1>1, <1>2, UpdateTyped DEF QueuesOK

\* So does taking that buffer off the queue.
LEMMA PopTyped ==
  ASSUME QueuesOK, m_data_to_send # <<>>, PopAndUnlock
  PROVE  m_data_to_send' \in Seq(Buffers)
  BY HeadTyped DEF QueuesOK, PopAndUnlock

\* _sendThreadJob() keeps all variables typed.
LEMMA SendTypeOK ==
  ASSUME TypeOK, FrontExists, _sendThreadJob
  PROVE  TypeOK'
<1> USE DEF TypeOK
<1>1. PcOK'
  BY SendPc
<1>2. LifeOK' /\ ListenerOK' /\ ApplicationOK' /\ LocalsOK'
  BY SendFrame DEF sendUnchanged, LifeOK, ListenerOK, ApplicationOK, LocalsOK
<1>3. PeersOK'
  <2>1. CASE SendFailed
    <3>1. curr_out_buffer.peer \in Ids
      BY <2>1, HeadTyped
         DEF SendFailed, Sendable, PeersOK, QueuesOK, curr_out_buffer, Buffers
    <3> QED
      BY <2>1, <3>1, ScheduleTyped, PeersUnchanged
         DEF SendFailed, PeersOK, DisconnectType
  <2> QED
    BY <2>1, SendFrame, PeersUnchanged
<1>4. /\ outcome' \in Seq(Outcomes)
      /\ Len(outcome') = Len(outcome)
      /\ m_data_to_send' \in Seq(Buffers)
  <2>1. CASE SendNoPeer
    BY <2>1, RecordTyped DEF SendNoPeer, QueuesOK, Outcomes
  <2>2. CASE SendDropped
    BY <2>2, RecordTyped, PopTyped DEF SendDropped, Outcomes
  <2>3. CASE SendBytes
    BY <2>3, RecordTyped DEF SendBytes, Sendable, QueuesOK, Outcomes
  <2>4. CASE SendFailed
    BY <2>4, RecordTyped, PopTyped DEF SendFailed, Sendable, Outcomes
  <2>5. CASE SendFinished
    BY <2>5, PopTyped DEF SendFinished, FrontExists, QueuesOK
  <2>6. CASE UNCHANGED sendVars
    BY <2>6 DEF QueuesOK
  <2> QED
    BY <2>1, <2>2, <2>3, <2>4, <2>5, <2>6, SendFrame
<1>5. QueuesOK'
  BY <1>4, SameBuffers, SendFrame DEF QueuesOK, sendUnchanged
<1> QED
  BY <1>1, <1>2, <1>3, <1>5

-----------------------------------------------------------------------------
(***************************************************************************)
(* The listen thread.                                                      *)
(***************************************************************************)
\* What the listen thread changes, and at which of its steps.
LEMMA ListenFrame ==
  ASSUME _listenThreadJob
  PROVE  /\ listenUnchanged
         /\ m_data_access' \in {m_data_access, "none", "listen"}
         /\ m_callback_access' \in {m_callback_access, "none", "listen"}
         /\ terminated' = terminated \/ terminated' \in BOOLEAN
         /\ \/ ListenAccepted \/ ListenReceiveFailed \/ ListenDelete
            \/ UNCHANGED peerVars
  BY DEF _listenThreadJob, ListenWhile, ListenFlags, ListenFlags2,
     ListenOpened, ListenOpenFailed, ListenOpenedCallback,
     ListenOpenFailedCallback, ListenClose, ListenClosedCallback, ListenClear,
     _pauseUntilPeersOrListenerAvailable, ListenDestructor, ListenNoAccept,
     ListenAccepted, ListenAcceptFailed, ListenAcceptedCallback,
     ListenAcceptFailedCallback, ListenReceived, ListenNothingReceived,
     ListenReceiveFailed, ListenNoDelete, ListenDelete, ListenDeletedCallback,
     KeepLocks, OnlyPc, LockData, KeepCb, ListenCallbackFound,
     ListenCallbackDone, UnlockData, KeepData, PauseTest, PauseBlock,
     StartReceiving, ListenAcceptCallback, CallAndReturn, OnlyListener

\* What receive() can report ends the connection for a reason.
LEMMA ReceiveErrorsTyped ==
  \A res \in DOMAIN ReceiveErrors : ReceiveErrors[res] \in DisconnectType
  BY DEF ReceiveErrors, DisconnectType

\* _listenThreadJob() keeps all variables typed.
LEMMA ListenTypeOK ==
  ASSUME TypeOK, _listenThreadJob
  PROVE  TypeOK'
<1> USE DEF TypeOK
<1>1. PcOK'
  BY ListenPc
<1>2. LifeOK' /\ QueuesOK' /\ ApplicationOK'
  BY ListenFrame
     DEF listenUnchanged, LifeOK, QueuesOK, Buffers, ApplicationOK
<1>3. PeersOK'
  <2>1. CASE ListenAccepted
    BY <2>1, NewPeerTyped DEF ListenAccepted
  <2>2. CASE ListenReceiveFailed
    <3>1. PICK id \in todo, res \in DOMAIN ReceiveErrors :
            /\ scheduleDelete({id}, ReceiveErrors[res])
            /\ m_socket' = IF res = "ERROR_SYSTEM"
                           THEN [m_socket EXCEPT ![id] = "closed"]
                           ELSE m_socket
      BY <2>2 DEF ListenReceiveFailed
    <3>2. m_socket' \in [Ids -> {"none", "connected", "closed", "deleted"}]
      BY <3>1 DEF PeersOK
    <3>3. {id} \in SUBSET Ids
      BY DEF LocalsOK
    <3> QED
      BY <3>1, <3>2, <3>3, ReceiveErrorsTyped, ScheduleTyped
  <2>3. CASE ListenDelete
    BY <2>3, EraseTyped DEF ListenDelete, PeersOK
  <2> QED
    BY <2>1, <2>2, <2>3, ListenFrame, PeersUnchanged
<1>4. LocalsOK'
  <2>1. CASE ListenAccepted
    BY <2>1 DEF ListenAccepted, listenUnchanged, LocalsOK
  <2>2. CASE ListenReceiveFailed
    BY <2>2 DEF ListenReceiveFailed, listenUnchanged, LocalsOK
  <2>3. CASE ListenDelete
    BY <2>3 DEF ListenDelete, listenUnchanged, LocalsOK, PeersOK
  <2>4. CASE UNCHANGED peerVars
    BY <2>4 DEF LocalsOK, PeersOK, _listenThreadJob, ListenWhile, ListenFlags,
       ListenFlags2, ListenOpened, ListenOpenFailed, ListenOpenedCallback,
       ListenOpenFailedCallback, ListenClose, ListenClosedCallback,
       ListenClear, _pauseUntilPeersOrListenerAvailable, ListenDestructor,
       ListenNoAccept, ListenAcceptFailed, ListenAcceptedCallback,
       ListenAcceptFailedCallback, ListenReceived, ListenNothingReceived,
       ListenNoDelete, ListenDeletedCallback, OnlyPc, listenUnchanged,
       OnlyListener, ListenCallbackFound, ListenCallbackDone, StartReceiving,
       ListenAcceptCallback, ListenAccepted, ListenReceiveFailed, ListenDelete
  <2> QED
    BY <2>1, <2>2, <2>3, <2>4, ListenFrame
<1>5. ListenerOK'
  BY DEF ListenerOK, _listenThreadJob, ListenWhile, ListenFlags, ListenFlags2,
     ListenOpened, ListenOpenFailed, ListenOpenedCallback,
     ListenOpenFailedCallback, ListenClose, ListenClosedCallback, ListenClear,
     _pauseUntilPeersOrListenerAvailable, ListenDestructor, ListenNoAccept,
     ListenAccepted, ListenAcceptFailed, ListenAcceptedCallback,
     ListenAcceptFailedCallback, ListenReceived, ListenNothingReceived,
     ListenReceiveFailed, ListenNoDelete, ListenDelete, ListenDeletedCallback,
     OnlyPc, OnlyListener, ListenCallbackFound, ListenCallbackDone,
     StartReceiving, ListenAcceptCallback
<1> QED
  BY <1>1, <1>2, <1>3, <1>4, <1>5

-----------------------------------------------------------------------------
(***************************************************************************)
(* The application.                                                        *)
(***************************************************************************)
\* Starting a thread keeps the counts of the threads typed.
LEMMA StartsTyped ==
  ASSUME starts \in [Workers -> Nat], NEW w \in Workers, StartThread(w)
  PROVE  starts' \in [Workers -> Nat]
<1> DEFINE n == IF m_thread_running[w] THEN starts[w] ELSE starts[w] + 1
<1>1. n \in Nat
  OBVIOUS
<1>2. starts' = [starts EXCEPT ![w] = n]
  BY DEF StartThread
<1> HIDE DEF n
<1> QED
  BY <1>1, <1>2

\* What the start of a call changes.
LEMMA CallFrame ==
  ASSUME NEW c \in Callers, Call(c)
  PROVE  /\ apiUnchanged
         /\ m_data_access' \in {m_data_access, c}
         /\ UNCHANGED <<m_callback_access, terminated>>
         /\ \E f \in ApiFunctions : Calls(c, f)
         /\ \/ \E id \in Ids : disconnectPeer(c, id)
            \/ disconnectAll(c)
            \/ UNCHANGED peerVars
         /\ connectTo(c) \/ UNCHANGED <<m_potential_peers, dialled>>
         /\ \/ \E id \in Ids : \E len \in Lengths : sendData(c, id, len)
            \/ UNCHANGED sendVars
  BY DEF ApiFunctions, Call, connectTo, doListen, stopListening, sendData,
     sendData_unknown, disconnectPeer, disconnectAll, setListener, onCallback,
     destructor, StartThread, KeepLocks, NoFlags, LockData, KeepCb, NoQueues,
     NoLife

\* What the later steps of a call change.
LEMMA ContinueFrame ==
  ASSUME NEW c \in Callers, Continue(c)
  PROVE  /\ apiUnchanged
         /\ m_data_access' \in {m_data_access, "none"}
         /\ terminated' = terminated \/ terminated' \in BOOLEAN
         /\ UNCHANGED <<m_callback_access, callerVars, m_potential_peers,
                        dialled, sendVars>>
         /\ destructor_end(c) \/ destructor_members(c) \/ UNCHANGED peerVars
  BY DEF Continue, connectTo_notify, doListen_changing, doListen_notify,
     _startListenThreadIfNotRunning, stopListening_wakeup,
     stopListening_notify, sendData_notify, sendData_error, _destructor,
     KeepLocks, NoFlags, NoQueues, NoLife, UnlockData, KeepCb,
     destructor_stop, destructor_notify, destructor_join, destructor_end,
     destructor_members

\* The first step of a call keeps all variables typed.
LEMMA CallTypeOK ==
  ASSUME TypeOK, NEW c \in Callers, Call(c)
  PROVE  TypeOK'
<1> USE DEF TypeOK
<1>1. PcOK'
  BY CallPc
<1>2. LifeOK'
  <2>1. starts' \in [Workers -> Nat]
    <3>1. \/ \E w \in Workers : StartThread(w)
          \/ UNCHANGED starts
      BY DEF Call, connectTo, doListen, stopListening, sendData,
         sendData_unknown, disconnectPeer, disconnectAll, setListener,
         onCallback, destructor, NoLife
    <3> QED
      BY <3>1, StartsTyped DEF LifeOK
  <2>2. /\ m_thread_running' \in [Workers -> BOOLEAN]
        /\ m_destructor_called' \in BOOLEAN
    BY DEF LifeOK, Call, connectTo, doListen, stopListening, sendData,
       sendData_unknown, disconnectPeer, disconnectAll, setListener,
       onCallback, destructor, StartThread, NoLife
  <2> QED
    BY <2>1, <2>2, CallFrame DEF LifeOK
<1>3. PeersOK'
  <2>1. CASE \E id \in Ids : disconnectPeer(c, id)
    BY <2>1, ScheduleTyped DEF disconnectPeer, DisconnectType, PeersOK
  <2>2. CASE disconnectAll(c)
    BY <2>2, ScheduleTyped DEF disconnectAll, DisconnectType, PeersOK
  <2> QED
    BY <2>1, <2>2, CallFrame, PeersUnchanged
<1>4. ListenerOK'
  BY DEF ListenerOK, Call, connectTo, doListen, stopListening, sendData,
     sendData_unknown, disconnectPeer, disconnectAll, setListener, onCallback,
     destructor, NoFlags
<1>5. QueuesOK'
  <2>1. dialled' \in Seq(Nat) /\ m_potential_peers' \in Seq(1 .. Len(dialled'))
    <3>1. CASE connectTo(c)
      <4>1. dialled' \in Seq(Nat) /\ Len(dialled') = Len(dialled) + 1
        BY <3>1, AppendTyped DEF connectTo, QueuesOK
      <4>2. m_potential_peers \in Seq(1 .. Len(dialled'))
        BY <4>1, WidenSeq DEF QueuesOK
      <4> QED
        BY <3>1, <4>1, <4>2, AppendTyped DEF connectTo
    <3> QED
      BY <3>1, CallFrame DEF QueuesOK
  <2>2. outcome' \in Seq(Outcomes) /\ m_data_to_send' \in Seq(Buffers')
    <3>1. CASE \E id \in Ids : \E len \in Lengths : sendData(c, id, len)
      <4>1. PICK id \in Ids, len \in Lengths : sendData(c, id, len)
        BY <3>1
      <4>2. outcome' \in Seq(Outcomes) /\ Len(outcome') = Len(outcome) + 1
        BY <4>1, AppendTyped DEF sendData, QueuesOK, Outcomes
      <4>3. Buffers \subseteq Buffers'
        BY <4>2 DEF Buffers, QueuesOK
      <4>4. m_data_to_send \in Seq(Buffers')
        BY <4>3, WidenSeq DEF QueuesOK
      <4>5. [buf |-> Len(outcome'), peer |-> id, len |-> len] \in Buffers'
        BY <4>2 DEF Buffers, QueuesOK
      <4> QED
        BY <4>1, <4>2, <4>4, <4>5, AppendTyped DEF sendData
    <3> QED
      BY <3>1, CallFrame DEF QueuesOK, Buffers
  <2> QED
    BY <2>1, <2>2 DEF QueuesOK
<1>6. LocalsOK'
  BY CallFrame DEF LocalsOK, apiUnchanged
<1>7. ApplicationOK'
  <2>1. calls' \in [ApiFunctions -> Nat]
    BY CallFrame DEF Calls, ApplicationOK
  <2>2. m_callbacks' \subseteq CallbackNames
    BY DEF ApplicationOK, Call, connectTo, doListen, stopListening, sendData,
       sendData_unknown, disconnectPeer, disconnectAll, setListener,
       onCallback, destructor
  <2> QED
    BY <2>1, <2>2 DEF ApplicationOK
<1> QED
  BY <1>1, <1>2, <1>3, <1>4, <1>5, <1>6, <1>7

\* So do its later steps.
LEMMA ContinueTypeOK ==
  ASSUME TypeOK, NEW c \in Callers, Continue(c)
  PROVE  TypeOK'
<1> USE DEF TypeOK
<1>1. PcOK'
  BY ContinuePc
<1>2. LifeOK'
  <2>1. starts' \in [Workers -> Nat]
    <3>1. \/ starts' = [starts EXCEPT !["listen"] = @ + 1]
          \/ UNCHANGED starts
      BY DEF Continue, connectTo_notify, doListen_changing, doListen_notify,
         _startListenThreadIfNotRunning, stopListening_wakeup,
         stopListening_notify, sendData_notify, sendData_error, _destructor,
         NoLife, destructor_stop, destructor_notify, destructor_join,
         destructor_end, destructor_members
    <3> QED
      BY <3>1 DEF LifeOK
  <2>2. /\ m_thread_running' \in [Workers -> BOOLEAN]
        /\ m_destructor_called' \in BOOLEAN
    BY DEF LifeOK, Continue, connectTo_notify, doListen_changing,
       doListen_notify, _startListenThreadIfNotRunning, stopListening_wakeup,
       stopListening_notify, sendData_notify, sendData_error, _destructor,
       NoLife, destructor_stop, destructor_notify, destructor_join,
       destructor_end, destructor_members
  <2> QED
    BY <2>1, <2>2, ContinueFrame DEF LifeOK
<1>5. ListenerOK'
  BY DEF ListenerOK, Continue, connectTo_notify, doListen_changing,
     doListen_notify, _startListenThreadIfNotRunning, stopListening_wakeup,
     stopListening_notify, sendData_notify, sendData_error, _destructor,
     NoFlags, NoLife, destructor_stop, destructor_notify, destructor_join,
     destructor_end, destructor_members
<1>3. PeersOK'
  <2>1. CASE destructor_end(c)
    BY <2>1, ScheduleTyped DEF destructor_end, DisconnectType, PeersOK
  <2>2. CASE destructor_members(c)
    BY <2>2, PeersUnchanged DEF destructor_members, erase, PeersOK
  <2> QED
    BY <2>1, <2>2, ContinueFrame, PeersUnchanged
<1>4. QueuesOK' /\ LocalsOK' /\ ApplicationOK'
  BY ContinueFrame
     DEF QueuesOK, Buffers, LocalsOK, ApplicationOK, apiUnchanged
<1> QED
  BY <1>1, <1>2, <1>3, <1>4, <1>5

\* And so does a wait() that returns without a notification.
LEMMA SpuriousWakeupTypeOK ==
  ASSUME TypeOK, NEW w \in Workers, SpuriousWakeup(w)
  PROVE  TypeOK'
<1>1. PcOK'
  BY GoTyped, LabelsOf
     DEF TypeOK, SpuriousWakeup, ConnectLabels, SendLabels, ListenLabels
<1> QED
  BY <1>1 DEF TypeOK, SpuriousWakeup, LifeOK, PeersOK, ListenerOK, QueuesOK,
     Buffers, LocalsOK, ApplicationOK

-----------------------------------------------------------------------------
(***************************************************************************)
(* The mutexes.  A step of thread t is a LockStep of t: it moves t, wakes  *)
(* or creates other threads at most, and t takes m_data_access, gives it   *)
(* back or keeps things as they are, in keeping with where t goes.         *)
(***************************************************************************)
LockStep(t) ==
  /\ \A u \in Threads \ {t} :
       \/ pc'[u] = pc[u]
       \/ pc[u] \in {"waiting", "off"} /\ pc'[u] \in {"pause", "while"}
  /\ \/ /\ UNCHANGED m_data_access
        /\ pc[t] \in DataLabels(t) <=> pc'[t] \in DataLabels(t)
     \/ /\ m_data_access = "none" /\ m_data_access' = t
        /\ pc'[t] \in DataLabels(t)
     \/ /\ pc[t] \in DataLabels(t) /\ m_data_access' = "none"
        /\ pc'[t] \notin DataLabels(t)

DataProtects == \A t \in Threads : m_data_access = t <=> pc[t] \in DataLabels(t)

\* DataLabels, spelled out thread by thread.
LEMMA DataLabelsOf ==
  /\ DataLabels("connect") = {"block"}
  /\ DataLabels("send") = {"block", "sent", "onSend", "nopeer", "onSendError"}
  /\ DataLabels("listen") =
       {"block", "opened", "onStartedListening", "openFailed",
        "onListenError", "closed", "accepted", "onAccept", "acceptFailed",
        "onAcceptError", "receive", "onReceive", "deleted", "onDisconnect"}
  /\ \A c \in Callers : DataLabels(c) = {"doListen", "sendData_error"}
  BY CallersDistinct DEF DataLabels

\* A thread that sleeps, starts or wakes up owns no mutex.
LEMMA RestLabels ==
  \A t \in Threads :
    {"waiting", "off", "pause", "while"} \cap DataLabels(t) = {}
  BY DataLabelsOf

\* A step that takes and releases m_data_access as it enters and leaves
\* the labels of a section preserves mutual exclusion.
LEMMA LockStepProtects ==
  ASSUME DataProtects, NEW t \in Threads, LockStep(t)
  PROVE  DataProtects'
<1> SUFFICES ASSUME NEW u \in Threads
             PROVE  m_data_access' = u <=> pc'[u] \in DataLabels(u)
  BY DEF DataProtects, DataLabels
<1>1. t # "none" /\ u # "none"
  BY CallersDistinct
<1>2. CASE u = t
  BY <1>1, <1>2 DEF DataProtects, LockStep
<1>3. CASE u # t
  <2>1. pc'[u] \in DataLabels(u) <=> pc[u] \in DataLabels(u)
    BY <1>3, RestLabels DEF LockStep
  <2> QED
    BY <1>1, <1>3, <2>1 DEF DataProtects, LockStep
<1> QED
  BY <1>2, <1>3

\* Every step of the connect thread is such a step,
LEMMA ConnectLockStep ==
  ASSUME PcOK, DataProtects, _connectThreadJob
  PROVE  LockStep("connect")
<1> USE DEF PcOK, LockStep
<1>1. CASE ConnectWhile
  BY <1>1, DataLabelsOf DEF ConnectWhile, Go, KeepLocks
<1>2. CASE ConnectSize
  BY <1>2, DataLabelsOf DEF ConnectSize, DataFree, Go, KeepLocks
<1>3. CASE _pauseUntilQueueNotEmpty
  BY <1>3, DataLabelsOf DEF _pauseUntilQueueNotEmpty, PauseTest, PauseBlock,
     DataFree, Go, KeepData, KeepCb, UnlockData
<1>4. CASE ConnectFront
  BY <1>4, DataLabelsOf DEF ConnectFront, DataFree, Go, KeepLocks
<1>5. CASE ConnectRetry
  BY <1>5, DataLabelsOf DEF ConnectRetry, KeepLocks
<1>6. CASE ConnectFailed
  BY <1>6, DataLabelsOf DEF ConnectFailed, CbFree, Go, AfterPass, KeepLocks
<1>7. CASE ConnectSucceeded
  BY <1>7, DataLabelsOf DEF ConnectSucceeded, DataFree, Go, KeepLocks
<1>8. CASE ConnectCallback
  BY <1>8, DataLabelsOf DEF ConnectCallback, CbFree, GoAndNotify, AfterPass,
     KeepLocks, Woken
<1>9. CASE ConnectPop
  BY <1>9, DataLabelsOf DEF ConnectPop, DataFree, Go, KeepLocks
<1> QED
  BY <1>1, <1>2, <1>3, <1>4, <1>5, <1>6, <1>7, <1>8, <1>9 DEF
     _connectThreadJob

\* and so is every step of the send thread,
LEMMA SendLockStep ==
  ASSUME PcOK, DataProtects, _sendThreadJob
  PROVE  LockStep("send")
<1> USE DEF PcOK, LockStep
<1>1. CASE SendWhile
  BY <1>1, DataLabelsOf DEF SendWhile, Go, KeepLocks
<1>2. CASE SendPause
  BY <1>2, DataLabelsOf DEF SendPause, DataFree, Go, KeepLocks
<1>3. CASE _pauseUntilDataToSendAvailable
  BY <1>3, DataLabelsOf DEF _pauseUntilDataToSendAvailable, PauseTest,
     PauseBlock, DataFree, Go, KeepData, KeepCb, UnlockData
<1>4. CASE SendNothing
  BY <1>4, DataLabelsOf DEF SendNothing, SendLocked, Go, KeepLocks, DataFree
<1>5. CASE SendNoPeer
  BY <1>5, DataLabelsOf DEF SendNoPeer, SendLocked, LockData, Go, KeepCb,
     DataFree
<1>6. CASE SendDropped
  BY <1>6, DataLabelsOf DEF SendDropped, SendLocked, PopAndUnlock, DataFree,
     UnlockData, KeepCb, Go
<1>7. CASE SendBytes
  BY <1>7, DataLabelsOf DEF SendBytes, Sendable, LockData, Go, KeepCb,
     SendLocked, DataFree
<1>8. CASE SendFailed
  BY <1>8, DataLabelsOf DEF SendFailed, Sendable, PopAndUnlock, SendLocked,
     UnlockData, KeepCb, Go, DataFree
<1>9. CASE SendSentCallback
  BY <1>9, DataLabelsOf DEF SendSentCallback, SendCallback, CbFree, Go,
     KeepLocks, CallAndReturn, PopAndUnlock, UnlockData, KeepCb
<1>10. CASE SendErrorCallback
  BY <1>10, DataLabelsOf DEF SendErrorCallback, SendCallback, CbFree, Go,
     KeepLocks, CallAndReturn, PopAndUnlock, UnlockData, KeepCb
<1> QED
  BY <1>1, <1>2, <1>3, <1>4, <1>5, <1>6, <1>7, <1>8, <1>9, <1>10 DEF
     _sendThreadJob

\* of the listen thread,
LEMMA ListenLockStep ==
  ASSUME PcOK, DataProtects, _listenThreadJob
  PROVE  LockStep("listen")
<1> USE DEF PcOK, LockStep
<1>1. CASE ListenWhile
  BY <1>1, DataLabelsOf DEF ListenWhile, Go, KeepLocks
<1>2. CASE ListenFlags
  BY <1>2, DataLabelsOf DEF ListenFlags, Go, KeepLocks
<1>3. CASE ListenFlags2
  BY <1>3, DataLabelsOf DEF ListenFlags2, Go, KeepLocks
<1>4. CASE ListenOpened
  BY <1>4, DataLabelsOf DEF ListenOpened, LockData, Go, KeepCb, DataFree
<1>5. CASE ListenOpenFailed
  BY <1>5, DataLabelsOf DEF ListenOpenFailed, LockData, Go, KeepCb, DataFree
<1>6. CASE ListenOpenedCallback
  BY <1>6, DataLabelsOf DEF ListenOpenedCallback, ListenCallbackFound,
     ListenCallbackDone, UnlockData, KeepCb, Go, CbFree, KeepLocks,
     CallAndReturn
<1>7. CASE ListenOpenFailedCallback
  BY <1>7, DataLabelsOf DEF ListenOpenFailedCallback, ListenCallbackFound,
     ListenCallbackDone, UnlockData, KeepCb, Go, CbFree, KeepLocks,
     CallAndReturn
<1>8. CASE ListenClose
  BY <1>8, DataLabelsOf DEF ListenClose, LockData, Go, KeepCb, DataFree
<1>9. CASE ListenClosedCallback
  BY <1>9, DataLabelsOf DEF ListenClosedCallback, CbFree, Go, KeepCb,
     UnlockData, DataFree, KeepData
<1>10. CASE ListenClear
  BY <1>10, DataLabelsOf DEF ListenClear, Go, KeepLocks
<1>11. CASE _pauseUntilPeersOrListenerAvailable
  BY <1>11, DataLabelsOf DEF _pauseUntilPeersOrListenerAvailable, PauseTest,
     PauseBlock, DataFree, Go, KeepData, KeepCb, UnlockData
<1>12. CASE ListenDestructor
  BY <1>12, DataLabelsOf DEF ListenDestructor, Go, KeepLocks
<1>13. CASE ListenNoAccept
  BY <1>13, DataLabelsOf DEF ListenNoAccept, LockData, StartReceiving, KeepCb,
     DataFree, Go
<1>14. CASE ListenAccepted
  BY <1>14, DataLabelsOf DEF ListenAccepted, LockData, Go, KeepCb, DataFree
<1>15. CASE ListenAcceptFailed
  BY <1>15, DataLabelsOf DEF ListenAcceptFailed, LockData, Go, KeepCb,
     DataFree
<1>16. CASE ListenAcceptedCallback
  BY <1>16, DataLabelsOf DEF ListenAcceptedCallback, ListenAcceptCallback,
     ListenCallbackFound, ListenCallbackDone, StartReceiving, KeepLocks,
     CbFree, Go, CallAndReturn
<1>17. CASE ListenAcceptFailedCallback
  BY <1>17, DataLabelsOf DEF ListenAcceptFailedCallback, ListenAcceptCallback,
     ListenCallbackFound, ListenCallbackDone, StartReceiving, KeepLocks,
     CbFree, Go, CallAndReturn
<1>18. CASE ListenReceived
  BY <1>18, DataLabelsOf DEF ListenReceived, CbFree, Go, KeepLocks,
     CallAndReturn
<1>19. CASE ListenNothingReceived
  BY <1>19, DataLabelsOf DEF ListenNothingReceived, CbFree, KeepLocks
<1>20. CASE ListenReceiveFailed
  BY <1>20, DataLabelsOf DEF ListenReceiveFailed, CbFree, KeepLocks
<1>21. CASE ListenNoDelete
  BY <1>21, DataLabelsOf DEF ListenNoDelete, ListenReceiveDone, UnlockData,
     KeepCb, Go
<1>22. CASE ListenDelete
  BY <1>22, DataLabelsOf DEF ListenDelete, ListenReceiveDone, Go, KeepLocks
<1>23. CASE ListenDeletedCallback
  BY <1>23, DataLabelsOf DEF ListenDeletedCallback, ListenCallbackFound,
     ListenCallbackDone, UnlockData, KeepCb, Go, CbFree, KeepLocks,
     CallAndReturn
<1> QED
  BY <1>1, <1>2, <1>3, <1>4, <1>5, <1>6, <1>7, <1>8, <1>9, <1>10, <1>11,
     <1>12, <1>13, <1>14, <1>15, <1>16, <1>17, <1>18, <1>19, <1>20, <1>21,
     <1>22, <1>23 DEF _listenThreadJob

\* The labels of the destructor
DestructorLabels ==
  {"~connect", "~connect_notify", "~connect_join", "~send", "~send_notify",
   "~send_join", "~listen", "~listen_notify", "~listen_join", "~end",
   "~members", "destroyed"}

\* The flags are taken back by the destructor only: before it, a worker whose
\* flag is not set has never run.
FlagsHonest ==
  /\ \A c \in Callers : pc[c] \in DestructorLabels => m_destructor_called
  /\ \A w \in Workers :
       ~m_destructor_called /\ ~m_thread_running[w] => pc[w] = "off"

\* of a call that begins,
LEMMA CallLockStep ==
  ASSUME PcOK, DataProtects, FlagsHonest, NEW c \in Callers, Call(c)
  PROVE  LockStep(c)
<1> USE DEF PcOK, LockStep
<1>1. CASE connectTo(c)
  BY <1>1, DataLabelsOf, CallersDistinct DEF connectTo, Calls, DataFree,
     Started, KeepLocks, FlagsHonest
<1>2. CASE \E port \in Ports : doListen(c, port)
  BY <1>2, DataLabelsOf, CallersDistinct DEF doListen, Calls, LockData,
     KeepCb, Go, DataFree
<1>3. CASE stopListening(c)
  BY <1>3, DataLabelsOf, CallersDistinct DEF stopListening, Calls, Go,
     KeepLocks
<1>4. CASE \E id \in Ids : \E len \in Lengths : sendData(c, id, len)
  BY <1>4, DataLabelsOf, CallersDistinct DEF sendData, Calls, DataFree,
     Started, KeepLocks, FlagsHonest
<1>5. CASE \E id \in 0 .. m_connection_counter : sendData_unknown(c, id)
  BY <1>5, DataLabelsOf, CallersDistinct DEF sendData_unknown, Calls,
     LockData, KeepCb, Go, DataFree
<1>6. CASE \E id \in Ids : disconnectPeer(c, id)
  BY <1>6, DataLabelsOf, CallersDistinct DEF disconnectPeer, Calls, DataFree,
     KeepLocks
<1>7. CASE disconnectAll(c)
  BY <1>7, DataLabelsOf, CallersDistinct DEF disconnectAll, Calls, DataFree,
     KeepLocks
<1>8. CASE setListener(c)
  BY <1>8, DataLabelsOf, CallersDistinct DEF setListener, Calls, DataFree,
     KeepLocks
<1>9. CASE \E callback \in CallbackNames : onCallback(c, callback)
  BY <1>9, DataLabelsOf, CallersDistinct DEF onCallback, CbFree, Calls,
     KeepLocks
<1>10. CASE destructor(c)
  BY <1>10, DataLabelsOf, CallersDistinct DEF destructor, Calls, Go, KeepLocks
<1> QED
  BY <1>1, <1>2, <1>3, <1>4, <1>5, <1>6, <1>7, <1>8, <1>9, <1>10 DEF Call

\* Where the destructor goes, it holds no mutex.
LEMMA DestructorUnlocked ==
  \A c \in Callers : \A w \in Workers :
    {Stopping[w], Stopping[After[w]], Notifying[w], Joining[w]}
      \cap DataLabels(c) = {}
  BY DataLabelsOf DEF Stopping, Notifying, Joining, After

\* of a call in progress,
LEMMA ContinueLockStep ==
  ASSUME PcOK, DataProtects, NEW c \in Callers, Continue(c)
  PROVE  LockStep(c)
<1> USE DEF PcOK, LockStep
<1>1. CASE connectTo_notify(c)
  BY <1>1, DataLabelsOf, CallersDistinct DEF connectTo_notify, GoAndNotify,
     KeepLocks, Woken
<1>2. CASE doListen_changing(c)
  BY <1>2, DataLabelsOf, CallersDistinct DEF doListen_changing, UnlockData,
     KeepCb, Go
<1>3. CASE doListen_notify(c)
  BY <1>3, DataLabelsOf, CallersDistinct DEF doListen_notify, GoAndNotify,
     KeepLocks, Woken
<1>4. CASE _startListenThreadIfNotRunning(c)
  BY <1>4, DataLabelsOf, CallersDistinct DEF _startListenThreadIfNotRunning,
     Go, KeepLocks, DataFree
<1>5. CASE stopListening_wakeup(c)
  BY <1>5, DataLabelsOf, CallersDistinct DEF stopListening_wakeup, Go,
     KeepLocks
<1>6. CASE stopListening_notify(c)
  BY <1>6, DataLabelsOf, CallersDistinct DEF stopListening_notify,
     GoAndNotify, KeepLocks, Woken
<1>7. CASE sendData_notify(c)
  BY <1>7, DataLabelsOf, CallersDistinct DEF sendData_notify, GoAndNotify,
     KeepLocks, Woken
<1>8. CASE sendData_error(c)
  BY <1>8, DataLabelsOf, CallersDistinct DEF sendData_error, CbFree,
     UnlockData, KeepCb, Go
<1>9. CASE _destructor(c)
  <2>1. CASE \E w \in Workers : destructor_stop(c, w)
    BY <2>1, DestructorUnlocked DEF destructor_stop, Go, KeepLocks
  <2>2. CASE \E w \in Workers : destructor_notify(c, w)
    BY <2>2, DestructorUnlocked, CallersDistinct
       DEF destructor_notify, GoAndNotify, Woken, KeepLocks
  <2>3. CASE \E w \in Workers : destructor_join(c, w)
    BY <2>3, DestructorUnlocked DEF destructor_join, Go, KeepLocks
  <2>4. CASE destructor_end(c) \/ destructor_members(c)
    BY <2>4, DataLabelsOf DEF destructor_end, destructor_members, Go, KeepLocks
  <2> QED
    BY <1>9, <2>1, <2>2, <2>3, <2>4 DEF _destructor
<1> QED
  BY <1>1, <1>2, <1>3, <1>4, <1>5, <1>6, <1>7, <1>8, <1>9 DEF Continue

\* and a spurious wakeup.
LEMMA SpuriousLockStep ==
  ASSUME PcOK, NEW w \in Workers, SpuriousWakeup(w)
  PROVE  LockStep(w)
  BY DataLabelsOf DEF PcOK, LockStep, SpuriousWakeup, Go

-----------------------------------------------------------------------------
(***************************************************************************)
(* The inductive invariant.                                                *)
(***************************************************************************)
\* Sockets exist for the ids that were handed out, and for no others.
SocketsMatchCounter ==
  \A id \in Ids : m_socket[id] = "none" <=> id > m_connection_counter

\* A worker was started as often as its place says: for the listen thread,
\* which can be started over a running one, that is a lower bound.
StartsCounted ==
  /\ \A w \in {"connect", "send"} :
       starts[w] = IF pc[w] = "off" THEN 0 ELSE 1
  /\ pc["listen"] # "off" => starts["listen"] >= 1

(***************************************************************************)
(* The destructor.  It runs alone; a worker whose flag it finds or leaves  *)
(* cleared is not running, but for the one it is about to join; and the    *)
(* flag of a worker it has cleared stays so.                               *)
(***************************************************************************)
\* The labels of the destructor once it has cleared the flag of a worker
ClearedLabels ==
  [connect |-> DestructorLabels \ {"~connect"},
   send |-> {"~send_notify", "~send_join", "~listen", "~listen_notify",
             "~listen_join", "~end", "~members", "destroyed"},
   listen |-> {"~listen_notify", "~listen_join", "~end", "~members", "destroyed"}]

DestructorRuns ==
  m_destructor_called => \E c \in Callers : pc[c] \in DestructorLabels

DestructorAlone ==
  \A c \in Callers : pc[c] \in DestructorLabels =>
    \A d \in Callers \ {c} : pc[d] = "idle"

DestructorJoins ==
  \A c \in Callers : pc[c] \in DestructorLabels =>
    \A w \in Workers :
      /\ pc[c] \in ClearedLabels[w] => ~m_thread_running[w]
      /\ ~m_thread_running[w] /\ pc[c] \notin {Notifying[w], Joining[w]} =>
           pc[w] \in {"off", "done"}

DestructorInv == DestructorRuns /\ DestructorAlone /\ DestructorJoins

\* A call that is about to create the listen thread has set its flag.
StarterMarked ==
  \A c \in Callers :
    pc[c] = "start_thread" => m_thread_running["listen"] \/ m_destructor_called

\* The conjuncts that are no property of their own are what the others need to
\* be preserved.
Inv ==
  /\ TypeOK
  /\ LocksProtect
  /\ FlagsHonest
  /\ StarterMarked
  /\ StartsCounted
  /\ DestructorInv
  /\ FrontExists
  /\ PeersOwnSockets
  /\ SocketsMatchCounter
  /\ ClosedSocketsScheduled
  /\ IteratorsValid

\* A new node is typed.
LEMMA InitTypeOK == Init => TypeOK
<1> SUFFICES ASSUME Init PROVE TypeOK
  OBVIOUS
<1>1. PcOK
  <2>1. pc \in [Threads -> AllLabels]
    BY DEF Init, AllLabels, ConnectLabels, CallerLabels
  <2>2. \A w \in Workers : pc[w] \in Labels(w)
    BY LabelsOf DEF Init, ConnectLabels, SendLabels, ListenLabels
  <2>3. \A c \in Callers : pc[c] \in Labels(c)
    BY CallersDistinct, LabelsOf DEF Init, CallerLabels
  <2> QED
    BY <2>1, <2>2, <2>3 DEF PcOK
<1>2. LifeOK
  BY DEF Init, LifeOK
<1>3. PeersOK
  BY ConstantsAssumption DEF Init, PeersOK, DisconnectType
<1>4. ListenerOK
  BY DEF Init, ListenerOK
<1>7. LocalsOK
  BY ConstantsAssumption DEF Init, LocalsOK
<1>5. QueuesOK
  BY DEF Init, QueuesOK
<1>6. ApplicationOK
  BY ConstantsAssumption DEF Init, ApplicationOK
<1> QED
  BY <1>1, <1>2, <1>3, <1>4, <1>5, <1>6, <1>7 DEF TypeOK

\* A new node satisfies the invariant.
LEMMA InitInv == Init => Inv
<1> SUFFICES ASSUME Init PROVE Inv
  OBVIOUS
<1>1. TypeOK
  BY InitTypeOK
<1>2. LocksProtect
  BY DataLabelsOf, CallersDistinct DEF Init, LocksProtect
<1>3. FlagsHonest /\ StarterMarked /\ StartsCounted
  BY CallersDistinct DEF Init, FlagsHonest, StarterMarked, StartsCounted,
     DestructorLabels
<1>6. DestructorInv
  BY CallersDistinct DEF Init, DestructorInv, DestructorRuns, DestructorAlone,
     DestructorJoins, DestructorLabels
<1>4. FrontExists /\ IteratorsValid
  BY DEF Init, FrontExists, IteratorsValid
<1>5. PeersOwnSockets /\ SocketsMatchCounter /\ ClosedSocketsScheduled
  BY ConstantsAssumption
     DEF Init, PeersOwnSockets, SocketsMatchCounter, ClosedSocketsScheduled
<1> QED
  BY <1>1, <1>2, <1>3, <1>4, <1>5, <1>6 DEF Inv

\* Thread t moves no other thread, but for one it wakes.
OnlyWakes(t) ==
  \A u \in Threads \ {t} :
    pc'[u] = pc[u] \/ (pc[u] = "waiting" /\ pc'[u] = "pause")

\* The connect thread moves no thread but one it notifies,
LEMMA ConnectWakes ==
  ASSUME PcOK, _connectThreadJob
  PROVE  OnlyWakes("connect")
  BY DEF PcOK, OnlyWakes, _connectThreadJob, ConnectWhile, ConnectSize,
     _pauseUntilQueueNotEmpty, ConnectFront, ConnectRetry, ConnectFailed,
     ConnectSucceeded, ConnectCallback, ConnectPop, Go, PauseTest, PauseBlock,
     GoAndNotify, Woken

\* the send thread moves no other thread at all,
LEMMA SendWakes ==
  ASSUME PcOK, _sendThreadJob
  PROVE  OnlyWakes("send")
  BY DEF PcOK, OnlyWakes, _sendThreadJob, SendWhile, SendPause,
     _pauseUntilDataToSendAvailable, SendNothing, SendNoPeer, SendDropped,
     SendBytes, SendFailed, SendSentCallback, SendErrorCallback, Go,
     PauseTest, PauseBlock, PopAndUnlock, SendCallback

\* and neither does the listen thread.
LEMMA ListenWakes ==
  ASSUME PcOK, _listenThreadJob
  PROVE  OnlyWakes("listen")
  BY DEF PcOK, OnlyWakes, _listenThreadJob, ListenWhile, ListenFlags,
     ListenFlags2, ListenOpened, ListenOpenFailed, ListenOpenedCallback,
     ListenOpenFailedCallback, ListenClose, ListenClosedCallback, ListenClear,
     _pauseUntilPeersOrListenerAvailable, ListenDestructor, ListenNoAccept,
     ListenAccepted, ListenAcceptFailed, ListenAcceptedCallback,
     ListenAcceptFailedCallback, ListenReceived, ListenNothingReceived,
     ListenReceiveFailed, ListenNoDelete, ListenDelete, ListenDeletedCallback,
     Go, ListenCallbackFound, ListenCallbackDone, PauseTest, PauseBlock,
     StartReceiving, ListenAcceptCallback

\* A worker that takes a step has been started and has not come to its end,
\* and it does not go back to where it was before it was started.
LEMMA WorkerRuns ==
  ASSUME PcOK
  PROVE  /\ _connectThreadJob =>
              pc["connect"] \notin {"off", "done"} /\ pc'["connect"] # "off"
         /\ _sendThreadJob =>
              pc["send"] \notin {"off", "done"} /\ pc'["send"] # "off"
         /\ _listenThreadJob =>
              pc["listen"] \notin {"off", "done"} /\ pc'["listen"] # "off"
<1>1. _connectThreadJob => pc["connect"] \notin {"off", "done"}
  BY DEF _connectThreadJob, ConnectWhile, ConnectSize,
     _pauseUntilQueueNotEmpty, ConnectFront, ConnectRetry, ConnectFailed,
     ConnectSucceeded, ConnectCallback, ConnectPop, PauseTest, PauseBlock
<1>2. _sendThreadJob => pc["send"] \notin {"off", "done"}
  BY DEF _sendThreadJob, SendWhile, SendPause,
     _pauseUntilDataToSendAvailable, SendNothing, SendNoPeer, SendDropped,
     SendBytes, SendFailed, Sendable, SendLocked, SendSentCallback,
     SendErrorCallback, SendCallback, PauseTest, PauseBlock
<1>3. _listenThreadJob => pc["listen"] \notin {"off", "done"}
  BY DEF _listenThreadJob, ListenWhile, ListenFlags, ListenFlags2,
     ListenOpened, ListenOpenFailed, ListenOpenedCallback,
     ListenOpenFailedCallback, ListenClose, ListenClosedCallback, ListenClear,
     _pauseUntilPeersOrListenerAvailable, ListenDestructor, ListenNoAccept,
     ListenAccepted, ListenAcceptFailed, ListenAcceptedCallback,
     ListenAcceptFailedCallback, ListenReceived, ListenNothingReceived,
     ListenReceiveFailed, ListenNoDelete, ListenDelete, ListenDeletedCallback,
     ListenCallbackFound, ListenCallbackDone, ListenAcceptCallback,
     ListenReceiveDone, PauseTest, PauseBlock
<1>4. _connectThreadJob => pc'["connect"] # "off"
  BY <1>1 DEF PcOK, _connectThreadJob, ConnectWhile, ConnectSize,
     _pauseUntilQueueNotEmpty, ConnectFront, ConnectRetry, ConnectFailed,
     ConnectSucceeded, ConnectCallback, ConnectPop, PauseTest, PauseBlock,
     AfterPass, Go, GoAndNotify, Woken
<1>5. _sendThreadJob => pc'["send"] # "off"
  BY <1>2 DEF PcOK, _sendThreadJob, SendWhile, SendPause,
     _pauseUntilDataToSendAvailable, SendNothing, SendNoPeer, SendDropped,
     SendBytes, SendFailed, SendSentCallback, SendErrorCallback, SendCallback,
     PopAndUnlock, PauseTest, PauseBlock, Go
<1>6. _listenThreadJob => pc'["listen"] # "off"
  BY <1>3 DEF PcOK, _listenThreadJob, ListenWhile, ListenFlags, ListenFlags2,
     ListenOpened, ListenOpenFailed, ListenOpenedCallback,
     ListenOpenFailedCallback, ListenClose, ListenClosedCallback, ListenClear,
     _pauseUntilPeersOrListenerAvailable, ListenDestructor, ListenNoAccept,
     ListenAccepted, ListenAcceptFailed, ListenAcceptedCallback,
     ListenAcceptFailedCallback, ListenReceived, ListenNothingReceived,
     ListenReceiveFailed, ListenNoDelete, ListenDelete, ListenDeletedCallback,
     ListenCallbackFound, ListenAcceptCallback, StartReceiving, PauseTest,
     PauseBlock, Go
<1> QED
  BY <1>1, <1>2, <1>3, <1>4, <1>5, <1>6

\* A step of a worker starts no worker and is no step of the destructor: it
\* moves no caller, and no thread that is off or done.
LEMMA WorkerKeepsLife ==
  ASSUME PcOK, FlagsHonest, StarterMarked, StartsCounted, DestructorInv,
         NEW w \in Workers, OnlyWakes(w), pc[w] \notin {"off", "done"},
         pc'[w] # "off", UNCHANGED lifeVars
  PROVE  FlagsHonest' /\ StarterMarked' /\ StartsCounted' /\ DestructorInv'
<1>1. \A c \in Callers : pc'[c] = pc[c]
  BY CallersDistinct, LabelsOf DEF PcOK, OnlyWakes, CallerLabels
<1>2. \A v \in Workers : pc[v] \in {"off", "done"} => pc'[v] = pc[v]
  BY DEF OnlyWakes
<1>3. \A v \in Workers : pc'[v] = "off" <=> pc[v] = "off"
  BY DEF OnlyWakes
<1>4. FlagsHonest' /\ StarterMarked'
  BY <1>1, <1>2 DEF FlagsHonest, StarterMarked
<1>5. StartsCounted'
  BY <1>3 DEF StartsCounted
<1>6. DestructorInv'
  BY <1>1, <1>2 DEF DestructorInv, DestructorRuns, DestructorAlone,
     DestructorJoins, DestructorLabels
<1> QED
  BY <1>4, <1>5, <1>6

\* A step of another thread leaves what the connect and the send thread rely on.
LEMMA FrontKept ==
  ASSUME FrontExists, NEW t \in Threads, LockStep(t),
         t # "connect" =>
           (m_potential_peers # <<>> => m_potential_peers' # <<>>),
         t # "send" => (m_data_to_send # <<>> => m_data_to_send' # <<>>)
  PROVE  /\ t # "connect" =>
              (pc'["connect"] \in {"front", "connect", "connected", "pop"} =>
                 m_potential_peers' # <<>>)
         /\ t # "send" =>
              (pc'["send"] \in {"sent", "onSend", "nopeer", "onSendError"} =>
                 m_data_to_send' # <<>>)
  BY DEF FrontExists, LockStep

TableInv == PeersOwnSockets /\ SocketsMatchCounter /\ ClosedSocketsScheduled

\* No step brings a node back whose members are being destroyed.
LEMMA LivingKept ==
  ASSUME NEW t \in Threads, LockStep(t),
         t \in Callers /\ pc[t] \in {"~members", "destroyed"} =>
           pc'[t] \in {"~members", "destroyed"}
  PROVE  Living' => Living
  BY DEF Living, LockStep

\* While a worker runs, the members of the node exist.
LEMMA WorkerLives ==
  ASSUME DestructorInv, NEW w \in Workers, pc[w] \notin {"off", "done"}
  PROVE  Living
  BY DEF DestructorInv, DestructorJoins, Living, DestructorLabels,
     ClearedLabels, Notifying, Joining

\* The operations on the table preserve what is known of it.
LEMMA NewPeerTable ==
  ASSUME PeersOK, TableInv, Living, NEW id \in Ids, NewPeer(id)
  PROVE  TableInv'
  BY ConstantsAssumption
     DEF PeersOK, TableInv, PeersOwnSockets, SocketsMatchCounter,
         ClosedSocketsScheduled, NewPeer

\* scheduleDelete() for peers of the table;
LEMMA ScheduleTable ==
  ASSUME PeersOK, TableInv, Living' => Living, NEW ids \in SUBSET Ids,
         NEW type, scheduleDelete(ids, type), UNCHANGED m_socket
  PROVE  TableInv'
  BY DEF PeersOK, TableInv, PeersOwnSockets, SocketsMatchCounter,
         ClosedSocketsScheduled, scheduleDelete

\* receive() closing the socket of a peer that is scheduled;
LEMMA CloseTable ==
  ASSUME PeersOK, TableInv, Living, NEW id \in m_peers, NEW type,
         scheduleDelete({id}, type), m_socket' = [m_socket EXCEPT ![id] = "closed"]
  PROVE  TableInv'
  BY DEF PeersOK, TableInv, PeersOwnSockets, SocketsMatchCounter,
         ClosedSocketsScheduled, scheduleDelete

\* destroySocket() and erase();
LEMMA EraseTable ==
  ASSUME PeersOK, TableInv, Living, NEW id \in m_peers,
         destroySocketAndErase(id)
  PROVE  TableInv'
  BY DEF PeersOK, TableInv, PeersOwnSockets, SocketsMatchCounter,
         ClosedSocketsScheduled, destroySocketAndErase

\* and steps that leave the table alone.
LEMMA TableUnchanged ==
  ASSUME TableInv, Living' => Living, UNCHANGED peerVars
  PROVE  TableInv'
  BY DEF TableInv, PeersOwnSockets, SocketsMatchCounter, ClosedSocketsScheduled

\* The send thread's own part of IteratorsValid, and the listen thread's.
SendIterator ==
  pc["send"] \in {"sent", "onSend"} => curr_out_buffer.peer \in m_peers
ListenIterators ==
  /\ pc["listen"] \in {"receive", "onReceive"} => todo \subseteq m_peers
  /\ pc["listen"] \in {"accepted", "onAccept", "onReceive"} =>
       current \in m_peers

\* They outlive the steps of other threads that take no peer out of m_peers.
LEMMA SendIteratorKept ==
  ASSUME SendIterator, NEW t \in Threads, LockStep(t), t # "send",
         m_peers \subseteq m_peers', curr_out_buffer' = curr_out_buffer
         \/ pc["send"] \notin {"sent", "onSend"}
  PROVE  SendIterator'
  BY DEF SendIterator, LockStep

\* The same for the iterators of the listen thread.
LEMMA ListenIteratorsKept ==
  ASSUME ListenIterators, NEW t \in Threads, LockStep(t), t # "listen",
         m_peers \subseteq m_peers', UNCHANGED listenLocals
  PROVE  ListenIterators'
  BY DEF ListenIterators, LockStep

\* m_callback_access is left alone by every thread but the listen thread.
CbProtects == m_callback_access = "listen" <=> pc["listen"] = "onStoppedListening"

\* Its steps are the only ones that can break that.
LEMMA CbKept ==
  ASSUME CbProtects, NEW t \in Threads, LockStep(t), t # "listen",
         UNCHANGED m_callback_access
  PROVE  CbProtects'
  BY DEF CbProtects, LockStep

\* The invariant, cut along what the lemmas above are about.
InvParts ==
  /\ TypeOK /\ DataProtects /\ CbProtects
  /\ FlagsHonest /\ StarterMarked /\ StartsCounted /\ DestructorInv
  /\ FrontExists /\ TableInv /\ SendIterator /\ ListenIterators

\* The two forms of the invariant are the same, now and after a step.
LEMMA InvIsItsParts == (Inv <=> InvParts) /\ (Inv' <=> InvParts')
  BY DEF Inv, InvParts, LocksProtect, DataProtects, CbProtects, TableInv,
     IteratorsValid, SendIterator, ListenIterators

\* The start of a call keeps what the destructor relies on: only the destructor
\* gets to its labels, and it starts when all other calls are through.
LEMMA CallKeepsDestructor ==
  ASSUME InvParts, DestructorInv, NEW c \in Callers, Call(c)
  PROVE  DestructorInv'
<1>1. PcOK /\ LockStep(c) /\ FlagsHonest
  BY CallLockStep DEF InvParts, TypeOK
<1>2. ~m_destructor_called
  BY CallFrame DEF Calls
<1>3. \A d \in Callers : pc[d] \notin DestructorLabels
  BY <1>1, <1>2 DEF FlagsHonest
<1>4. CASE destructor(c)
  <2>1. /\ pc'[c] = "~connect"
        /\ \A d \in Callers \ {c} : pc'[d] = "idle"
        /\ \A w \in Workers : pc'[w] = pc[w]
    BY <1>1, <1>4, CallersDistinct DEF destructor, Go, PcOK
  <2>2. \A w \in Workers : "~connect" \notin ClearedLabels[w]
    BY DEF ClearedLabels, DestructorLabels
  <2>3. \A w \in Workers : ~m_thread_running'[w] => pc'[w] = "off"
    BY <1>1, <1>2, <1>4, <2>1 DEF destructor, FlagsHonest
  <2>4. \A d \in Callers : pc'[d] \in DestructorLabels => d = c
    BY <2>1 DEF DestructorLabels
  <2> QED
    BY <2>1, <2>2, <2>3, <2>4 DEF DestructorInv, DestructorRuns,
       DestructorAlone, DestructorJoins, DestructorLabels
<1>5. CASE ~destructor(c)
  <2>1. ~m_destructor_called'
    BY <1>2, <1>5 DEF Call, connectTo, doListen, stopListening, sendData,
       sendData_unknown, disconnectPeer, disconnectAll, setListener,
       onCallback, StartThread, NoLife
  <2>2. pc'[c] \notin DestructorLabels
    BY <1>1, <1>3, <1>5, CallersDistinct DEF Call, connectTo, doListen,
       stopListening, sendData, sendData_unknown, disconnectPeer,
       disconnectAll, setListener, onCallback, Go, PcOK, DestructorLabels
  <2>3. \A d \in Callers : pc'[d] \notin DestructorLabels
    BY <1>1, <1>3, <2>2 DEF LockStep, DestructorLabels
  <2> QED
    BY <2>1, <2>3 DEF DestructorInv, DestructorRuns, DestructorAlone,
       DestructorJoins
<1> QED
  BY <1>4, <1>5

\* A step of the destructor: it takes the workers one after the other.
LEMMA DestructorStep ==
  ASSUME InvParts, DestructorInv, NEW c \in Callers, _destructor(c)
  PROVE  DestructorInv'
<1>1. PcOK /\ LockStep(c) /\ m_thread_running \in [Workers -> BOOLEAN]
  BY ContinueLockStep DEF InvParts, TypeOK, LifeOK, Continue
<1> USE DEF DestructorInv
<1>2. pc[c] \in DestructorLabels \ {"destroyed"}
  BY DEF _destructor, destructor_stop, destructor_notify, destructor_join,
     destructor_end, destructor_members, Stopping, Notifying, Joining,
     DestructorLabels
<1>3. pc'[c] \in DestructorLabels
  BY <1>1, CallersDistinct DEF _destructor, destructor_stop, destructor_notify,
     destructor_join, destructor_end, destructor_members, Stopping, Notifying,
     Joining, After, DestructorLabels, Go, GoAndNotify, PcOK
<1>4. \A d \in Callers \ {c} : pc'[d] = "idle"
  BY <1>1, <1>2 DEF LockStep, DestructorAlone
<1>5. DestructorRuns' /\ DestructorAlone'
  BY <1>3, <1>4 DEF DestructorRuns, DestructorAlone, DestructorLabels
<1>6. ASSUME NEW w \in Workers
      PROVE  /\ pc'[c] \in ClearedLabels[w] => ~m_thread_running'[w]
             /\ ~m_thread_running'[w]
                  /\ pc'[c] \notin {Notifying[w], Joining[w]}
                  => pc'[w] \in {"off", "done"}
  <2>1. /\ pc[c] \in ClearedLabels[w] => ~m_thread_running[w]
        /\ ~m_thread_running[w] /\ pc[c] \notin {Notifying[w], Joining[w]} =>
             pc[w] \in {"off", "done"}
    BY <1>2 DEF DestructorJoins
  <2>2. ASSUME NEW v \in Workers, destructor_stop(c, v)
        PROVE  <1>6!2
    BY <1>1, <2>1, <2>2, CallersDistinct DEF destructor_stop, Go, PcOK,
       Stopping, Notifying, Joining, After, ClearedLabels,
       DestructorLabels
  <2>3. ASSUME NEW v \in Workers, destructor_notify(c, v)
        PROVE  <1>6!2
    BY <1>1, <2>1, <2>3, CallersDistinct DEF destructor_notify, GoAndNotify,
       Woken, PcOK, NoLife, Stopping, Notifying, Joining, After, ClearedLabels,
       DestructorLabels
  <2>4. ASSUME NEW v \in Workers, destructor_join(c, v)
        PROVE  <1>6!2
    BY <1>1, <2>1, <2>4, CallersDistinct DEF destructor_join, Go, PcOK,
       NoLife, Stopping, Notifying, Joining, After, ClearedLabels,
       DestructorLabels
  <2>5. CASE destructor_end(c) \/ destructor_members(c)
    BY <1>1, <2>1, <2>5, CallersDistinct DEF destructor_end,
       destructor_members, Go, PcOK, NoLife, Notifying, Joining, ClearedLabels,
       DestructorLabels
  <2> QED
    BY <2>2, <2>3, <2>4, <2>5 DEF _destructor
<1>7. DestructorJoins'
  BY <1>4, <1>6 DEF DestructorJoins, DestructorLabels
<1> QED
  BY <1>5, <1>7

\* Any other step of a call is taken while the destructor does not run.
LEMMA ContinueKeepsDestructor ==
  ASSUME InvParts, DestructorInv, NEW c \in Callers, Continue(c),
         ~_destructor(c)
  PROVE  DestructorInv'
<1>1. PcOK /\ LockStep(c)
  BY ContinueLockStep DEF InvParts, TypeOK
<1>2. pc[c] \notin DestructorLabels \cup {"idle"}
  BY DEF Continue, connectTo_notify, doListen_changing, doListen_notify,
     _startListenThreadIfNotRunning, stopListening_wakeup,
     stopListening_notify, sendData_notify, sendData_error, DestructorLabels
<1>3. pc'[c] \notin DestructorLabels
  BY <1>1, <1>2, CallersDistinct DEF Continue, connectTo_notify,
     doListen_changing, doListen_notify, _startListenThreadIfNotRunning,
     stopListening_wakeup, stopListening_notify, sendData_notify,
     sendData_error, DestructorLabels, Go, GoAndNotify, PcOK
<1>4. \A d \in Callers : pc[d] \notin DestructorLabels
  BY <1>2 DEF DestructorInv, DestructorAlone
<1>5. \A d \in Callers : pc'[d] \notin DestructorLabels
  BY <1>1, <1>3, <1>4 DEF LockStep, DestructorLabels
<1>6. ~m_destructor_called
  BY <1>4 DEF DestructorInv, DestructorRuns
<1>7. UNCHANGED m_destructor_called
  BY DEF Continue, connectTo_notify, doListen_changing, doListen_notify,
     _startListenThreadIfNotRunning, stopListening_wakeup,
     stopListening_notify, sendData_notify, sendData_error, NoLife
<1> QED
  BY <1>5, <1>6, <1>7 DEF DestructorInv, DestructorRuns, DestructorAlone,
     DestructorJoins

-----------------------------------------------------------------------------
(***************************************************************************)
(* Every step preserves the invariant: one lemma for each kind of step.    *)
(***************************************************************************)
\* A step of the connect thread.
LEMMA ConnectInv ==
  ASSUME InvParts, _connectThreadJob
  PROVE  InvParts'
<1> USE DEF InvParts, TypeOK
<1>1. TypeOK'
  BY ConnectTypeOK
<1>2. LockStep("connect")
  BY ConnectLockStep
<1>3. DataProtects' /\ CbProtects'
  BY <1>2, LockStepProtects, CbKept, ConnectFrame
<1>4. FlagsHonest' /\ StarterMarked' /\ StartsCounted' /\ DestructorInv'
  BY ConnectWakes, WorkerRuns, WorkerKeepsLife, ConnectFrame DEF connectUnchanged
<1>5. FrontExists'
  <2>1. pc'["connect"] \in {"front", "connect", "connected", "pop"} =>
          m_potential_peers' # <<>>
    BY DEF FrontExists, PcOK, QueuesOK, _connectThreadJob, ConnectWhile,
       ConnectSize, _pauseUntilQueueNotEmpty, ConnectFront, ConnectRetry,
       ConnectFailed, ConnectSucceeded, ConnectCallback, ConnectPop, Go,
       PauseTest, PauseBlock, AfterPass, GoAndNotify, Woken
  <2> QED
    BY <1>2, <2>1, FrontKept, ConnectFrame DEF FrontExists, connectUnchanged
<1>6. TableInv'
  BY WorkerRuns, WorkerLives, NewPeerTable, TableUnchanged, ConnectFrame
     DEF ConnectSucceeded
<1>7. m_peers \subseteq m_peers'
  BY ConnectFrame DEF ConnectSucceeded, NewPeer
<1>8. SendIterator' /\ ListenIterators'
  BY <1>2, <1>7, SendIteratorKept, ListenIteratorsKept, ConnectFrame
     DEF connectUnchanged, curr_out_buffer
<1> HIDE DEF TypeOK
<1> QED
  BY <1>1, <1>3, <1>4, <1>5, <1>6, <1>8

\* A step of the send thread.
LEMMA SendInv ==
  ASSUME InvParts, _sendThreadJob
  PROVE  InvParts'
<1> USE DEF InvParts, TypeOK
<1>1. TypeOK'
  BY SendTypeOK
<1>2. LockStep("send")
  BY SendLockStep
<1>3. DataProtects' /\ CbProtects'
  BY <1>2, LockStepProtects, CbKept, SendFrame
<1>4. FlagsHonest' /\ StarterMarked' /\ StartsCounted' /\ DestructorInv'
  BY SendWakes, WorkerRuns, WorkerKeepsLife, SendFrame DEF sendUnchanged
<1>5. FrontExists'
  <2>1. pc'["send"] \in {"sent", "onSend", "nopeer", "onSendError"} =>
          m_data_to_send' # <<>>
    BY DEF FrontExists, PcOK, QueuesOK, _sendThreadJob, SendWhile, SendPause,
       _pauseUntilDataToSendAvailable, SendNothing, SendNoPeer, SendDropped,
       SendBytes, SendFailed, SendSentCallback, SendErrorCallback,
       SendCallback, SendLocked, Sendable, PauseTest, PauseBlock,
       PopAndUnlock, Go
  <2> QED
    BY <1>2, <2>1, FrontKept, SendFrame DEF FrontExists, sendUnchanged
<1>b. Living
  BY WorkerRuns, WorkerLives
<1>6. TableInv'
  <2>1. CASE SendFailed
    <3>1. curr_out_buffer.peer \in Ids
      BY <2>1 DEF SendFailed, Sendable, PeersOK
    <3> QED
      BY <1>b, <2>1, <3>1, ScheduleTable, TableUnchanged DEF SendFailed
  <2> QED
    BY <1>b, <2>1, TableUnchanged, SendFrame
<1>7. m_peers' = m_peers
  BY SendFrame DEF SendFailed, scheduleDelete
<1>8. SendIterator'
  BY <1>7 DEF SendIterator, PcOK, _sendThreadJob, SendWhile, SendPause,
     _pauseUntilDataToSendAvailable, SendNothing, SendNoPeer, SendDropped,
     SendBytes, SendFailed, SendSentCallback, SendErrorCallback,
     SendCallback, SendLocked, Sendable, PauseTest, PauseBlock,
     PopAndUnlock, Go, curr_out_buffer
<1>9. ListenIterators'
  BY <1>2, <1>7, ListenIteratorsKept, SendFrame DEF sendUnchanged
<1> HIDE DEF TypeOK
<1> QED
  BY <1>1, <1>3, <1>4, <1>5, <1>6, <1>8, <1>9

\* A step of the listen thread.
LEMMA ListenInv ==
  ASSUME InvParts, _listenThreadJob
  PROVE  InvParts'
<1> USE DEF InvParts, TypeOK
<1>1. TypeOK'
  BY ListenTypeOK
<1>2. LockStep("listen")
  BY ListenLockStep
<1>3. DataProtects'
  BY <1>2, LockStepProtects
<1>4. FlagsHonest' /\ StarterMarked' /\ StartsCounted' /\ DestructorInv'
  BY ListenWakes, WorkerRuns, WorkerKeepsLife, ListenFrame DEF listenUnchanged
<1>5. FrontExists'
  BY <1>2, FrontKept, ListenFrame DEF FrontExists, listenUnchanged
<1>b. Living
  BY WorkerRuns, WorkerLives
<1>6. TableInv'
  <2>1. CASE ListenAccepted
    BY <1>b, <2>1, NewPeerTable DEF ListenAccepted
  <2>2. CASE ListenReceiveFailed
    <3>1. todo \subseteq m_peers
      BY <2>2 DEF ListenReceiveFailed, ListenIterators
    <3> QED
      BY <1>b, <2>2, <3>1, CloseTable, ScheduleTable
         DEF ListenReceiveFailed, PeersOK
  <2>3. CASE ListenDelete
    BY <1>b, <2>3, EraseTable DEF ListenDelete
  <2> QED
    BY <1>b, <2>1, <2>2, <2>3, TableUnchanged, ListenFrame
<1>7. ListenDelete \/ m_peers \subseteq m_peers'
  BY ListenFrame DEF ListenAccepted, NewPeer, ListenReceiveFailed,
     scheduleDelete
<1>8. SendIterator'
  <2>1. CASE ListenDelete
    <3>1. pc["send"] \notin {"sent", "onSend"}
      BY <2>1, DataLabelsOf
         DEF ListenDelete, ListenReceiveDone, DataProtects
    <3> QED
      BY <1>2, <3>1 DEF SendIterator, LockStep
  <2> QED
    BY <1>2, <1>7, <2>1, SendIteratorKept, ListenFrame
       DEF listenUnchanged, curr_out_buffer
<1>9. ListenIterators'
  <2>1. CASE ListenAccepted
    BY <2>1 DEF ListenAccepted, ListenIterators, PcOK, Go, NewPeer
  <2>2. CASE ListenReceived
    BY <2>2 DEF ListenReceived, ListenIterators, PcOK, Go, OnlyPc
  <2>3. CASE ListenNothingReceived \/ ListenReceiveFailed
    BY <2>3 DEF ListenNothingReceived, ListenReceiveFailed, ListenIterators,
       PcOK, scheduleDelete
  <2>4. CASE ListenDelete
    BY <2>4 DEF ListenDelete, ListenIterators, PcOK, Go
  <2>5. CASE ListenNoAccept \/ ListenAcceptedCallback
             \/ ListenAcceptFailedCallback
    BY <2>5 DEF ListenNoAccept, ListenAcceptedCallback,
       ListenAcceptFailedCallback, ListenAcceptCallback, StartReceiving,
       ListenCallbackFound, ListenCallbackDone, ListenIterators, PcOK, Go,
       OnlyPc
  <2>6. CASE ListenWhile \/ ListenFlags \/ ListenFlags2 \/ ListenClear
             \/ _pauseUntilPeersOrListenerAvailable \/ ListenDestructor
             \/ ListenAcceptFailed \/ ListenNoDelete
    BY <2>6 DEF ListenWhile, ListenFlags, ListenFlags2, ListenClear,
       _pauseUntilPeersOrListenerAvailable, ListenDestructor,
       ListenAcceptFailed, ListenNoDelete, PauseTest, PauseBlock,
       ListenIterators, PcOK, Go
  <2>7. CASE ListenOpened \/ ListenOpenFailed \/ ListenOpenedCallback
             \/ ListenOpenFailedCallback \/ ListenClose
             \/ ListenClosedCallback \/ ListenDeletedCallback
    BY <2>7 DEF ListenOpened, ListenOpenFailed, ListenOpenedCallback,
       ListenOpenFailedCallback, ListenClose, ListenClosedCallback,
       ListenDeletedCallback, ListenCallbackFound, ListenIterators, PcOK, Go
  <2> QED
    BY <2>1, <2>2, <2>3, <2>4, <2>5, <2>6, <2>7 DEF _listenThreadJob
<1>10. CbProtects'
  <2>1. CASE ListenClosedCallback
    BY <2>1 DEF ListenClosedCallback, CbProtects, CbFree, KeepCb, PcOK, Go
  <2>2. CASE ~ListenClosedCallback
    <3>1. UNCHANGED m_callback_access
      BY <2>2 DEF _listenThreadJob, ListenWhile, ListenFlags,
         ListenFlags2, ListenOpened, ListenOpenFailed, ListenOpenedCallback,
         ListenOpenFailedCallback, ListenClose, ListenClear,
         _pauseUntilPeersOrListenerAvailable, ListenDestructor,
         ListenNoAccept, ListenAccepted, ListenAcceptFailed,
         ListenAcceptedCallback, ListenAcceptFailedCallback, ListenReceived,
         ListenNothingReceived, ListenReceiveFailed, ListenNoDelete,
         ListenDelete, ListenDeletedCallback, ListenCallbackFound,
         PauseTest, PauseBlock, ListenAcceptCallback, KeepCb, KeepLocks, locks
    <3>2. pc["listen"] # "onStoppedListening"
      BY <2>2 DEF _listenThreadJob, ListenWhile, ListenFlags,
         ListenFlags2, ListenOpened, ListenOpenFailed, ListenOpenedCallback,
         ListenOpenFailedCallback, ListenClose, ListenClear,
         _pauseUntilPeersOrListenerAvailable, ListenDestructor,
         ListenNoAccept, ListenAccepted, ListenAcceptFailed,
         ListenAcceptedCallback, ListenAcceptFailedCallback, ListenReceived,
         ListenNothingReceived, ListenReceiveFailed, ListenNoDelete,
         ListenDelete, ListenDeletedCallback, ListenCallbackFound,
         ListenCallbackDone, PauseTest, PauseBlock, ListenAcceptCallback,
         ListenReceiveDone
    <3>3. pc'["listen"] # "onStoppedListening"
      BY <2>2, <3>2 DEF PcOK, _listenThreadJob, ListenWhile, ListenFlags,
         ListenFlags2, ListenOpened, ListenOpenFailed, ListenOpenedCallback,
         ListenOpenFailedCallback, ListenClose, ListenClear,
         _pauseUntilPeersOrListenerAvailable, ListenDestructor,
         ListenNoAccept, ListenAccepted, ListenAcceptFailed,
         ListenAcceptedCallback, ListenAcceptFailedCallback, ListenReceived,
         ListenNothingReceived, ListenReceiveFailed, ListenNoDelete,
         ListenDelete, ListenDeletedCallback, ListenCallbackFound,
         PauseTest, PauseBlock, ListenAcceptCallback, StartReceiving, Go
    <3> QED
      BY <3>1, <3>2, <3>3 DEF CbProtects
  <2> QED
    BY <2>1, <2>2
<1> HIDE DEF TypeOK
<1> QED
  BY <1>1, <1>3, <1>4, <1>5, <1>6, <1>8, <1>9, <1>10

\* The first step of a call.
LEMMA CallInv ==
  ASSUME InvParts, NEW c \in Callers, Call(c)
  PROVE  InvParts'
<1> USE DEF InvParts, TypeOK
<1>1. TypeOK'
  BY CallTypeOK
<1>2. LockStep(c)
  BY CallLockStep
<1>a. c \in Threads /\ c \notin Workers
  BY CallersDistinct DEF Threads
<1>3. DataProtects' /\ CbProtects'
  BY <1>2, <1>a, LockStepProtects, CbKept, CallFrame DEF Workers
<1>b. Living' => Living
  <2>1. pc[c] = "idle"
    BY CallFrame DEF Calls
  <2> QED
    BY <1>2, <1>a, <2>1, LivingKept
<1>4. FlagsHonest' /\ StarterMarked' /\ StartsCounted'
  <2> USE <1>a DEF FlagsHonest, StarterMarked, StartsCounted, PcOK, LifeOK,
                   Workers
  <2>1. CASE connectTo(c)
    BY <2>1 DEF connectTo, Calls, StartThread, Started, DestructorLabels
  <2>2. CASE \E id \in Ids : \E len \in Lengths : sendData(c, id, len)
    BY <2>2 DEF sendData, Calls, StartThread, Started, DestructorLabels
  <2>3. CASE destructor(c)
    BY <2>3 DEF destructor, Go
  <2>4. CASE \/ \E port \in Ports : doListen(c, port)
             \/ stopListening(c)
             \/ \E id \in 0 .. m_connection_counter : sendData_unknown(c, id)
    BY <2>4 DEF doListen, stopListening, sendData_unknown, Go, NoLife,
       DestructorLabels
  <2>5. CASE \/ \E id \in Ids : disconnectPeer(c, id)
             \/ disconnectAll(c)
             \/ setListener(c)
             \/ \E callback \in CallbackNames : onCallback(c, callback)
    BY <2>5 DEF disconnectPeer, disconnectAll, setListener, onCallback, NoLife
  <2> QED
    BY <2>1, <2>2, <2>3, <2>4, <2>5 DEF Call
<1>c. DestructorInv'
  BY CallKeepsDestructor
<1>5. FrontExists'
  <2>1. /\ connectTo(c) \/ UNCHANGED m_potential_peers
        /\ \/ \E id \in Ids : \E len \in Lengths : sendData(c, id, len)
           \/ UNCHANGED m_data_to_send
    BY DEF Call, connectTo, doListen, stopListening, sendData,
       sendData_unknown, disconnectPeer, disconnectAll, setListener,
       onCallback, destructor, NoQueues
  <2>2. /\ m_potential_peers' # <<>> \/ UNCHANGED m_potential_peers
        /\ m_data_to_send' # <<>> \/ UNCHANGED m_data_to_send
    BY <2>1, AppendNotEmpty DEF QueuesOK, connectTo, sendData
  <2> QED
    BY <1>2, <1>a, <2>2, FrontKept DEF FrontExists, Workers
<1>6. TableInv'
  <2>1. CASE \E id \in Ids : disconnectPeer(c, id)
    BY <1>b, <2>1, ScheduleTable DEF disconnectPeer
  <2>2. CASE disconnectAll(c)
    BY <1>b, <2>2, ScheduleTable DEF disconnectAll, PeersOK
  <2> QED
    BY <1>b, <2>1, <2>2, TableUnchanged, CallFrame
<1>7. m_peers' = m_peers
  BY CallFrame DEF disconnectPeer, disconnectAll, scheduleDelete
<1>8. SendIterator'
  <2>1. UNCHANGED m_data_to_send \/ DataFree
    BY DEF Call, connectTo, doListen, stopListening, sendData,
       sendData_unknown, disconnectPeer, disconnectAll, setListener,
       onCallback, destructor, NoQueues
  <2>2. curr_out_buffer' = curr_out_buffer \/ pc["send"] \notin {"sent", "onSend"}
    BY <2>1, DataLabelsOf DEF curr_out_buffer, DataProtects, DataFree, Threads, Workers
  <2> QED
    BY <1>2, <1>7, <1>a, <2>2, SendIteratorKept DEF Workers
<1>9. ListenIterators'
  BY <1>2, <1>7, <1>a, ListenIteratorsKept, CallFrame DEF apiUnchanged, Workers
<1> HIDE DEF TypeOK
<1> QED
  BY <1>1, <1>3, <1>4, <1>5, <1>6, <1>8, <1>9, <1>c

\* A later step of a call.
LEMMA ContinueInv ==
  ASSUME InvParts, NEW c \in Callers, Continue(c)
  PROVE  InvParts'
<1> USE DEF InvParts, TypeOK
<1>1. TypeOK'
  BY ContinueTypeOK
<1>2. LockStep(c)
  BY ContinueLockStep
<1>a. c \in Threads /\ c \notin Workers
  BY CallersDistinct DEF Threads
<1>3. DataProtects' /\ CbProtects'
  BY <1>2, <1>a, LockStepProtects, CbKept, ContinueFrame DEF Workers
<1>b. Living' => Living
  <2>1. pc[c] \in {"~members", "destroyed"} => pc'[c] \in {"~members", "destroyed"}
    BY <1>a DEF Continue, connectTo_notify, doListen_changing, doListen_notify,
       _startListenThreadIfNotRunning, stopListening_wakeup,
       stopListening_notify, sendData_notify, sendData_error, _destructor,
       destructor_stop, destructor_notify, destructor_join, destructor_end,
       destructor_members, Stopping, Notifying, Joining, PcOK, Go
  <2> QED
    BY <1>2, <1>a, <2>1, LivingKept
<1>c. DestructorInv'
  BY DestructorStep, ContinueKeepsDestructor
<1>4. FlagsHonest' /\ StarterMarked' /\ StartsCounted'
  <2>1. CASE _destructor(c)
    <3>1. pc[c] \in DestructorLabels
      BY <2>1 DEF _destructor, destructor_stop, destructor_notify,
         destructor_join, destructor_end, destructor_members, Stopping,
         Notifying, Joining, DestructorLabels, Workers
    <3>2. m_destructor_called /\ m_destructor_called'
      BY <2>1, <3>1 DEF FlagsHonest, _destructor, destructor_stop,
         destructor_notify, destructor_join, destructor_end,
         destructor_members, NoLife, lifeVars
    <3>3. UNCHANGED starts /\ \A w \in Workers : pc'[w] = "off" <=> pc[w] = "off"
      BY <2>1, <1>a DEF _destructor, destructor_stop, destructor_notify,
         destructor_join, destructor_end, destructor_members, NoLife, lifeVars,
         Go, GoAndNotify, Woken, PcOK, Workers
    <3> QED
      BY <3>2, <3>3 DEF FlagsHonest, StarterMarked, StartsCounted
  <2>2. CASE _startListenThreadIfNotRunning(c)
    BY <2>2, <1>a DEF _startListenThreadIfNotRunning, FlagsHonest, PcOK,
       StarterMarked, StartsCounted, DestructorLabels, NoLife, LifeOK, Workers,
       Go
  <2>3. CASE ~_destructor(c) /\ ~_startListenThreadIfNotRunning(c)
    BY <2>3, <1>a DEF Continue, connectTo_notify, doListen_changing,
       doListen_notify, stopListening_wakeup, stopListening_notify,
       sendData_notify, sendData_error, FlagsHonest, StarterMarked,
       StartsCounted, PcOK, DestructorLabels, NoLife, LifeOK, Workers, Go,
       GoAndNotify, Woken
  <2> QED
    BY <2>1, <2>2, <2>3
<1>5. FrontExists'
  BY <1>2, <1>a, FrontKept, ContinueFrame DEF FrontExists, Workers
<1>6. TableInv'
  <2>1. CASE destructor_end(c)
    BY <1>b, <2>1, ScheduleTable DEF destructor_end, PeersOK
  <2>2. CASE destructor_members(c)
    <3>1. ~Living'
      BY <1>a, <2>2 DEF destructor_members, Go, PcOK, Living
    <3> QED
      BY <1>b, <2>2, <3>1, TableUnchanged DEF destructor_members, erase,
         TableInv, PeersOwnSockets, SocketsMatchCounter, ClosedSocketsScheduled
  <2> QED
    BY <1>b, <2>1, <2>2, TableUnchanged, ContinueFrame
<1>7. \/ m_peers' = m_peers
      \/ \A w \in Workers : pc[w] \in {"off", "done"}
  <2>1. CASE destructor_members(c)
    BY <2>1 DEF destructor_members, DestructorInv, DestructorJoins,
       DestructorLabels, ClearedLabels, Notifying, Joining
  <2> QED
    BY <2>1, ContinueFrame DEF destructor_end, scheduleDelete
<1>8. SendIterator' /\ ListenIterators'
  <2>1. CASE m_peers' = m_peers
    BY <1>2, <1>a, <2>1, SendIteratorKept, ListenIteratorsKept, ContinueFrame
       DEF apiUnchanged, Workers, curr_out_buffer
  <2>2. CASE \A w \in Workers : pc[w] \in {"off", "done"}
    <3>1. \A w \in Workers : pc'[w] \in {"off", "done", "while", "pause"}
      BY <1>2, <1>a, <2>2 DEF LockStep
    <3> QED
      BY <3>1 DEF SendIterator, ListenIterators
  <2> QED
    BY <1>7, <2>1, <2>2
<1> HIDE DEF TypeOK
<1> QED
  BY <1>1, <1>3, <1>4, <1>5, <1>6, <1>8, <1>c

\* A spurious wakeup.
LEMMA SpuriousInv ==
  ASSUME InvParts, NEW w \in Workers, SpuriousWakeup(w)
  PROVE  InvParts'
<1> USE DEF InvParts, TypeOK
<1>1. TypeOK'
  BY SpuriousWakeupTypeOK
<1>2. DataProtects'
  BY SpuriousLockStep, LockStepProtects
<1>3. FlagsHonest' /\ StarterMarked' /\ StartsCounted' /\ DestructorInv'
  <2>1. /\ OnlyWakes(w) /\ pc[w] = "waiting" /\ pc'[w] = "pause"
        /\ UNCHANGED lifeVars
    BY DEF SpuriousWakeup, Go, PcOK, OnlyWakes
  <2> QED
    BY <2>1, WorkerKeepsLife
<1>4. CbProtects' /\ FrontExists' /\ SendIterator' /\ ListenIterators'
  BY DEF SpuriousWakeup, Go, PcOK, CbProtects, FrontExists, SendIterator,
     ListenIterators, curr_out_buffer
<1>5. TableInv'
  BY TableUnchanged, WorkerLives DEF SpuriousWakeup
<1> HIDE DEF TypeOK
<1> QED
  BY <1>1, <1>2, <1>3, <1>4, <1>5

\* A step of something else.
LEMMA StutterInv ==
  ASSUME InvParts, UNCHANGED vars
  PROVE  InvParts'
<1> USE DEF InvParts, vars
<1>1. TypeOK'
  BY DEF TypeOK, PcOK, LifeOK, PeersOK, ListenerOK, QueuesOK, Buffers,
     LocalsOK, ApplicationOK
<1>2. /\ DataProtects' /\ CbProtects' /\ FlagsHonest' /\ StarterMarked'
      /\ StartsCounted' /\ DestructorInv'
  BY DEF DataProtects, CbProtects, FlagsHonest, StarterMarked, StartsCounted,
     DestructorInv, DestructorRuns, DestructorAlone, DestructorJoins
<1>3. FrontExists' /\ TableInv' /\ SendIterator' /\ ListenIterators'
  BY TableUnchanged DEF FrontExists, SendIterator, ListenIterators,
     curr_out_buffer, Living
<1> QED
  BY <1>1, <1>2, <1>3

\* The invariant is inductive.
LEMMA NextInv == Inv /\ [Next]_vars => Inv'
<1> SUFFICES ASSUME InvParts, [Next]_vars PROVE InvParts'
  BY InvIsItsParts
<1> QED
  BY ConnectInv, SendInv, ListenInv, CallInv, ContinueInv, SpuriousInv,
     StutterInv DEF Next

-----------------------------------------------------------------------------
(***************************************************************************)
(* The theorems.                                                           *)
(***************************************************************************)
\* In every behaviour of the node, for any number of application threads,
\* connections, buffers and calls, the inductive invariant holds.
THEOREM InvAlways == Spec => []Inv
  BY InitInv, NextInv, PTL DEF Spec

\* Type correctness: the members and locals of TcpNodePrivate stay in their
\* types, every id and queue index in range, every thread in its own code.
THEOREM TypeCorrect == Spec => []TypeOK
<1>1. Inv => TypeOK
  BY DEF Inv
<1> QED
  BY <1>1, InvAlways, PTL

\* m_data_access is owned by exactly the thread that is in a section it
\* protects, whichever path the threads take through their locks, unlocks,
\* pauses and callbacks.
THEOREM LocksAlwaysProtect == Spec => []LocksProtect
<1>1. Inv => LocksProtect
  BY DEF Inv
<1> QED
  BY <1>1, InvAlways, PTL

\* As long as the node lives, the sockets that exist are those of the peers in
\* m_peers: _listenThreadJob() leaks none when it deletes a peer, and no thread
\* uses a deleted one.
THEOREM SocketsAlwaysOwned == Spec => []PeersOwnSockets
<1>1. Inv => PeersOwnSockets
  BY DEF Inv
<1> QED
  BY <1>1, InvAlways, PTL

\* A socket that receive() closed belongs to a peer scheduled for deletion.
THEOREM ClosedAlwaysScheduled == Spec => []ClosedSocketsScheduled
<1>1. Inv => ClosedSocketsScheduled
  BY DEF Inv
<1> QED
  BY <1>1, InvAlways, PTL

\* The iterators into m_peers of the send and the listen thread are never
\* invalidated while they wait for m_callback_access or run a callback.
THEOREM IteratorsAlwaysValid == Spec => []IteratorsValid
<1>1. Inv => IteratorsValid
  BY DEF Inv
<1> QED
  BY <1>1, InvAlways, PTL

\* front(), begin() and pop_front() are never called on an empty queue.
THEOREM FrontAlwaysExists == Spec => []FrontExists
<1>1. Inv => FrontExists
  BY DEF Inv
<1> QED
  BY <1>1, InvAlways, PTL

\* Any number of application threads may race in connectTo() and sendData():
\* the connect thread and the send thread are created once.
THEOREM AlwaysStartedOnce == Spec => []StartedOnce
<1>1. Inv => StartedOnce
  BY DEF Inv, StartsCounted, StartedOnce
<1> QED
  BY <1>1, InvAlways, PTL

=============================================================================
