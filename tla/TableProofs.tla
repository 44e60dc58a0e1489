----------------------------- MODULE TableProofs ------------------------------
(***************************************************************************)
(* A node implements ConnectionTable, for any number of connections,       *)
(* threads and calls: every step of the node opens, closes or removes      *)
(* connections as the table allows, or does nothing to them.               *)
(***************************************************************************)
EXTENDS TcpNodeProofs

USE DEF Workers, Threads, Ids, locks, peerVars, listenerVars, flagVars,
        lifeVars, connectLocals, connectVars, sendVars, listenLocals,
        callerVars, ListenMoves, SendMoves, OnlyMoves, ListenResults

-----------------------------------------------------------------------------
(***************************************************************************)
(* The table and the iterators into it.                                    *)
(***************************************************************************)
\* The three places at which an iterator into m_peers is alive.
Iterated ==
  \/ pc["listen"] = "receive" /\ todo # {}
  \/ pc["listen"] = "onReceive"
  \/ pc["send"] \in {"sent", "onSend"}

\* The thread that iterates owns m_data_access.
LEMMA IteratedLocked ==
  ASSUME InvParts, Iterated
  PROVE  /\ ~DataFree
         /\ \E w \in Workers : pc[w] \notin {"off", "done"}
         /\ ~ListenAccepted /\ ~ListenDelete
<1>1. ~DataFree
  BY DataLabelsOf DEF InvParts, DataProtects, DataFree, Iterated
<1>2. CASE pc["send"] \in {"sent", "onSend"}
  <2>1. m_data_access = "send"
    BY <1>2, DataLabelsOf DEF InvParts, DataProtects
  <2>2. pc["listen"] # "receive"
    BY <2>1, DataLabelsOf DEF InvParts, DataProtects
  <2> QED
    BY <1>1, <1>2, <2>2
       DEF ListenAccepted, LockData, ListenDelete, ListenReceiveDone
<1>3. CASE pc["send"] \notin {"sent", "onSend"}
  BY <1>1, <1>3
     DEF Iterated, ListenAccepted, ListenDelete, ListenReceiveDone
<1> QED
  BY <1>2, <1>3, <1>1 DEF Iterated

\* m_peers keeps its entries while the receive loop or the send thread is in the
\* middle of it: every other thread that would insert or erase waits for
\* m_data_access, and the destructor for the end of the workers.
THEOREM AlwaysFixedWhileIterated == Spec => TableFixedWhileIterated
<1>1. Inv /\ [Next]_vars => [Iterated => UNCHANGED m_peers]_vars
  <2> SUFFICES ASSUME InvParts, Next, Iterated PROVE UNCHANGED m_peers
    BY InvIsItsParts
  <2>1. /\ ~DataFree /\ ~ListenAccepted /\ ~ListenDelete /\ Living
    BY IteratedLocked, WorkerLives DEF InvParts
  <2>2. CASE _connectThreadJob
    BY <2>1, <2>2, ConnectFrame DEF ConnectSucceeded
  <2>3. CASE _sendThreadJob
    BY <2>3, SendFrame DEF SendFailed, scheduleDelete
  <2>4. CASE _listenThreadJob
    BY <2>1, <2>4, ListenFrame DEF ListenReceiveFailed, scheduleDelete
  <2>5. ASSUME NEW c \in Callers, Call(c) PROVE UNCHANGED m_peers
    BY <2>5, CallFrame DEF disconnectPeer, disconnectAll, scheduleDelete
  <2>6. ASSUME NEW c \in Callers, Continue(c) PROVE UNCHANGED m_peers
    BY <2>1, <2>6, ContinueFrame
       DEF destructor_end, scheduleDelete, destructor_members, Living
  <2>7. ASSUME NEW w \in Workers, SpuriousWakeup(w) PROVE UNCHANGED m_peers
    BY <2>7 DEF SpuriousWakeup
  <2> QED
    BY <2>2, <2>3, <2>4, <2>5, <2>6, <2>7 DEF Next
<1> QED
  BY <1>1, InvAlways, PTL DEF Spec, TableFixedWhileIterated, Iterated

-----------------------------------------------------------------------------
(***************************************************************************)
(* What the refinement needs beside the invariant of the node.             *)
(***************************************************************************)
\* Nothing is scheduled, or in the table, before its id was handed out.
IdsHandedOut ==
  /\ \A id \in m_to_be_deleted : id <= m_connection_counter
  /\ \A id \in m_peers : id <= m_connection_counter

\* A peer that the receive loop still has to visit is not scheduled: it stays
\* so while a callback of an earlier peer runs.
TodoUnscheduled ==
  pc["listen"] \in {"receive", "onReceive"} => todo \cap m_to_be_deleted = {}

\* When the members go, disconnectAll() has scheduled what is in the table.
AllScheduled == ~Living => m_peers \subseteq m_to_be_deleted

\* The abstract state of one connection, and of all.
StateOf(id) ==
  CASE id > m_connection_counter -> "absent"
    [] id <= m_connection_counter /\ id \notin m_peers -> "gone"
    [] id \in m_peers /\ id \in m_to_be_deleted -> m_disconn[id]
    [] OTHER -> "live"

TableState == [id \in Ids |-> StateOf(id)]

\* The four cases are disjoint.
LEMMA StateCases ==
  ASSUME PeersOK, IdsHandedOut, NEW id \in Ids
  PROVE  /\ id > m_connection_counter => StateOf(id) = "absent"
         /\ id <= m_connection_counter /\ id \notin m_peers =>
              StateOf(id) = "gone"
         /\ id \in m_peers \cap m_to_be_deleted => StateOf(id) = m_disconn[id]
         /\ id \in m_peers \ m_to_be_deleted => StateOf(id) = "live"
<1>1. id \in Nat /\ m_connection_counter \in Nat
  BY ConstantsAssumption DEF PeersOK
<1>2. id \in m_peers => id <= m_connection_counter
  BY DEF IdsHandedOut
<1> QED
  BY <1>1, <1>2 DEF StateOf

\* The same after a step.
LEMMA StateCasesNext ==
  ASSUME PeersOK', IdsHandedOut', NEW id \in Ids
  PROVE  /\ id > m_connection_counter' => StateOf(id)' = "absent"
         /\ id <= m_connection_counter' /\ id \notin m_peers' =>
              StateOf(id)' = "gone"
         /\ id \in m_peers' \cap m_to_be_deleted' =>
              StateOf(id)' = m_disconn'[id]
         /\ id \in m_peers' \ m_to_be_deleted' => StateOf(id)' = "live"
<1>1. id \in Nat /\ m_connection_counter' \in Nat
  BY ConstantsAssumption DEF PeersOK
<1>2. id \in m_peers' => id <= m_connection_counter'
  BY DEF IdsHandedOut
<1> QED
  BY <1>1, <1>2 DEF StateOf

\* A step that leaves the table alone is a stutter.
LEMMA SameState ==
  ASSUME UNCHANGED peerVars
  PROVE  UNCHANGED TableState
  BY DEF TableState, StateOf

\* Open of ConnectionTable, in terms of StateOf,
LEMMA OpenStep ==
  ASSUME NEW id \in Ids, StateOf(id) = "absent",
         \A j \in Ids : j < id => StateOf(j) # "absent",
         StateOf(id)' = "live",
         \A j \in Ids \ {id} : StateOf(j)' = StateOf(j)
  PROVE  Table!TableNext
<1>1. TableState' = [TableState EXCEPT ![id] = "live"]
  BY DEF TableState
<1>2. Table!Open(id)
  BY <1>1 DEF Table!Open, TableState, StateOf
<1> QED
  BY <1>2 DEF Table!TableNext

\* and Close,
LEMMA CloseStep ==
  ASSUME NEW ids \in SUBSET Ids, ids # {}, NEW reason \in DisconnectType,
         \A id \in ids :
           \/ StateOf(id) = "live"
           \/ /\ StateOf(id) \in DisconnectType
              /\ reason = "PEER_WAS_DISCONNECTED",
         \A id \in Ids :
           StateOf(id)' = IF id \in ids THEN reason ELSE StateOf(id)
  PROVE  Table!TableNext
<1>1. TableState' = [id \in Ids |-> IF id \in ids THEN reason
                                                  ELSE TableState[id]]
  BY DEF TableState
<1>2. Table!Close(ids, reason)
  BY <1>1 DEF Table!Close, TableState, StateOf
<1> QED
  BY <1>2 DEF Table!TableNext

\* and Remove.
LEMMA RemoveStep ==
  ASSUME NEW id \in Ids, StateOf(id) \in DisconnectType,
         StateOf(id)' = "gone",
         \A j \in Ids \ {id} : StateOf(j)' = StateOf(j)
  PROVE  Table!TableNext
<1>1. TableState' = [TableState EXCEPT ![id] = "gone"]
  BY DEF TableState
<1>2. Table!Remove(id)
  BY <1>1 DEF Table!Remove, TableState, StateOf
<1> QED
  BY <1>2 DEF Table!TableNext

-----------------------------------------------------------------------------
(***************************************************************************)
(* The operations on the table, one by one.                                *)
(***************************************************************************)
\* A new peer opens the next connection.
LEMMA NewPeerOpens ==
  ASSUME PeersOK, PeersOK', IdsHandedOut, NEW id \in Ids, NewPeer(id)
  PROVE  IdsHandedOut' /\ Table!TableNext
<1>1. /\ id = m_connection_counter + 1 /\ m_connection_counter' = id
      /\ m_peers' = m_peers \cup {id}
      /\ UNCHANGED <<m_to_be_deleted, m_disconn>>
  BY DEF NewPeer
<1>2. m_connection_counter \in Nat /\ \A j \in Ids : j \in Nat
  BY ConstantsAssumption DEF PeersOK
<1>3. m_peers \subseteq Ids /\ m_to_be_deleted \subseteq Ids
  BY DEF PeersOK
<1>4. IdsHandedOut'
  BY <1>1, <1>2, <1>3 DEF IdsHandedOut
<1>5. id \notin m_peers /\ id \notin m_to_be_deleted
  BY <1>1, <1>2 DEF IdsHandedOut
<1>6. StateOf(id) = "absent" /\ StateOf(id)' = "live"
  BY <1>1, <1>2, <1>4, <1>5, StateCases, StateCasesNext
<1>7. \A j \in Ids \ {id} : StateOf(j)' = StateOf(j)
  <2> SUFFICES ASSUME NEW j \in Ids \ {id} PROVE StateOf(j)' = StateOf(j)
    OBVIOUS
  <2>1. j > m_connection_counter <=> j > m_connection_counter'
    BY <1>1, <1>2
  <2>2. j <= m_connection_counter <=> j <= m_connection_counter'
    BY <1>1, <1>2
  <2>3. j \in m_peers <=> j \in m_peers'
    BY <1>1
  <2> QED
    BY <1>1, <2>1, <2>2, <2>3 DEF StateOf
<1>8. ASSUME NEW j \in Ids, j < id PROVE StateOf(j) # "absent"
  <2>1. j <= m_connection_counter
    BY <1>1, <1>2, <1>8
  <2>2. StateOf(j) \in {"gone", "live"} \cup DisconnectType
    BY <2>1, StateCases DEF PeersOK
  <2> QED
    BY <2>2 DEF DisconnectType
<1> QED
  BY <1>4, <1>6, <1>7, <1>8, OpenStep

\* Scheduling peers that are not scheduled yet, or any peers when the
\* application asks for it, closes their connections.
LEMMA ScheduleCloses ==
  ASSUME PeersOK, PeersOK', IdsHandedOut,
         NEW ids \in SUBSET m_peers, NEW type \in DisconnectType,
         scheduleDelete(ids, type),
         ids \cap m_to_be_deleted = {} \/ type = "PEER_WAS_DISCONNECTED"
  PROVE  IdsHandedOut' /\ (Table!TableNext \/ UNCHANGED TableState)
<1>1. /\ m_to_be_deleted' = m_to_be_deleted \cup ids
      /\ m_disconn' = [id \in Ids |-> IF id \in ids THEN type
                                                    ELSE m_disconn[id]]
      /\ UNCHANGED <<m_peers, m_connection_counter>>
  BY DEF scheduleDelete
<1>2. IdsHandedOut'
  BY <1>1 DEF IdsHandedOut
<1>3. ids \subseteq Ids
  BY DEF PeersOK
<1>4. \A id \in Ids : StateOf(id)' = IF id \in ids THEN type ELSE StateOf(id)
  <2> SUFFICES ASSUME NEW id \in Ids
               PROVE  StateOf(id)' = IF id \in ids THEN type ELSE StateOf(id)
    OBVIOUS
  <2>1. CASE id \in ids
    BY <1>1, <1>2, <2>1, StateCasesNext
  <2>2. CASE id \notin ids
    BY <1>1, <2>2 DEF StateOf
  <2> QED
    BY <2>1, <2>2
<1>5. CASE ids = {}
  BY <1>2, <1>4, <1>5 DEF TableState
<1>6. CASE ids # {}
  <2>1. ASSUME NEW id \in ids
        PROVE  \/ StateOf(id) = "live"
               \/ /\ StateOf(id) \in DisconnectType
                  /\ type = "PEER_WAS_DISCONNECTED"
    BY <1>3, StateCases DEF PeersOK
  <2> QED
    BY <1>2, <1>3, <1>4, <1>6, <2>1, CloseStep
<1> QED
  BY <1>2, <1>5, <1>6

\* Deleting a peer that is scheduled, and destroying its entry, removes its
\* connection.
LEMMA EraseRemoves ==
  ASSUME PeersOK, PeersOK', IdsHandedOut,
         NEW id \in m_peers \cap m_to_be_deleted,
         destroySocketAndErase(id) \/ erase(id)
  PROVE  IdsHandedOut' /\ Table!TableNext
<1>1. /\ m_peers' = m_peers \ {id}
      /\ UNCHANGED <<m_to_be_deleted, m_disconn, m_connection_counter>>
  BY DEF destroySocketAndErase, erase
<1>2. IdsHandedOut'
  BY <1>1 DEF IdsHandedOut
<1>3. id \in Ids /\ id <= m_connection_counter
  BY DEF PeersOK, IdsHandedOut
<1>4. StateOf(id) \in DisconnectType
  BY <1>3, StateCases DEF PeersOK
<1>5. StateOf(id)' = "gone"
  BY <1>1, <1>2, <1>3, StateCasesNext
<1>6. \A j \in Ids \ {id} : StateOf(j)' = StateOf(j)
  BY <1>1 DEF StateOf
<1> QED
  BY <1>2, <1>3, <1>4, <1>5, <1>6, RemoveStep

-----------------------------------------------------------------------------
(***************************************************************************)
(* Every step of the node is a step of the table.                          *)
(***************************************************************************)
RefInv == IdsHandedOut /\ TodoUnscheduled /\ AllScheduled

Refines == IdsHandedOut' /\ (Table!TableNext \/ UNCHANGED TableState)

\* A step that leaves the table alone.
LEMMA UntouchedRefines ==
  ASSUME IdsHandedOut, UNCHANGED peerVars
  PROVE  Refines
  BY SameState DEF Refines, IdsHandedOut

\* While the receive loop runs, the listen thread owns m_data_access, so that
\* nobody else schedules a peer.
LEMMA TodoKept ==
  ASSUME InvParts, TodoUnscheduled, NEW t \in Threads, t # "listen",
         LockStep(t), UNCHANGED listenLocals,
         DataFree \/ UNCHANGED m_to_be_deleted
  PROVE  TodoUnscheduled'
<1>1. pc'["listen"] = pc["listen"] \/ pc'["listen"] \in {"pause", "while"}
  BY DEF LockStep
<1>2. DataFree => pc["listen"] \notin {"receive", "onReceive"}
  BY DataLabelsOf, CallersDistinct DEF InvParts, DataProtects, DataFree
<1> QED
  BY <1>1, <1>2 DEF TodoUnscheduled

\* A step of the connect thread opens a connection or does nothing.
LEMMA ConnectRefines ==
  ASSUME InvParts, PeersOK', RefInv, _connectThreadJob
  PROVE  Refines /\ TodoUnscheduled'
<1> USE DEF InvParts, TypeOK, RefInv
<1>1. UNCHANGED listenLocals /\ LockStep("connect")
  BY ConnectFrame, ConnectLockStep DEF connectUnchanged
<1>2. UNCHANGED m_to_be_deleted
  BY ConnectFrame DEF ConnectSucceeded, NewPeer
<1>3. Refines
  BY ConnectFrame, NewPeerOpens, UntouchedRefines
     DEF ConnectSucceeded, Refines
<1> QED
  BY <1>1, <1>2, <1>3, TodoKept

\* A step of the send thread closes one that is live, when send() fails.
LEMMA SendRefines ==
  ASSUME InvParts, PeersOK', RefInv, _sendThreadJob
  PROVE  Refines /\ TodoUnscheduled'
<1> USE DEF InvParts, TypeOK, RefInv
<1>1. UNCHANGED listenLocals /\ LockStep("send")
  BY SendFrame, SendLockStep DEF sendUnchanged
<1>2. CASE UNCHANGED peerVars
  BY <1>1, <1>2, TodoKept, UntouchedRefines
<1>3. CASE SendFailed /\ "SendError" \in m_callbacks
  <2>1. /\ DataFree
        /\ curr_out_buffer.peer \in m_peers \ m_to_be_deleted
        /\ scheduleDelete({curr_out_buffer.peer},
                          "PEER_WAS_DISCONNECTED_DUE_TO_ERROR")
    BY <1>3 DEF SendFailed, Sendable, SendLocked
  <2>2. Refines
    BY <2>1, ScheduleCloses DEF Refines, DisconnectType
  <2> QED
    BY <1>1, <2>1, <2>2, TodoKept
<1> QED
  BY <1>2, <1>3, SendFrame DEF SendFailed

\* A step of the listen thread opens a connection that it accepts, closes one
\* that is live, when receive() fails, and removes one that is closed.
LEMMA ListenRefines ==
  ASSUME InvParts, PeersOK', RefInv, _listenThreadJob
  PROVE  Refines /\ TodoUnscheduled'
<1> USE DEF InvParts, TypeOK, RefInv
<1>1. CASE ListenAccepted
  <2>1. Refines
    BY <1>1, NewPeerOpens DEF ListenAccepted, Refines
  <2>2. pc'["listen"] = "accepted"
    BY <1>1 DEF ListenAccepted, Go, PcOK
  <2> QED
    BY <2>1, <2>2 DEF TodoUnscheduled
<1>2. CASE ListenDelete
  <2>1. Refines
    BY <1>2, EraseRemoves DEF ListenDelete, Refines
  <2>2. pc'["listen"] = "deleted"
    BY <1>2 DEF ListenDelete, Go, PcOK
  <2> QED
    BY <2>1, <2>2 DEF TodoUnscheduled
<1>3. CASE ListenReceiveFailed
  <2>1. PICK id \in todo : \E type \in DisconnectType :
               scheduleDelete({id}, type) /\ todo' = todo \ {id}
    BY <1>3, ReceiveErrorsTyped DEF ListenReceiveFailed
  <2>2. id \in m_peers \ m_to_be_deleted /\ pc["listen"] = "receive"
    BY <1>3 DEF ListenReceiveFailed, ListenIterators, TodoUnscheduled
  <2>3. Refines
    BY <2>1, <2>2, ScheduleCloses DEF Refines
  <2>4. TodoUnscheduled'
    BY <2>1, <2>2 DEF TodoUnscheduled, scheduleDelete
  <2> QED
    BY <2>3, <2>4
<1>4. CASE UNCHANGED peerVars
  <2>1. \/ todo' \subseteq todo /\ pc["listen"] \in {"receive", "onReceive"}
        \/ todo' \cap m_to_be_deleted = {}
        \/ pc'["listen"] \notin {"receive", "onReceive"}
    BY DEF _listenThreadJob, ListenWhile, ListenFlags, ListenFlags2,
       ListenOpened, ListenOpenFailed, ListenOpenedCallback,
       ListenOpenFailedCallback, ListenClose, ListenClosedCallback,
       ListenClear, _pauseUntilPeersOrListenerAvailable, ListenDestructor,
       ListenNoAccept, ListenAccepted, ListenAcceptFailed,
       ListenAcceptedCallback, ListenAcceptFailedCallback, ListenReceived,
       ListenNothingReceived, ListenReceiveFailed, ListenNoDelete,
       ListenDelete, ListenDeletedCallback, ListenCallbackFound,
       ListenAcceptCallback, PauseTest, PauseBlock, StartReceiving, OnlyPc, Go,
       PcOK
  <2>2. TodoUnscheduled'
    BY <1>4, <2>1 DEF TodoUnscheduled
  <2> QED
    BY <1>4, <2>2, UntouchedRefines
<1> QED
  BY <1>1, <1>2, <1>3, <1>4, ListenFrame

\* A step of a call closes what the application disconnects.
LEMMA CallerRefines ==
  ASSUME InvParts, PeersOK', RefInv, NEW c \in Callers, Call(c) \/ Continue(c)
  PROVE  Refines /\ TodoUnscheduled'
<1> USE DEF InvParts, TypeOK, RefInv
<1>1. UNCHANGED listenLocals /\ LockStep(c) /\ c # "listen"
  BY CallFrame, ContinueFrame, CallLockStep, ContinueLockStep, CallersDistinct
     DEF apiUnchanged
<1>5. CASE destructor_members(c)
  <2>1. UNCHANGED m_to_be_deleted
    BY <1>5 DEF destructor_members, erase
  <2>2. ~Living
    BY <1>5 DEF destructor_members, Living
  <2>3. CASE UNCHANGED peerVars
    BY <1>1, <2>3, TodoKept, UntouchedRefines
  <2>4. ASSUME NEW id \in m_peers, erase(id) PROVE Refines
    BY <2>2, <2>4, EraseRemoves DEF Refines, AllScheduled
  <2> QED
    BY <1>1, <1>5, <2>1, <2>3, <2>4, TodoKept DEF destructor_members
<1>2. CASE UNCHANGED peerVars
  BY <1>1, <1>2, TodoKept, UntouchedRefines
<1>3. ASSUME NEW id \in Ids, disconnectPeer(c, id)
      PROVE  Refines /\ TodoUnscheduled'
  <2>1. /\ DataFree /\ id \in m_peers
        /\ scheduleDelete({id}, "PEER_WAS_DISCONNECTED")
    BY <1>3 DEF disconnectPeer, _peerExists
  <2> QED
    BY <1>1, <2>1, ScheduleCloses, TodoKept DEF Refines, DisconnectType
<1>4. CASE disconnectAll(c) \/ destructor_end(c)
  <2>1. DataFree /\ scheduleDelete(m_peers, "PEER_WAS_DISCONNECTED")
    BY <1>4 DEF disconnectAll, destructor_end
  <2> QED
    BY <1>1, <2>1, ScheduleCloses, TodoKept DEF Refines, DisconnectType
<1> QED
  BY <1>2, <1>3, <1>4, <1>5, CallFrame, ContinueFrame

\* The destructor schedules all peers before the members go, and after that
\* no thread and no call is left that could enter another.
LEMMA EndRefines ==
  ASSUME InvParts, AllScheduled, [Next]_vars
  PROVE  AllScheduled'
<1> USE DEF InvParts, TypeOK
<1>1. CASE \/ _connectThreadJob \/ _sendThreadJob \/ _listenThreadJob
           \/ \E w \in Workers : SpuriousWakeup(w)
  <2>1. PICK w \in Workers : LockStep(w) /\ pc[w] \notin {"off", "done"}
    BY <1>1, WorkerRuns, ConnectLockStep, SendLockStep, ListenLockStep,
       SpuriousLockStep DEF SpuriousWakeup
  <2>2. Living
    BY <2>1, WorkerLives
  <2>3. Living'
    BY <2>1, <2>2, CallersDistinct DEF Living, LockStep
  <2> QED
    BY <2>3 DEF AllScheduled
<1>2. ASSUME NEW c \in Callers, Call(c) PROVE AllScheduled'
  <2>1. LockStep(c) /\ ~m_destructor_called /\ pc[c] = "idle"
    BY <1>2, CallLockStep, CallFrame DEF Calls
  <2>2. \A d \in Callers : pc[d] \notin {"~members", "destroyed"}
    BY <2>1 DEF FlagsHonest, DestructorLabels
  <2>3. pc'[c] \notin {"~members", "destroyed"}
    BY <1>2, <2>1, CallersDistinct DEF Call, connectTo, doListen,
       stopListening, sendData, sendData_unknown, disconnectPeer,
       disconnectAll, setListener, onCallback, destructor, Go, PcOK
  <2> QED
    BY <2>1, <2>2, <2>3 DEF AllScheduled, Living, LockStep
<1>3. ASSUME NEW c \in Callers, Continue(c) PROVE AllScheduled'
  <2>1. LockStep(c)
    BY <1>3, ContinueLockStep
  <2>2. CASE destructor_end(c)
    BY <2>2 DEF destructor_end, scheduleDelete, AllScheduled
  <2>3. CASE destructor_members(c)
    BY <2>3 DEF destructor_members, erase, AllScheduled, Living
  <2>4. CASE ~destructor_end(c) /\ ~destructor_members(c)
    <3>1. UNCHANGED peerVars
      BY <1>3, <2>4, ContinueFrame
    <3>2. pc'[c] \notin {"~members", "destroyed"}
      BY <1>3, <2>4, CallersDistinct DEF Continue, connectTo_notify,
         doListen_changing, doListen_notify, _startListenThreadIfNotRunning,
         stopListening_wakeup, stopListening_notify, sendData_notify,
         sendData_error, _destructor, destructor_stop, destructor_notify,
         destructor_join, Stopping, Notifying, Joining, After, Go,
         GoAndNotify, PcOK
    <3> QED
      BY <2>1, <3>1, <3>2 DEF AllScheduled, Living, LockStep
  <2> QED
    BY <2>2, <2>3, <2>4
<1>4. CASE UNCHANGED vars
  BY <1>4 DEF vars, AllScheduled, Living
<1> QED
  BY <1>1, <1>2, <1>3, <1>4 DEF Next

\* Every step of the node is one.
LEMMA NextRefines ==
  ASSUME InvParts, InvParts', RefInv, [Next]_vars
  PROVE  RefInv' /\ (Table!TableNext \/ UNCHANGED TableState)
<1>1. PeersOK'
  BY DEF InvParts, TypeOK
<1>2. ASSUME NEW w \in Workers, SpuriousWakeup(w)
      PROVE  Refines /\ TodoUnscheduled'
  BY <1>2, UntouchedRefines
     DEF SpuriousWakeup, Go, InvParts, TypeOK, PcOK, RefInv, TodoUnscheduled
<1>3. ASSUME UNCHANGED vars PROVE Refines /\ TodoUnscheduled'
  BY <1>3, UntouchedRefines DEF vars, RefInv, TodoUnscheduled
<1>4. Refines /\ TodoUnscheduled'
  BY <1>1, <1>2, <1>3, ConnectRefines, SendRefines, ListenRefines,
     CallerRefines DEF Next
<1>5. AllScheduled'
  BY EndRefines DEF RefInv
<1> QED
  BY <1>4, <1>5 DEF Refines, RefInv

\* The node implements ConnectionTable: ids are handed out in order and never
\* reused; a connection ends by way of a reason, which only disconnectPeer()
\* and disconnectAll() override; a connection that is gone never comes back,
\* whichever threads open, close and delete connections at the same time.
THEOREM NodeImplementsTable == Spec => ImplementsTable
<1>1. Init => RefInv /\ Table!TableInit
  <2> SUFFICES ASSUME Init PROVE RefInv /\ Table!TableInit
    OBVIOUS
  <2>1. RefInv
    BY DEF Init, RefInv, IdsHandedOut, TodoUnscheduled, AllScheduled
  <2>2. Table!TableInit
    BY ConstantsAssumption DEF Init, Table!TableInit
  <2> QED
    BY <2>1, <2>2
<1>2. Inv /\ Inv' /\ RefInv /\ [Next]_vars =>
        RefInv' /\ [Table!TableNext]_(TableState)
  BY NextRefines, InvIsItsParts
<1> QED
  BY <1>1, <1>2, InvAlways, PTL
     DEF Spec, ImplementsTable, Table!TableSpec, TableState, StateOf

=============================================================================
