------------------------------- MODULE NodeApi --------------------------------
(***************************************************************************)
(* The functions of TcpNodePrivate that the application calls, and its     *)
(* destructor.  TcpNode forwards every call to them unchanged.             *)
(***************************************************************************)
EXTENDS NodeState

\* The application starts the call f on thread c, within the bound on calls
Calls(c, f) ==
  /\ pc[c] = "idle"
  /\ ~m_destructor_called
  /\ calls[f] < MaxCalls[f]
  /\ calls' = [calls EXCEPT ![f] = @ + 1]

apiUnchanged == UNCHANGED <<connectLocals, listenLocals>>

\* What most calls leave alone
NoFlags == UNCHANGED <<listenerVars, flagVars>>
NoQueues == UNCHANGED <<m_potential_peers, dialled, sendVars>>
NoLife == UNCHANGED <<lifeVars, terminated>>

\* Steps that only move threads
OnlyMoves ==
  /\ KeepLocks /\ UNCHANGED <<peerVars, callerVars>>
  /\ NoFlags /\ NoQueues /\ NoLife /\ apiUnchanged

\* mutant: the flag that says the thread is running is not set
StartThread_unmarked(w) ==
  /\ starts' = [starts EXCEPT ![w] = @ + 1]
  /\ UNCHANGED <<m_thread_running, m_destructor_called, terminated>>

\* A worker that is not running is created: its thread starts at its loop
StartThread(w) ==
  /\ m_thread_running' = [m_thread_running EXCEPT ![w] = TRUE]
  /\ starts' = [starts EXCEPT ![w] = IF m_thread_running[w] THEN @ ELSE @ + 1]
  /\ UNCHANGED <<m_destructor_called, terminated>>

Started(w) == IF m_thread_running[w] THEN pc[w] ELSE "while"

(***************************************************************************)
(* connectTo(): starts the connect thread on first use, queues the request *)
(* (its number is its position in dialled), then notifies and starts the   *)
(* listen thread outside the lock.                                         *)
(***************************************************************************)
connectTo(c) ==
  /\ Calls(c, "connectTo")
  /\ DataFree
  /\ StartThread("connect")
  /\ dialled' = Append(dialled, 0)
  /\ m_potential_peers' = Append(m_potential_peers, Len(dialled'))
  /\ pc' = [pc EXCEPT !["connect"] = Started("connect"), ![c] = "connectTo"]
  /\ KeepLocks
  /\ UNCHANGED <<peerVars, sendVars, m_callbacks>>
  /\ NoFlags /\ apiUnchanged

\* mutant: the connect thread is not notified
connectTo_without_notify(c) ==
  /\ pc[c] = "connectTo"
  /\ Go(c, "start")
  /\ OnlyMoves

connectTo_notify(c) ==
  /\ pc[c] = "connectTo"
  /\ GoAndNotify(c, "start", "connect")
  /\ OnlyMoves

\* doListen(): the flags are atomics that the listen thread reads unlocked, so
\* it can see m_listening_enabled before m_changing_listener
doListen(c, port) ==
  /\ Calls(c, "doListen")
  /\ LockData(c)
  /\ m_portnumber' = port
  /\ m_listening_enabled' = TRUE
  /\ KeepCb
  /\ Go(c, "doListen")
  /\ UNCHANGED <<m_wakeup_listen_thread, m_changing_listener>>
  /\ UNCHANGED <<peerVars, listenerVars, m_callbacks>>
  /\ NoQueues /\ NoLife /\ apiUnchanged

\* mutant: doListen() on an open listener does not ask for a change
doListen_without_change(c) ==
  /\ pc[c] = "doListen"
  /\ m_wakeup_listen_thread' = TRUE
  /\ UnlockData /\ KeepCb
  /\ Go(c, "doListen_notify")
  /\ UNCHANGED <<m_portnumber, m_listening_enabled, m_changing_listener>>
  /\ UNCHANGED <<peerVars, listenerVars, callerVars>>
  /\ NoQueues /\ NoLife /\ apiUnchanged

doListen_changing(c) ==
  /\ pc[c] = "doListen"
  /\ m_changing_listener' = (m_changing_listener \/ m_listener_available)
  /\ m_wakeup_listen_thread' = TRUE
  /\ UnlockData /\ KeepCb
  /\ Go(c, "doListen_notify")
  /\ UNCHANGED <<m_portnumber, m_listening_enabled>>
  /\ UNCHANGED <<peerVars, listenerVars, callerVars>>
  /\ NoQueues /\ NoLife /\ apiUnchanged

doListen_notify(c) ==
  /\ pc[c] = "doListen_notify"
  /\ GoAndNotify(c, "start", "listen")
  /\ OnlyMoves

(***************************************************************************)
(* _startListenThreadIfNotRunning(): the flag is tested, then set, then    *)
(* the thread is created, and only the last of these under a lock.         *)
(* Assigning to a std::thread that is already running ends the process.    *)
(***************************************************************************)
_startListenThreadIfNotRunning(c) ==
  \/ /\ pc[c] = "start"
     /\ Go(c, IF m_thread_running["listen"] THEN "idle" ELSE "start_set")
     /\ OnlyMoves
  \/ /\ pc[c] = "start_set"
     /\ m_thread_running' = [m_thread_running EXCEPT !["listen"] = TRUE]
     /\ Go(c, "start_thread")
     /\ KeepLocks
     /\ UNCHANGED <<peerVars, callerVars, m_destructor_called, starts,
                    terminated>>
     /\ NoFlags /\ NoQueues /\ apiUnchanged
  \/ /\ pc[c] = "start_thread"
     /\ DataFree
     /\ IF pc["listen"] = "off"
        THEN /\ pc' = [pc EXCEPT !["listen"] = "while", ![c] = "idle"]
             /\ UNCHANGED terminated
        ELSE UNCHANGED pc /\ terminated' = TRUE
     /\ starts' = [starts EXCEPT !["listen"] = @ + 1]
     /\ KeepLocks
     /\ UNCHANGED <<peerVars, callerVars, m_thread_running,
                    m_destructor_called>>
     /\ NoFlags /\ NoQueues /\ apiUnchanged

\* stopListening(): no lock at all
stopListening(c) ==
  /\ Calls(c, "stopListening")
  /\ m_thread_running["listen"]
  /\ m_listening_enabled' = FALSE
  /\ Go(c, "stopListening")
  /\ KeepLocks
  /\ UNCHANGED <<m_portnumber, m_wakeup_listen_thread, m_changing_listener>>
  /\ UNCHANGED <<peerVars, listenerVars, m_callbacks>>
  /\ NoQueues /\ NoLife /\ apiUnchanged

stopListening_wakeup(c) ==
  /\ pc[c] = "stopListening"
  /\ m_wakeup_listen_thread' = TRUE
  /\ Go(c, "stopListening_notify")
  /\ KeepLocks
  /\ UNCHANGED <<m_portnumber, m_listening_enabled, m_changing_listener>>
  /\ UNCHANGED <<peerVars, listenerVars, callerVars>>
  /\ NoQueues /\ NoLife /\ apiUnchanged

stopListening_notify(c) ==
  /\ pc[c] = "stopListening_notify"
  /\ GoAndNotify(c, "idle", "listen")
  /\ OnlyMoves

(***************************************************************************)
(* sendData(): a buffer for a peer in the table is queued, any other id    *)
(* (0 for an invalid Peer, the id of a connection that has ended) is       *)
(* reported on the spot, with m_data_access and m_callback_access held     *)
(* during onSendError().                                                   *)
(***************************************************************************)
sendData(c, id, len) ==
  /\ Calls(c, "sendData")
  /\ DataFree
  /\ _peerExists(id)
  /\ StartThread("send")
  /\ outcome' = Append(outcome, "queued")
  /\ m_data_to_send' =
       Append(m_data_to_send, [buf |-> Len(outcome'), peer |-> id, len |-> len])
  /\ pc' = [pc EXCEPT !["send"] = Started("send"), ![c] = "sendData"]
  /\ KeepLocks
  /\ UNCHANGED <<peerVars, m_potential_peers, dialled, m_callbacks>>
  /\ NoFlags /\ apiUnchanged

sendData_notify(c) ==
  /\ pc[c] = "sendData"
  /\ GoAndNotify(c, "idle", "send")
  /\ OnlyMoves

sendData_unknown(c, id) ==
  /\ Calls(c, "sendData")
  /\ ~_peerExists(id)
  /\ LockData(c)
  /\ KeepCb
  /\ Go(c, "sendData_error")
  /\ UNCHANGED <<peerVars, m_callbacks>>
  /\ NoFlags /\ NoQueues /\ NoLife /\ apiUnchanged

sendData_error(c) ==
  /\ pc[c] = "sendData_error"
  /\ CbFree
  /\ UnlockData /\ KeepCb
  /\ Go(c, "idle")
  /\ UNCHANGED <<peerVars, callerVars>>
  /\ NoFlags /\ NoQueues /\ NoLife /\ apiUnchanged

disconnectPeer(c, id) ==
  /\ Calls(c, "disconnectPeer")
  /\ DataFree
  /\ _peerExists(id)
  /\ scheduleDelete({id}, "PEER_WAS_DISCONNECTED")
  /\ KeepLocks
  /\ UNCHANGED <<pc, m_socket, m_callbacks>>
  /\ NoFlags /\ NoQueues /\ NoLife /\ apiUnchanged

disconnectAll(c) ==
  /\ Calls(c, "disconnectAll")
  /\ DataFree
  /\ scheduleDelete(m_peers, "PEER_WAS_DISCONNECTED")
  /\ KeepLocks
  /\ UNCHANGED <<pc, m_socket, m_callbacks>>
  /\ NoFlags /\ NoQueues /\ NoLife /\ apiUnchanged

\* setListener(): a new ISocket, which is not listening; nobody is notified
setListener(c) ==
  /\ Calls(c, "setListener")
  /\ DataFree
  /\ m_listener' = 0
  /\ m_changing_listener' = (m_changing_listener \/ m_listening_enabled)
  /\ KeepLocks
  /\ UNCHANGED <<m_listener_available, m_portnumber, m_listening_enabled,
                 m_wakeup_listen_thread>>
  /\ UNCHANGED <<pc, peerVars, m_callbacks>>
  /\ NoQueues /\ NoLife /\ apiUnchanged

\* onAccept(), onConnect(), ...: a function is set, or none
onCallback(c, callback) ==
  /\ CbFree
  /\ \/ /\ Calls(c, "onCallback")
        /\ m_callbacks' = m_callbacks \cup {callback}
     \/ /\ Calls(c, "clearCallback")
        /\ m_callbacks' = m_callbacks \ {callback}
  /\ KeepLocks
  /\ UNCHANGED <<pc, peerVars>>
  /\ NoFlags /\ NoQueues /\ NoLife /\ apiUnchanged

(***************************************************************************)
(* ~TcpNodePrivate(): no other call is in progress.  For the connect, the  *)
(* send and the listen thread in turn: clear its flag, notify it (without  *)
(* the lock) and join it.                                                  *)
(***************************************************************************)
After == [connect |-> "send", send |-> "listen", listen |-> "end"]

destructor(c) ==
  /\ Calls(c, "destructor")
  /\ \A d \in Callers : pc[d] = "idle"
  /\ m_destructor_called' = TRUE
  /\ Go(c, "~connect")
  /\ KeepLocks
  /\ UNCHANGED <<peerVars, m_callbacks, m_thread_running, starts, terminated>>
  /\ NoFlags /\ NoQueues /\ apiUnchanged

\* The program counter while the destructor deals with w, and after it
Stopping == [connect |-> "~connect", send |-> "~send", listen |-> "~listen",
             end |-> "~end"]
Notifying == [connect |-> "~connect_notify", send |-> "~send_notify",
              listen |-> "~listen_notify"]
Joining == [connect |-> "~connect_join", send |-> "~send_join",
            listen |-> "~listen_join"]

destructor_stop(c, w) ==
  /\ pc[c] = Stopping[w]
  /\ IF m_thread_running[w]
     THEN /\ m_thread_running' = [m_thread_running EXCEPT ![w] = FALSE]
          /\ Go(c, Notifying[w])
     ELSE /\ Go(c, Stopping[After[w]])
          /\ UNCHANGED m_thread_running
  /\ KeepLocks
  /\ UNCHANGED <<peerVars, callerVars, m_destructor_called, starts, terminated>>
  /\ NoFlags /\ NoQueues /\ apiUnchanged

destructor_notify(c, w) ==
  /\ pc[c] = Notifying[w]
  /\ GoAndNotify(c, Joining[w], w)
  /\ OnlyMoves

\* mutant: the thread is not joined
destructor_without_join(c, w) ==
  /\ pc[c] = Joining[w]
  /\ Go(c, Stopping[After[w]])
  /\ OnlyMoves

destructor_join(c, w) ==
  /\ pc[c] = Joining[w]
  /\ pc[w] = "done"
  /\ Go(c, Stopping[After[w]])
  /\ OnlyMoves

\* disconnectAll(), which only marks the peers, and the listener is closed
destructor_end(c) ==
  /\ pc[c] = "~end"
  /\ DataFree
  /\ scheduleDelete(m_peers, "PEER_WAS_DISCONNECTED")
  /\ m_listener' = 0
  /\ Go(c, "~members")
  /\ KeepLocks
  /\ UNCHANGED <<m_socket, m_listener_available, flagVars, callerVars>>
  /\ NoQueues /\ NoLife /\ apiUnchanged

\* Then the members go, the entries of m_peers one after the other
destructor_members(c) ==
  /\ pc[c] = "~members"
  /\ \/ (\E id \in m_peers : erase(id)) /\ UNCHANGED pc
     \/ m_peers = {} /\ Go(c, "destroyed") /\ UNCHANGED peerVars
  /\ KeepLocks
  /\ UNCHANGED callerVars
  /\ NoFlags /\ NoQueues /\ NoLife /\ apiUnchanged

(***************************************************************************)
(* A call in progress, and all calls.                                      *)
(***************************************************************************)
_destructor(c) ==
  \/ \E w \in Workers :
       destructor_stop(c, w) \/ destructor_notify(c, w) \/ destructor_join(c, w)
  \/ destructor_end(c)
  \/ destructor_members(c)

Continue(c) ==
  \/ connectTo_notify(c)
  \/ doListen_changing(c)
  \/ doListen_notify(c)
  \/ _startListenThreadIfNotRunning(c)
  \/ stopListening_wakeup(c)
  \/ stopListening_notify(c)
  \/ sendData_notify(c)
  \/ sendData_error(c)
  \/ _destructor(c)

Call(c) ==
  \/ connectTo(c)
  \/ \E port \in Ports : doListen(c, port)
  \/ stopListening(c)
  \/ \E id \in Ids : \E len \in Lengths : sendData(c, id, len)
  \/ \E id \in 0 .. m_connection_counter : sendData_unknown(c, id)
  \/ \E id \in Ids : disconnectPeer(c, id)
  \/ disconnectAll(c)
  \/ setListener(c)
  \/ \E callback \in CallbackNames : onCallback(c, callback)
  \/ destructor(c)

=============================================================================
