---------------------------- MODULE ListenThread -----------------------------
(***************************************************************************)
(* _listenThreadJob(): opens and closes the listening socket as the        *)
(* application asks, accepts connections, receives from every peer and     *)
(* deletes the peers that are scheduled for deletion, one per iteration.   *)
(***************************************************************************)
EXTENDS NodeState

listenUnchanged ==
  UNCHANGED <<lifeVars, connectVars, sendVars, callerVars>>

\* Steps that only change locks, and steps that only change the listener
OnlyPc ==
  UNCHANGED <<peerVars, listenerVars, flagVars, listenLocals>>
OnlyListener == UNCHANGED <<peerVars, listenLocals>>

\* Steps that only move the thread, and keep its locks
ListenMoves == KeepLocks /\ UNCHANGED terminated /\ OnlyPc /\ listenUnchanged

\* while(m_listen_thread_running)
ListenWhile ==
  /\ pc["listen"] = "while"
  /\ Go("listen", IF m_thread_running["listen"] THEN "flags" ELSE "done")
  /\ ListenMoves

\* The flags are tested without a lock, m_listening_enabled a second time in
\* the else-branch
ListenFlags ==
  /\ pc["listen"] = "flags"
  /\ Go("listen",
        IF (m_listening_enabled /\ ~m_listener_available) \/ m_changing_listener
        THEN "open" ELSE "flags2")
  /\ ListenMoves

ListenFlags2 ==
  /\ pc["listen"] = "flags2"
  /\ Go("listen", IF ~m_listening_enabled /\ m_listener_available
                  THEN "close" ELSE "clear")
  /\ ListenMoves

ListenOpened ==
  /\ pc["listen"] = "open"
  /\ LockData("listen")
  /\ m_listener' \in ListenResults(m_portnumber) \ {0}
  /\ m_listener_available' = TRUE
  /\ Go("listen", "opened")
  /\ KeepCb
  /\ UNCHANGED <<flagVars, terminated>>
  /\ OnlyListener /\ listenUnchanged

ListenOpenFailed ==
  /\ pc["listen"] = "open"
  /\ LockData("listen")
  /\ m_listener' \in ListenResults(m_portnumber) \cap {0}
  /\ Go("listen", "openFailed")
  /\ KeepCb
  /\ UNCHANGED <<m_listener_available, flagVars, terminated>>
  /\ OnlyListener /\ listenUnchanged

\* mutant: the callback is called without a look whether it is set
ListenCallbackFound_untested(at, callback, on) ==
  /\ pc["listen"] = at
  /\ CbFree
  /\ Go("listen", on)
  /\ ListenMoves

\* m_callback_access is taken to look for the callback: when it is set, it is
\* called with m_callback_access released and m_data_access still held
ListenCallbackFound(at, callback, on) ==
  /\ pc["listen"] = at
  /\ CbFree
  /\ callback \in m_callbacks
  /\ Go("listen", on)
  /\ ListenMoves

\* The callback is not set, or has returned
ListenCallbackDone(at, callback, on) ==
  \/ pc["listen"] = at /\ CbFree /\ callback \notin m_callbacks
     /\ UNCHANGED terminated
  \/ pc["listen"] = on /\ CallAndReturn(callback)

ListenOpenedCallback ==
  \/ ListenCallbackFound("opened", "StartedListening", "onStartedListening")
  \/ /\ ListenCallbackDone("opened", "StartedListening", "onStartedListening")
     /\ m_changing_listener' = FALSE
     /\ UnlockData /\ KeepCb
     /\ Go("listen", "clear")
     /\ UNCHANGED <<listenerVars, m_portnumber, m_listening_enabled,
                    m_wakeup_listen_thread>>
     /\ OnlyListener /\ listenUnchanged

ListenOpenFailedCallback ==
  \/ ListenCallbackFound("openFailed", "ListenError", "onListenError")
  \/ /\ ListenCallbackDone("openFailed", "ListenError", "onListenError")
     /\ m_listener_available' = FALSE
     /\ m_listening_enabled' = FALSE
     /\ m_changing_listener' = FALSE
     /\ UnlockData /\ KeepCb
     /\ Go("listen", "clear")
     /\ UNCHANGED <<m_listener, m_portnumber, m_wakeup_listen_thread>>
     /\ OnlyListener /\ listenUnchanged

\* m_listener->close()
ListenClose ==
  /\ pc["listen"] = "close"
  /\ LockData("listen")
  /\ m_listener' = 0
  /\ m_listener_available' = FALSE
  /\ Go("listen", "closed")
  /\ KeepCb
  /\ UNCHANGED <<flagVars, terminated>>
  /\ OnlyListener /\ listenUnchanged

\* onStoppedListening() is the one callback for which m_data_access is the
\* mutex that is released, and m_callback_access the one that stays held
ListenClosedCallback ==
  \/ /\ pc["listen"] = "closed"
     /\ CbFree
     /\ IF "StoppedListening" \in m_callbacks
        THEN m_callback_access' = "listen" /\ Go("listen", "onStoppedListening")
        ELSE KeepCb /\ Go("listen", "clear")
     /\ UnlockData
     /\ UNCHANGED terminated /\ OnlyPc /\ listenUnchanged
  \/ /\ pc["listen"] = "onStoppedListening"
     /\ DataFree
     /\ m_callback_access' = "none"
     /\ KeepData
     /\ Go("listen", "clear")
     /\ UNCHANGED terminated /\ OnlyPc /\ listenUnchanged

\* m_wakeup_listen_thread = false, without a lock
ListenClear ==
  /\ pc["listen"] = "clear"
  /\ m_wakeup_listen_thread' = FALSE
  /\ Go("listen", "pause")
  /\ KeepLocks
  /\ UNCHANGED <<listenerVars, m_portnumber, m_listening_enabled,
                 m_changing_listener, terminated>>
  /\ OnlyListener /\ listenUnchanged

\* mutant: an open listener does not keep the thread awake
_pauseUntilPeersAvailable ==
  /\ \/ PauseTest("listen",
                  \/ m_peers # {}
                  \/ m_destructor_called
                  \/ m_changing_listener
                  \/ m_wakeup_listen_thread,
                  "destructor")
     \/ PauseBlock("listen")
  /\ UNCHANGED terminated /\ OnlyPc /\ listenUnchanged

_pauseUntilPeersOrListenerAvailable ==
  /\ \/ PauseTest("listen",
                  \/ m_peers # {}
                  \/ m_listener_available
                  \/ m_destructor_called
                  \/ m_changing_listener
                  \/ m_wakeup_listen_thread,
                  "destructor")
     \/ PauseBlock("listen")
  /\ UNCHANGED terminated /\ OnlyPc /\ listenUnchanged

\* if(m_destructor_called) break
ListenDestructor ==
  /\ pc["listen"] = "destructor"
  /\ Go("listen", IF m_destructor_called THEN "done" ELSE "accept")
  /\ ListenMoves

CanAccept == m_listener # 0 /\ m_listener_available

\* mutant: the loop does not skip the peers that are scheduled for deletion
StartReceiving_from_all ==
  /\ todo' = m_peers
  /\ Go("listen", "receive")

\* The receive loop visits the peers that are not scheduled for deletion
StartReceiving ==
  /\ todo' = m_peers \ m_to_be_deleted
  /\ Go("listen", "receive")

\* Nobody to accept: there is no listener, or accept() has nothing
ListenNoAccept ==
  /\ pc["listen"] = "accept"
  /\ LockData("listen")
  /\ StartReceiving
  /\ KeepCb
  /\ UNCHANGED <<peerVars, listenerVars, flagVars, current, terminated>>
  /\ listenUnchanged

ListenAccepted ==
  /\ pc["listen"] = "accept"
  /\ CanAccept
  /\ LockData("listen")
  /\ \E id \in Ids : NewPeer(id) /\ current' = id
  /\ Go("listen", "accepted")
  /\ KeepCb
  /\ UNCHANGED <<listenerVars, flagVars, todo, terminated>>
  /\ listenUnchanged

\* accept() gave no socket and the listener reports an errno
ListenAcceptFailed ==
  /\ pc["listen"] = "accept"
  /\ CanAccept
  /\ LockData("listen")
  /\ Go("listen", "acceptFailed")
  /\ KeepCb
  /\ UNCHANGED terminated /\ OnlyPc /\ listenUnchanged

ListenAcceptCallback(at, callback, on) ==
  \/ ListenCallbackFound(at, callback, on)
  \/ /\ ListenCallbackDone(at, callback, on)
     /\ StartReceiving
     /\ KeepLocks
     /\ UNCHANGED <<peerVars, listenerVars, flagVars, current>>
     /\ listenUnchanged

ListenAcceptedCallback ==
  ListenAcceptCallback("accepted", "NewPeerConnected", "onAccept")
ListenAcceptFailedCallback ==
  ListenAcceptCallback("acceptFailed", "ListenError", "onAcceptError")

\* What the receive loop can learn of a peer
ReceivedFrom(id) == ReceiveResults(m_socket[id] = "connected")

\* OK with onReceive() set
ListenReceived ==
  \/ /\ pc["listen"] = "receive"
     /\ CbFree
     /\ \E id \in todo : /\ "OK" \in ReceivedFrom(id)
                         /\ current' = id
                         /\ todo' = todo \ {id}
     /\ "Received" \in m_callbacks
     /\ Go("listen", "onReceive")
     /\ UNCHANGED terminated
     /\ KeepLocks
     /\ UNCHANGED <<peerVars, listenerVars, flagVars>>
     /\ listenUnchanged
  \/ /\ pc["listen"] = "onReceive"
     /\ CallAndReturn("Received")
     /\ Go("listen", "receive")
     /\ KeepLocks
     /\ OnlyPc
     /\ listenUnchanged

\* OK without onReceive(), or ERROR_NOTHING_RECEIVED
ListenNothingReceived ==
  /\ pc["listen"] = "receive"
  /\ CbFree
  /\ \E id \in todo :
       /\ \/ "ERROR_NOTHING_RECEIVED" \in ReceivedFrom(id)
          \/ "OK" \in ReceivedFrom(id) /\ "Received" \notin m_callbacks
       /\ todo' = todo \ {id}
  /\ KeepLocks
  /\ UNCHANGED <<pc, peerVars, listenerVars, flagVars, current, terminated>>
  /\ listenUnchanged

\* mutant: a peer whose socket was closed by ERROR_SYSTEM is not scheduled
ListenReceiveFailed_unscheduled ==
  /\ pc["listen"] = "receive"
  /\ CbFree
  /\ \E id \in todo : \E res \in ReceivedFrom(id) \cap DOMAIN ReceiveErrors :
       IF res = "ERROR_SYSTEM"
       THEN /\ m_socket' = [m_socket EXCEPT ![id] = "closed"]
            /\ todo' = todo \ {id}
            /\ UNCHANGED <<m_peers, m_to_be_deleted, m_disconn,
                           m_connection_counter>>
       ELSE /\ scheduleDelete({id}, ReceiveErrors[res])
            /\ todo' = todo \ {id}
            /\ UNCHANGED m_socket
  /\ KeepLocks
  /\ UNCHANGED <<pc, listenerVars, flagVars, current, terminated>>
  /\ listenUnchanged

\* The other results end the connection; ERROR_SYSTEM has closed the socket
ListenReceiveFailed ==
  /\ pc["listen"] = "receive"
  /\ CbFree
  /\ \E id \in todo : \E res \in ReceivedFrom(id) \cap DOMAIN ReceiveErrors :
       /\ scheduleDelete({id}, ReceiveErrors[res])
       /\ m_socket' = IF res = "ERROR_SYSTEM"
                      THEN [m_socket EXCEPT ![id] = "closed"] ELSE m_socket
       /\ todo' = todo \ {id}
  /\ KeepLocks
  /\ UNCHANGED <<pc, listenerVars, flagVars, current, terminated>>
  /\ listenUnchanged

ListenReceiveDone == pc["listen"] = "receive" /\ todo = {}

\* No peer is scheduled for deletion
ListenNoDelete ==
  /\ ListenReceiveDone
  /\ m_peers \cap m_to_be_deleted = {}
  /\ UnlockData /\ KeepCb
  /\ Go("listen", "while")
  /\ UNCHANGED terminated /\ OnlyPc /\ listenUnchanged

\* The first peer that is: its socket and its entry go (the callback follows)
ListenDelete ==
  /\ ListenReceiveDone
  /\ \E id \in m_peers \cap m_to_be_deleted :
       destroySocketAndErase(id) /\ current' = id
  /\ Go("listen", "deleted")
  /\ KeepLocks
  /\ UNCHANGED <<listenerVars, flagVars, todo, terminated>>
  /\ listenUnchanged

DisconnectCallback ==
  [PEER_DISCONNECTED_THEMSELF |-> "PeerDisconnected",
   PEER_WAS_DISCONNECTED |-> "ClosedConnection",
   PEER_WAS_DISCONNECTED_DUE_TO_ERROR |-> "FaultyConnectionClosed"]

ListenDeletedCallback ==
  LET callback == DisconnectCallback[m_disconn[current]]
  IN  \/ ListenCallbackFound("deleted", callback, "onDisconnect")
      \/ /\ ListenCallbackDone("deleted", callback, "onDisconnect")
         /\ UnlockData /\ KeepCb
         /\ Go("listen", "while")
         /\ OnlyPc
         /\ listenUnchanged

_listenThreadJob ==
  \/ ListenWhile
  \/ ListenFlags
  \/ ListenFlags2
  \/ ListenOpened
  \/ ListenOpenFailed
  \/ ListenOpenedCallback
  \/ ListenOpenFailedCallback
  \/ ListenClose
  \/ ListenClosedCallback
  \/ ListenClear
  \/ _pauseUntilPeersOrListenerAvailable
  \/ ListenDestructor
  \/ ListenNoAccept
  \/ ListenAccepted
  \/ ListenAcceptFailed
  \/ ListenAcceptedCallback
  \/ ListenAcceptFailedCallback
  \/ ListenReceived
  \/ ListenNothingReceived
  \/ ListenReceiveFailed
  \/ ListenNoDelete
  \/ ListenDelete
  \/ ListenDeletedCallback

=============================================================================
