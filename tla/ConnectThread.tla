---------------------------- MODULE ConnectThread ----------------------------
(***************************************************************************)
(* _connectThreadJob(): takes the requests of connectTo() from             *)
(* m_potential_peers, dials them and enters the connections into m_peers.  *)
(***************************************************************************)
EXTENDS NodeState

connectUnchanged ==
  UNCHANGED <<listenerVars, flagVars, lifeVars, sendVars, listenLocals,
              callerVars, terminated>>

\* while(m_connect_thread_running)
ConnectWhile ==
  /\ pc["connect"] = "while"
  /\ Go("connect", IF m_thread_running["connect"] THEN "size" ELSE "done")
  /\ KeepLocks
  /\ UNCHANGED <<peerVars, connectVars>>
  /\ connectUnchanged

\* queue_length = m_potential_peers.size(), one round over that many entries
ConnectSize ==
  /\ pc["connect"] = "size"
  /\ DataFree
  /\ queue_length' = Len(m_potential_peers)
  /\ i' = 0
  /\ Go("connect", IF queue_length' = 0 THEN "pause" ELSE "front")
  /\ KeepLocks
  /\ UNCHANGED <<peerVars, m_potential_peers, tries, new_peer, dialled>>
  /\ connectUnchanged

_pauseUntilQueueNotEmpty ==
  /\ \/ PauseTest("connect", m_potential_peers # <<>> \/ m_destructor_called,
                  "while")
     \/ PauseBlock("connect")
  /\ UNCHANGED <<peerVars, connectVars>>
  /\ connectUnchanged

\* mutant: the request is taken off the queue when it is read, and the
\* pop_front() at the end of the round stays
ConnectFront_and_pop ==
  /\ pc["connect"] = "front"
  /\ DataFree
  /\ dialled' = [dialled EXCEPT ![Head(m_potential_peers)] = @ + 1]
  /\ m_potential_peers' = Tail(m_potential_peers)
  /\ tries' = 1
  /\ Go("connect", "connect")
  /\ KeepLocks
  /\ UNCHANGED <<peerVars, queue_length, i, new_peer>>
  /\ connectUnchanged

\* ip and port of m_potential_peers.front(), and the first connect() with them
ConnectFront ==
  /\ pc["connect"] = "front"
  /\ DataFree
  /\ dialled' = [dialled EXCEPT ![Head(m_potential_peers)] = @ + 1]
  /\ tries' = 1
  /\ Go("connect", "connect")
  /\ KeepLocks
  /\ UNCHANGED <<peerVars, m_potential_peers, queue_length, i, new_peer>>
  /\ connectUnchanged

\* ++i, and the loop condition i < queue_length
NextPass ==
  /\ i' = i + 1
  /\ UNCHANGED <<queue_length, tries>>

AfterPass == IF i + 1 < queue_length THEN "front" ELSE "pop"

\* mutant: the timeout does not end the loop
ConnectRetry_forever ==
  /\ pc["connect"] = "connect"
  /\ tries' = tries + 1
  /\ UNCHANGED <<pc, queue_length, i, new_peer>>
  /\ KeepLocks
  /\ UNCHANGED <<peerVars, m_potential_peers, dialled>>
  /\ connectUnchanged

\* connect() failed, getLastErrno() is 0 and the timeout is not used up
ConnectRetry ==
  /\ pc["connect"] = "connect"
  /\ tries < MaxTries
  /\ tries' = tries + 1
  /\ UNCHANGED <<pc, queue_length, i, new_peer>>
  /\ KeepLocks
  /\ UNCHANGED <<peerVars, m_potential_peers, dialled>>
  /\ connectUnchanged

\* connect() failed for good: onConnectError(), run with m_callback_access held
ConnectFailed ==
  /\ pc["connect"] = "connect"
  /\ CbFree
  /\ Go("connect", AfterPass)
  /\ NextPass
  /\ KeepLocks
  /\ UNCHANGED <<peerVars, m_potential_peers, new_peer, dialled>>
  /\ connectUnchanged

\* mutant: the new peer is entered without m_data_access
ConnectSucceeded_unlocked ==
  /\ pc["connect"] = "connect"
  /\ \E id \in Ids : NewPeer(id) /\ new_peer' = id
  /\ Go("connect", "connected")
  /\ KeepLocks
  /\ UNCHANGED <<m_potential_peers, queue_length, i, tries, dialled>>
  /\ connectUnchanged

\* connect() succeeded: the new peer goes into m_peers
ConnectSucceeded ==
  /\ pc["connect"] = "connect"
  /\ DataFree
  /\ \E id \in Ids : NewPeer(id) /\ new_peer' = id
  /\ Go("connect", "connected")
  /\ KeepLocks
  /\ UNCHANGED <<m_potential_peers, queue_length, i, tries, dialled>>
  /\ connectUnchanged

\* mutant: the listen thread is not told of the new peer
ConnectCallback_without_notify ==
  /\ pc["connect"] = "connected"
  /\ CbFree
  /\ Go("connect", AfterPass)
  /\ NextPass
  /\ KeepLocks
  /\ UNCHANGED <<peerVars, m_potential_peers, new_peer, dialled>>
  /\ connectUnchanged

\* onConnect(), run with m_callback_access held, then the listen thread is told
ConnectCallback ==
  /\ pc["connect"] = "connected"
  /\ CbFree
  /\ GoAndNotify("connect", AfterPass, "listen")
  /\ NextPass
  /\ KeepLocks
  /\ UNCHANGED <<peerVars, m_potential_peers, new_peer, dialled>>
  /\ connectUnchanged

\* mutant: clear() instead of pop_front()
ConnectPop_all ==
  /\ pc["connect"] = "pop"
  /\ DataFree
  /\ m_potential_peers' = <<>>
  /\ Go("connect", "while")
  /\ KeepLocks
  /\ UNCHANGED <<peerVars, connectLocals, dialled>>
  /\ connectUnchanged

\* m_potential_peers.pop_front(), once per round
ConnectPop ==
  /\ pc["connect"] = "pop"
  /\ DataFree
  /\ m_potential_peers' = Tail(m_potential_peers)
  /\ Go("connect", "while")
  /\ KeepLocks
  /\ UNCHANGED <<peerVars, connectLocals, dialled>>
  /\ connectUnchanged

_connectThreadJob ==
  \/ ConnectWhile
  \/ ConnectSize
  \/ _pauseUntilQueueNotEmpty
  \/ ConnectFront
  \/ ConnectRetry
  \/ ConnectFailed
  \/ ConnectSucceeded
  \/ ConnectCallback
  \/ ConnectPop

=============================================================================
