----------------------------- MODULE SendThread ------------------------------
(***************************************************************************)
(* _sendThreadJob(): takes the buffers of sendData() from m_data_to_send   *)
(* one at a time and sends each to its peer.  An entry of the list is the  *)
(* number of the buffer, the id it is for and its length; outcome records  *)
(* what happened to each buffer (a history variable).                      *)
(***************************************************************************)
EXTENDS NodeState

sendUnchanged ==
  UNCHANGED <<listenerVars, flagVars, lifeVars, connectVars, listenLocals,
              callerVars>>

\* Steps that only move the thread
SendMoves ==
  KeepLocks /\ UNCHANGED <<peerVars, sendVars, terminated>> /\ sendUnchanged

\* while(m_send_thread_running)
SendWhile ==
  /\ pc["send"] = "while"
  /\ Go("send", IF m_thread_running["send"] THEN "lock" ELSE "done")
  /\ SendMoves

\* uint8_t to_send_count = m_data_to_send.size()
to_send_count == Len(m_data_to_send) % CountModulus

SendPause ==
  /\ pc["send"] = "lock"
  /\ DataFree
  /\ to_send_count = 0
  /\ Go("send", "pause")
  /\ SendMoves

\* mutant: the predicate looks at the 8-bit count
_pauseUntilCountNotZero ==
  /\ \/ PauseTest("send", to_send_count # 0 \/ m_destructor_called, "relock")
     \/ PauseBlock("send")
  /\ UNCHANGED <<peerVars, sendVars, terminated>>
  /\ sendUnchanged

_pauseUntilDataToSendAvailable ==
  /\ \/ PauseTest("send", m_data_to_send # <<>> \/ m_destructor_called,
                  "relock")
     \/ PauseBlock("send")
  /\ UNCHANGED <<peerVars, sendVars, terminated>>
  /\ sendUnchanged

\* The thread takes m_data_access, having found data or having paused for it
SendLocked ==
  /\ DataFree
  /\ \/ pc["send"] = "lock" /\ to_send_count # 0
     \/ pc["send"] = "relock"

\* It was woken by the destructor, the list is empty
SendNothing ==
  /\ SendLocked
  /\ m_data_to_send = <<>>
  /\ Go("send", "while")
  /\ SendMoves

curr_out_buffer == Head(m_data_to_send)

Record(result) == outcome' = [outcome EXCEPT ![curr_out_buffer.buf] = result]

\* m_data_to_send.pop_front(), unlock, and the next iteration
PopAndUnlock ==
  /\ m_data_to_send' = Tail(m_data_to_send)
  /\ UnlockData /\ KeepCb
  /\ Go("send", "while")

\* The peer is no longer in m_peers (the callback follows)
SendNoPeer ==
  /\ SendLocked
  /\ m_data_to_send # <<>>
  /\ curr_out_buffer.peer \notin m_peers
  /\ Record("nopeer")
  /\ LockData("send")
  /\ Go("send", "nopeer")
  /\ KeepCb
  /\ UNCHANGED <<peerVars, m_data_to_send, terminated>>
  /\ sendUnchanged

\* mutant: the buffer of a peer that is scheduled for deletion stays queued
SendDropped_without_pop ==
  /\ SendLocked
  /\ m_data_to_send # <<>>
  /\ curr_out_buffer.peer \in m_peers \cap m_to_be_deleted
  /\ Record("dropped")
  /\ Go("send", "while")
  /\ KeepLocks
  /\ UNCHANGED <<peerVars, m_data_to_send, terminated>>
  /\ sendUnchanged

\* The peer is scheduled for deletion: the buffer is discarded
SendDropped ==
  /\ SendLocked
  /\ m_data_to_send # <<>>
  /\ curr_out_buffer.peer \in m_peers \cap m_to_be_deleted
  /\ Record("dropped")
  /\ PopAndUnlock
  /\ UNCHANGED <<peerVars, terminated>>
  /\ sendUnchanged

\* The bytes of the first buffer that send() may take
BytesSent ==
  SendResults(m_socket[curr_out_buffer.peer] = "connected",
              curr_out_buffer.len)

Sendable ==
  /\ SendLocked
  /\ m_data_to_send # <<>>
  /\ curr_out_buffer.peer \in m_peers \ m_to_be_deleted

\* mutant: m_data_access is released for the callback
SendBytes_unlocked ==
  /\ Sendable
  /\ \E bytes \in BytesSent :
       /\ bytes > 0
       /\ Record(IF bytes = curr_out_buffer.len THEN "sent" ELSE "partial")
  /\ Go("send", "sent")
  /\ KeepLocks
  /\ UNCHANGED <<peerVars, m_data_to_send, terminated>>
  /\ sendUnchanged

\* bytes_sent > 0 (the callback follows)
SendBytes ==
  /\ Sendable
  /\ \E bytes \in BytesSent :
       /\ bytes > 0
       /\ Record(IF bytes = curr_out_buffer.len THEN "sent" ELSE "partial")
  /\ LockData("send")
  /\ Go("send", "sent")
  /\ KeepCb
  /\ UNCHANGED <<peerVars, m_data_to_send, terminated>>
  /\ sendUnchanged

\* bytes_sent = 0: the peer is given up, but only if onSendError() was set
SendFailed ==
  /\ Sendable
  /\ 0 \in BytesSent
  /\ Record("failed")
  /\ IF "SendError" \in m_callbacks
     THEN /\ scheduleDelete({curr_out_buffer.peer},
                            "PEER_WAS_DISCONNECTED_DUE_TO_ERROR")
          /\ UNCHANGED m_socket
     ELSE UNCHANGED peerVars
  /\ PopAndUnlock
  /\ UNCHANGED terminated
  /\ sendUnchanged

\* m_callback_access is taken to look for the callback; when it is set it is
\* called with m_callback_access released and m_data_access still held
SendCallback(at, callback, on) ==
  \/ /\ pc["send"] = at
     /\ CbFree
     /\ callback \in m_callbacks
     /\ Go("send", on)
     /\ SendMoves
  \/ /\ \/ pc["send"] = at /\ CbFree /\ callback \notin m_callbacks
           /\ UNCHANGED terminated
        \/ pc["send"] = on /\ CallAndReturn(callback)
     /\ PopAndUnlock
     /\ UNCHANGED <<peerVars, outcome>>
     /\ sendUnchanged

SendSentCallback == SendCallback("sent", "Sent", "onSend")
SendErrorCallback == SendCallback("nopeer", "SendError", "onSendError")

_sendThreadJob ==
  \/ SendWhile
  \/ SendPause
  \/ _pauseUntilDataToSendAvailable
  \/ SendNothing
  \/ SendNoPeer
  \/ SendDropped
  \/ SendBytes
  \/ SendFailed
  \/ SendSentCallback
  \/ SendErrorCallback

=============================================================================
