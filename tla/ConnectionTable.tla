--------------------------- MODULE ConnectionTable ---------------------------
(***************************************************************************)
(* What the peer table promises, with no threads and no locks: every       *)
(* connection gets the next id; it is live until it is scheduled for       *)
(* deletion with a reason; only a disconnect by the application may change *)
(* the reason afterwards; a connection that is gone never comes back.      *)
(***************************************************************************)
EXTENDS Naturals

CONSTANTS TableIds, Reasons, UserReason

VARIABLE state  \* the state of the connection of each id

TableInit == state = [id \in TableIds |-> "absent"]

\* Ids are handed out in order, each once
Open(id) ==
  /\ state[id] = "absent"
  /\ \A j \in TableIds : j < id => state[j] # "absent"
  /\ state' = [state EXCEPT ![id] = "live"]

\* A live connection gets a reason to end, or the application overrides one
Close(ids, reason) ==
  /\ ids # {}
  /\ \A id \in ids : \/ state[id] = "live"
                     \/ state[id] \in Reasons /\ reason = UserReason
  /\ state' = [id \in TableIds |-> IF id \in ids THEN reason ELSE state[id]]

Remove(id) ==
  /\ state[id] \in Reasons
  /\ state' = [state EXCEPT ![id] = "gone"]

TableNext ==
  \/ \E id \in TableIds : Open(id) \/ Remove(id)
  \/ \E ids \in SUBSET TableIds : \E reason \in Reasons : Close(ids, reason)

TableSpec == TableInit /\ [][TableNext]_state

=============================================================================
