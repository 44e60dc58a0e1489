-------------------------------- MODULE Peer ----------------------------------
(***************************************************************************)
(* The Peer objects of the application and the PeerPrivate records they    *)
(* own.  A Peer is a pointer m_private to a record on the heap: copying a  *)
(* Peer copies the record, moving it takes the record over, destroying it  *)
(* deletes the record.                                                     *)
(***************************************************************************)
EXTENDS ISocket, FiniteSetsExt

CONSTANTS
  Handles,  \* the variables of type Peer, numbered
  Records   \* addresses at which a PeerPrivate can be allocated

ASSUME PeerAssumption ==
  /\ Handles \subseteq Nat /\ IsFiniteSet(Handles)
  /\ Records \subseteq Nat \ {0}
  /\ Handles \subseteq Records

VARIABLES
  m_private,  \* the record of each Peer
  allocated,  \* the addresses in use
  heap        \* the PeerPrivate at each address

handleVars == <<m_private, allocated, heap>>

\* PeerPrivate(): port, host name and error message go with the ip address
PeerPrivate ==
  [m_connection_id |-> 0, m_ip_address |-> "", m_valid |-> FALSE,
   m_to_be_deleted |-> FALSE, m_disconn |-> "PEER_DISCONNECTED_THEMSELF",
   m_socket |-> nullptr]

\* set(), setSocket() and setValid() of the record of a new connection
NewRecord(id, address, o) ==
  [PeerPrivate EXCEPT !.m_connection_id = id, !.m_ip_address = address,
                      !.m_socket = o, !.m_valid = TRUE]

\* scheduleDelete()
Scheduled(rec, type) ==
  [rec EXCEPT !.m_disconn = type, !.m_to_be_deleted = TRUE]

\* Every variable starts as a Peer of its own
PeerInit ==
  /\ m_private = [h \in Handles |-> h]
  /\ allocated = Handles
  /\ heap = [r \in Records |-> PeerPrivate]

\* What is left at an address that is deleted is never read (RecordsOwned)
Deleted(r) == [a \in Records |-> IF a = r THEN PeerPrivate ELSE heap[a]]

\* delete m_private, m_private = new PeerPrivate(), *m_private = rec.  The
\* address that was given back is the first to be handed out again.
CopyRecord(h, rec) ==
  LET others == allocated \ {m_private[h]}
      r == Min(Records \ others)
  IN  /\ m_private' = [m_private EXCEPT ![h] = r]
      /\ allocated' = others \cup {r}
      /\ heap' = [Deleted(m_private[h]) EXCEPT ![r] = rec]

\* mutant: operator= as the compiler would write it
assign_pointer(h, other) ==
  /\ m_private' = [m_private EXCEPT ![h] = m_private[other]]
  /\ UNCHANGED <<allocated, heap>>

\* operator= and the copy constructor.  The other Peer must have a record.
\* A Peer assigned to itself reads the record it has just created.
assign(h, other) ==
  /\ m_private[other] # nullptr
  /\ CopyRecord(h, IF other = h THEN PeerPrivate ELSE heap[m_private[other]])

\* Peer(Peer&&): h ends, and a new variable in its place takes the record over
move(h, other) ==
  /\ h # other
  /\ m_private' = [m_private EXCEPT ![h] = m_private[other],
                                    ![other] = nullptr]
  /\ allocated' = allocated \ {m_private[h]}
  /\ heap' = Deleted(m_private[h])

\* What a Peer answers: without a record it is invalid and has id 0
RecordOf(h) == IF m_private[h] = nullptr THEN PeerPrivate ELSE heap[m_private[h]]

\* operator==, false for a Peer without a record
Equal(h, other) ==
  /\ m_private[h] # nullptr
  /\ m_private[other] # nullptr
  /\ RecordOf(h).m_connection_id = RecordOf(other).m_connection_id
  /\ RecordOf(h).m_ip_address = RecordOf(other).m_ip_address

\* Copies, moves and assignments by the application; a fresh Peer() too
HandleStep ==
  \/ \E h, other \in Handles : assign(h, other) \/ move(h, other)
  \/ \E h \in Handles : CopyRecord(h, PeerPrivate)

=============================================================================
