------------------------------ MODULE PeerProofs -------------------------------
(***************************************************************************)
(* The Peers of the application, for any number of them: who owns which    *)
(* record on the heap and which connection a Peer names.  And the table of *)
(* the connections as ConnectionTable sees it.                             *)
(***************************************************************************)
EXTENDS ConnectionsProofs

-----------------------------------------------------------------------------
(***************************************************************************)
(* Records.                                                                *)
(***************************************************************************)
HandlesTyped ==
  /\ m_private \in [Handles -> Records \cup {nullptr}]
  /\ allocated \subseteq Records
  /\ heap \in [Records -> PeerRecord]

HandlesInv == HandlesTyped /\ RecordsOwned

\* PeerPrivate() is a record.
LEMMA EmptyRecord ==
  PeerPrivate \in PeerRecord /\ PeerPrivate.m_connection_id = 0
  BY DEF PeerPrivate, PeerRecord, DisconnectType

\* A Peer answers from a record or as an empty one.
LEMMA RecordTyped ==
  ASSUME HandlesInv, NEW h \in Handles
  PROVE  RecordOf(h) \in PeerRecord
  BY EmptyRecord DEF HandlesInv, HandlesTyped, RecordOf

\* A record that is copied goes to an address no other Peer has, and the
\* records of the other Peers stay.
LEMMA CopyOwned ==
  ASSUME HandlesInv, NEW h \in Handles, NEW rec \in PeerRecord,
         CopyRecord(h, rec)
  PROVE  /\ HandlesInv' /\ RecordOf(h)' = rec
         /\ \A g \in Handles \ {h} : RecordOf(g)' = RecordOf(g)
<1> USE DEF HandlesInv
<1>1. PICK others : others = allocated \ {m_private[h]}
  OBVIOUS
<1>2. PICK r : r = Min(Records \ others)
  OBVIOUS
<1>3. r \in Records /\ r \notin others /\ r # nullptr
  <2>1. Records \subseteq Nat /\ nullptr \notin Records
    BY PeerAssumption DEF nullptr
  <2>2. Records \ others # {}
    BY <1>1, RoomForRecord DEF HandlesTyped
  <2>3. r \in Records \ others
    BY <1>2, <2>1, <2>2, MinMember
  <2> QED
    BY <2>1, <2>3
<1>4. /\ m_private' = [m_private EXCEPT ![h] = r]
      /\ allocated' = others \cup {r}
      /\ heap' = [Deleted(m_private[h]) EXCEPT ![r] = rec]
  BY <1>1, <1>2 DEF CopyRecord
<1>5. /\ m_private' \in [Handles -> Records \cup {nullptr}]
      /\ m_private'[h] = r
      /\ \A g \in Handles \ {h} : m_private'[g] = m_private[g]
  BY <1>3, <1>4 DEF HandlesTyped
<1>6. ASSUME NEW g \in Handles \ {h}
      PROVE  m_private[g] = nullptr \/ m_private[g] \in others
  BY <1>1 DEF RecordsOwned
<1>7. /\ heap' \in [Records -> PeerRecord] /\ heap'[r] = rec
      /\ \A a \in Records \ {r, m_private[h]} : heap'[a] = heap[a]
  BY <1>3, <1>4, EmptyRecord DEF Deleted, HandlesTyped
<1>8. HandlesTyped'
  BY <1>1, <1>3, <1>4, <1>5, <1>7 DEF HandlesTyped
<1>9. allocated' = {m_private'[g] : g \in Handles} \ {nullptr}
  <2>1. ASSUME NEW a \in allocated'
        PROVE  a # nullptr /\ \E g \in Handles : m_private'[g] = a
    <3>1. CASE a = r
      BY <1>3, <1>5, <3>1
    <3>2. CASE a \in others
      <4>1. a # nullptr /\ \E g \in Handles \ {h} : m_private[g] = a
        BY <1>1, <3>2 DEF RecordsOwned
      <4> QED
        BY <1>5, <4>1
    <3> QED
      BY <1>4, <3>1, <3>2
  <2>2. ASSUME NEW g \in Handles, m_private'[g] # nullptr
        PROVE  m_private'[g] \in allocated'
    BY <1>4, <1>5, <1>6, <2>2
  <2> QED
    BY <2>1, <2>2
<1>10. ASSUME NEW f \in Handles, NEW g \in Handles,
              m_private'[f] = m_private'[g]
       PROVE  f = g \/ m_private'[f] = nullptr
  <2>1. CASE f # h /\ g # h
    BY <1>5, <1>10, <2>1 DEF RecordsOwned
  <2>2. CASE f = h /\ g # h
    BY <1>3, <1>5, <1>6, <1>10, <2>2
  <2>3. CASE f # h /\ g = h
    BY <1>3, <1>5, <1>6, <1>10, <2>3
  <2> QED
    BY <2>1, <2>2, <2>3
<1>11. RecordsOwned'
  BY <1>9, <1>10 DEF RecordsOwned
<1>12. RecordOf(h)' = rec
  BY <1>3, <1>5, <1>7 DEF RecordOf
<1>13. ASSUME NEW g \in Handles \ {h} PROVE RecordOf(g)' = RecordOf(g)
  <2>1. m_private[g] # nullptr =>
          /\ m_private[g] \in Records \ {r, m_private[h]}
          /\ heap'[m_private[g]] = heap[m_private[g]]
    BY <1>3, <1>6, <1>7 DEF RecordsOwned, HandlesTyped
  <2> QED
    BY <1>5, <2>1 DEF RecordOf
<1> QED
  BY <1>8, <1>11, <1>12, <1>13

\* A Peer that is moved gives its record away and keeps none.
LEMMA MoveOwned ==
  ASSUME HandlesInv, NEW h \in Handles, NEW other \in Handles, move(h, other)
  PROVE  /\ HandlesInv' /\ RecordOf(h)' = RecordOf(other)
         /\ RecordOf(other)' = PeerPrivate
         /\ \A g \in Handles \ {h, other} : RecordOf(g)' = RecordOf(g)
<1> USE DEF HandlesInv
<1>1. /\ h # other
      /\ m_private' = [m_private EXCEPT ![h] = m_private[other],
                                        ![other] = nullptr]
      /\ allocated' = allocated \ {m_private[h]}
      /\ heap' = Deleted(m_private[h])
  BY DEF move
<1>2. /\ m_private' \in [Handles -> Records \cup {nullptr}]
      /\ m_private'[h] = m_private[other] /\ m_private'[other] = nullptr
      /\ \A g \in Handles \ {h, other} : m_private'[g] = m_private[g]
  BY <1>1 DEF HandlesTyped
<1>3. /\ heap' \in [Records -> PeerRecord]
      /\ \A a \in Records \ {m_private[h]} : heap'[a] = heap[a]
  BY <1>1, EmptyRecord DEF Deleted, HandlesTyped
<1>4. HandlesTyped'
  BY <1>1, <1>2, <1>3 DEF HandlesTyped
<1>5. ASSUME NEW g \in Handles \ {h}, m_private[g] # nullptr
      PROVE  m_private[g] # m_private[h] /\ m_private[g] \in allocated
  BY <1>5 DEF RecordsOwned
<1>6. allocated' = {m_private'[g] : g \in Handles} \ {nullptr}
  <2>1. ASSUME NEW a \in allocated'
        PROVE  a # nullptr /\ \E g \in Handles : m_private'[g] = a
    <3>1. PICK g \in Handles \ {h} : a = m_private[g] /\ a # nullptr
      BY <1>1 DEF RecordsOwned
    <3> QED
      BY <1>2, <3>1
  <2>2. ASSUME NEW g \in Handles, m_private'[g] # nullptr
        PROVE  m_private'[g] \in allocated'
    BY <1>1, <1>2, <1>5, <2>2
  <2> QED
    BY <2>1, <2>2
<1>7. ASSUME NEW f \in Handles, NEW g \in Handles,
             m_private'[f] = m_private'[g]
      PROVE  f = g \/ m_private'[f] = nullptr
  BY <1>1, <1>2, <1>7 DEF RecordsOwned
<1>8. RecordsOwned'
  BY <1>6, <1>7 DEF RecordsOwned
<1>9. RecordOf(h)' = RecordOf(other) /\ RecordOf(other)' = PeerPrivate
  <2>1. m_private[other] # nullptr =>
          heap'[m_private[other]] = heap[m_private[other]]
    BY <1>1, <1>3, <1>5 DEF HandlesTyped
  <2> QED
    BY <1>2, <2>1 DEF RecordOf
<1>10. ASSUME NEW g \in Handles \ {h, other} PROVE RecordOf(g)' = RecordOf(g)
  <2>1. m_private[g] # nullptr => heap'[m_private[g]] = heap[m_private[g]]
    BY <1>3, <1>5 DEF HandlesTyped
  <2> QED
    BY <1>2, <2>1 DEF RecordOf
<1> QED
  BY <1>4, <1>8, <1>9, <1>10

-----------------------------------------------------------------------------
(***************************************************************************)
(* Where the record of a Peer comes from.                                  *)
(***************************************************************************)
\* After a step that changes Peers and nothing else, each has an empty record,
\* one that a Peer had before, or a copy of an entry of the table.
FromSource ==
  /\ HandlesInv' /\ UNCHANGED nodeVars
  /\ \A h \in Handles :
       \/ RecordOf(h)' = PeerPrivate
       \/ \E g \in Handles : RecordOf(h)' = RecordOf(g)
       \/ \E id \in DOMAIN m_peers : RecordOf(h)' = m_peers[id]

\* A copy, of a record from one of the three sources.
LEMMA CopyFromSource ==
  ASSUME HandlesInv, NodeInv, UNCHANGED nodeVars, NEW h \in Handles,
         NEW rec, CopyRecord(h, rec),
         \/ rec = PeerPrivate
         \/ \E g \in Handles : rec = RecordOf(g)
         \/ \E id \in DOMAIN m_peers : rec = m_peers[id]
  PROVE  FromSource
<1>1. rec \in PeerRecord
  BY EmptyRecord, RecordTyped DEF NodeInv, NodeTyped
<1>2. /\ HandlesInv' /\ RecordOf(h)' = rec
      /\ \A g \in Handles \ {h} : RecordOf(g)' = RecordOf(g)
  BY <1>1, CopyOwned
<1> QED
  BY <1>2 DEF FromSource

\* allPeers() and latestPeer(), and what the application does with its Peers
LEMMA PeersFromSource ==
  ASSUME HandlesInv, NodeInv,
         \/ \E h \in Handles : latestPeer(h)
         \/ \E h \in Handles, id \in Ids : allPeers(h, id)
         \/ UsePeers
  PROVE  FromSource
<1>1. UNCHANGED nodeVars
  BY DEF latestPeer, allPeers, UsePeers
<1>2. ASSUME NEW h \in Handles, latestPeer(h) PROVE FromSource
  <2>1. CASE DOMAIN m_peers = {}
    BY <1>1, <1>2, <2>1, CopyFromSource DEF latestPeer
  <2>2. CASE DOMAIN m_peers # {}
    <3>1. Max(DOMAIN m_peers) \in DOMAIN m_peers
      BY <2>2, MaxMember DEF NodeInv, NodeTyped
    <3> QED
      BY <1>1, <1>2, <2>2, <3>1, CopyFromSource DEF latestPeer
  <2> QED
    BY <2>1, <2>2
<1>3. ASSUME NEW h \in Handles, NEW id \in Ids, allPeers(h, id)
      PROVE  FromSource
  BY <1>1, <1>3, CopyFromSource DEF allPeers
<1>4. ASSUME NEW h \in Handles, NEW other \in Handles, assign(h, other)
      PROVE  FromSource
  <2>1. CASE other = h
    BY <1>1, <1>4, <2>1, CopyFromSource DEF assign
  <2>2. CASE other # h
    <3>1. CopyRecord(h, RecordOf(other))
      BY <1>4, <2>2 DEF assign, RecordOf
    <3> QED
      BY <1>1, <3>1, CopyFromSource
  <2> QED
    BY <2>1, <2>2
<1>5. ASSUME NEW h \in Handles, NEW other \in Handles, move(h, other)
      PROVE  FromSource
  <2>1. /\ HandlesInv' /\ RecordOf(h)' = RecordOf(other)
        /\ RecordOf(other)' = PeerPrivate
        /\ \A g \in Handles \ {h, other} : RecordOf(g)' = RecordOf(g)
    BY <1>5, MoveOwned
  <2> QED
    BY <1>1, <2>1 DEF FromSource
<1>6. ASSUME NEW h \in Handles, CopyRecord(h, PeerPrivate) PROVE FromSource
  BY <1>1, <1>6, CopyFromSource
<1> QED
  BY <1>2, <1>3, <1>4, <1>5, <1>6 DEF UsePeers, HandleStep

\* No other step touches a Peer.
LEMMA PeersOrNode ==
  ASSUME HandlesInv, NodeInv, [Next]_vars
  PROVE  FromSource \/ UNCHANGED handleVars
<1>1. CASE \/ \E h \in Handles : latestPeer(h)
           \/ \E h \in Handles, id \in Ids : allPeers(h, id)
           \/ UsePeers
  BY <1>1, PeersFromSource
<1>2. CASE UNCHANGED vars
  BY <1>2 DEF vars
<1> QED
  BY <1>1, <1>2
     DEF Next, Listen, StopListening, setListener, SetBufferSize, Accept,
         AcceptNothing, CreateSocket, Dial, DialEnd, DialFailed, DialReported,
         Connected,
         ReceiveFrom, SendTo, Delete, disconnectPeer, disconnectAll,
         NetworkStep, KeepHandles

\* Peers keep owning their records.
LEMMA HandlesInvInductive ==
  ASSUME HandlesInv, NodeInv, [Next]_vars
  PROVE  HandlesInv'
<1>1. CASE UNCHANGED handleVars
  BY <1>1 DEF handleVars, HandlesInv, HandlesTyped, RecordsOwned
<1> QED
  BY <1>1, PeersOrNode DEF FromSource

\* They do at the start.
LEMMA InitHandlesInv ==
  ASSUME Init
  PROVE  HandlesInv
<1>1. /\ m_private = [h \in Handles |-> h] /\ allocated = Handles
      /\ heap = [r \in Records |-> PeerPrivate]
  BY DEF Init, PeerInit
<1>2. Handles \subseteq Records /\ nullptr \notin Handles
  BY PeerAssumption DEF nullptr
<1>3. HandlesTyped
  BY <1>1, <1>2, EmptyRecord DEF HandlesTyped
<1>4. RecordsOwned
  BY <1>1, <1>2 DEF RecordsOwned
<1> QED
  BY <1>3, <1>4 DEF HandlesInv

-----------------------------------------------------------------------------
(***************************************************************************)
(* Which connection a Peer names.                                          *)
(***************************************************************************)
\* A record names a connection there was, as the table knows it if it still
\* does.
NameOK(r) ==
  r.m_connection_id # 0 =>
    /\ r.m_valid
    /\ r.m_connection_id <= m_connection_counter
    /\ r.m_connection_id \in DOMAIN m_peers =>
         /\ m_peers[r.m_connection_id].m_socket = r.m_socket
         /\ m_peers[r.m_connection_id].m_ip_address = r.m_ip_address

\* Two records of one connection have the same address.
SameName(r, q) ==
  r.m_connection_id = q.m_connection_id /\ r.m_connection_id # 0 =>
    r.m_ip_address = q.m_ip_address

NamesInv ==
  \A g, h \in Handles :
    NameOK(RecordOf(h)) /\ SameName(RecordOf(g), RecordOf(h))

\* NamesInv is PeersNameConnections without the pointers.
LEMMA NamesSuffice ==
  ASSUME NamesInv
  PROVE  PeersNameConnections
<1> SUFFICES ASSUME NEW h \in Handles, RecordOf(h).m_connection_id # 0
             PROVE  /\ NameOK(RecordOf(h))
                    /\ \A g \in Handles :
                         RecordOf(g).m_connection_id
                           = RecordOf(h).m_connection_id => Equal(g, h)
  BY DEF PeersNameConnections, NameOK
<1>1. ASSUME NEW g \in Handles,
             RecordOf(g).m_connection_id = RecordOf(h).m_connection_id
      PROVE  Equal(g, h)
  <2>1. m_private[g] # nullptr /\ m_private[h] # nullptr
    BY <1>1, EmptyRecord DEF RecordOf
  <2>2. RecordOf(g).m_ip_address = RecordOf(h).m_ip_address
    BY <1>1 DEF NamesInv, SameName
  <2> QED
    BY <1>1, <2>1, <2>2 DEF Equal
<1> QED
  BY <1>1 DEF NamesInv

\* What the table may do without a Peer noticing: it hands out new ids and
\* forgets entries, but gives no entry another Socket or address.
TableKeepsNames ==
  /\ m_connection_counter' \in Nat /\ m_connection_counter \in Nat
  /\ m_connection_counter' >= m_connection_counter
  /\ \A id \in DOMAIN m_peers' : id <= m_connection_counter =>
       /\ id \in DOMAIN m_peers
       /\ m_peers'[id].m_socket = m_peers[id].m_socket
       /\ m_peers'[id].m_ip_address = m_peers[id].m_ip_address

\* A record keeps its name then.
LEMMA NameKept ==
  ASSUME TableKeepsNames, NEW r \in PeerRecord, NameOK(r)
  PROVE  NameOK(r)'
<1>1. r.m_connection_id \in Nat
  <2>1. r.m_connection_id \in Ids \cup {0}
    BY DEF PeerRecord
  <2> QED
    BY <2>1, IdsNatural
<1> QED
  BY <1>1 DEF NameOK, TableKeepsNames

\* An entry of the table names its own connection.
LEMMA EntryNamed ==
  ASSUME NodeInv, NEW id \in DOMAIN m_peers
  PROVE  NameOK(m_peers[id]) /\ m_peers[id].m_connection_id = id
  BY DEF NodeInv, TableOK, NameOK

\* Peers that get their records from the three sources keep naming.
LEMMA SourcesNamed ==
  ASSUME NodeInv, HandlesInv, NamesInv, FromSource
  PROVE  NamesInv'
<1> DEFINE Source(r) == \/ r = PeerPrivate
                        \/ \E g \in Handles : r = RecordOf(g)
                        \/ \E id \in DOMAIN m_peers : r = m_peers[id]
<1>1. \A h \in Handles : Source(RecordOf(h)')
  BY DEF FromSource
<1>2. ASSUME NEW r, Source(r) PROVE NameOK(r)
  BY <1>2, EmptyRecord, EntryNamed DEF NamesInv, NameOK
<1>3. ASSUME NEW r, NEW q, Source(r), Source(q) PROVE SameName(r, q)
  <2>1. ASSUME NEW id \in DOMAIN m_peers, NEW x, NameOK(x)
        PROVE  SameName(m_peers[id], x) /\ SameName(x, m_peers[id])
    BY <2>1, EntryNamed DEF NameOK, SameName
  <2>2. ASSUME NEW x PROVE SameName(PeerPrivate, x) /\ SameName(x, PeerPrivate)
    BY EmptyRecord DEF SameName
  <2>3. CASE \E g, h \in Handles : r = RecordOf(g) /\ q = RecordOf(h)
    BY <2>3 DEF NamesInv
  <2> QED
    BY <1>2, <1>3, <2>1, <2>2, <2>3
<1> HIDE DEF Source
<1>4. UNCHANGED <<m_peers, m_connection_counter>>
  BY DEF FromSource, nodeVars
<1>5. ASSUME NEW r, NameOK(r) PROVE NameOK(r)'
  BY <1>4, <1>5 DEF NameOK
<1>6. ASSUME NEW h \in Handles PROVE NameOK(RecordOf(h))'
  <2>1. PICK r : r = RecordOf(h)'
    OBVIOUS
  <2>2. NameOK(r)'
    BY <1>1, <1>2, <1>5, <2>1
  <2> QED
    BY <2>1, <2>2 DEF NameOK
<1>7. ASSUME NEW g \in Handles, NEW h \in Handles
      PROVE  SameName(RecordOf(g), RecordOf(h))'
  <2>1. SameName(RecordOf(g)', RecordOf(h)')
    BY <1>1, <1>3
  <2> QED
    BY <2>1 DEF SameName
<1> QED
  BY <1>6, <1>7 DEF NamesInv

\* scheduleDelete() changes neither the Socket nor the address of an entry.
LEMMA ScheduleKeepsNames ==
  ASSUME NodeInv, NEW ids, NEW type, Schedule(ids, type)
  PROVE  TableKeepsNames
<1>1. m_connection_counter \in Nat /\ UNCHANGED m_connection_counter
  <2>1. m_connection_counter \in Ids \cup {0}
    BY DEF NodeInv, NodeTyped
  <2> QED
    BY <2>1, IdsNatural DEF Schedule
<1>2. /\ DOMAIN m_peers' = DOMAIN m_peers
      /\ \A id \in DOMAIN m_peers :
           m_peers'[id] = IF id \in ids THEN Scheduled(m_peers[id], type)
                                        ELSE m_peers[id]
  BY DEF Schedule
<1>3. ASSUME NEW id \in DOMAIN m_peers
      PROVE  /\ m_peers'[id].m_socket = m_peers[id].m_socket
             /\ m_peers'[id].m_ip_address = m_peers[id].m_ip_address
  <2>1. m_peers[id] \in PeerRecord
    BY DEF NodeInv, NodeTyped
  <2> QED
    BY <1>2, <2>1 DEF Scheduled, PeerRecord
<1> QED
  BY <1>1, <1>2, <1>3 DEF TableKeepsNames

\* A new connection has an id that no Peer knows.
LEMMA InsertKeepsNames ==
  ASSUME NodeInv, NEW o, NEW address, Insert(o, address)
  PROVE  TableKeepsNames
<1>1. m_connection_counter \in Nat
  <2>1. m_connection_counter \in Ids \cup {0}
    BY DEF NodeInv, NodeTyped
  <2> QED
    BY <2>1, IdsNatural
<1>2. PICK n, r :
        /\ n = m_connection_counter + 1 /\ m_connection_counter' = n
        /\ m_peers' = [k \in DOMAIN m_peers \cup {n} |->
                         IF k = n THEN r ELSE m_peers[k]]
  BY DEF Insert
<1>3. n \in Nat /\ n >= m_connection_counter /\ ~(n <= m_connection_counter)
  BY <1>1, <1>2
<1>4. ASSUME NEW id \in DOMAIN m_peers', id <= m_connection_counter
      PROVE  id \in DOMAIN m_peers /\ m_peers'[id] = m_peers[id]
  BY <1>2, <1>3, <1>4
<1> QED
  BY <1>1, <1>2, <1>3, <1>4 DEF TableKeepsNames

\* Every step of the node lets the Peers keep their names.
LEMMA NodeKeepsNames ==
  ASSUME NodeInv, [Next]_vars
  PROVE  TableKeepsNames
<1>0. m_connection_counter \in Nat
  <2>1. m_connection_counter \in Ids \cup {0}
    BY DEF NodeInv, NodeTyped
  <2> QED
    BY <2>1, IdsNatural
<1>1. ASSUME UNCHANGED <<m_peers, m_connection_counter>>
      PROVE  TableKeepsNames
  BY <1>0, <1>1 DEF TableKeepsNames
<1>2. CASE Accept \/ Connected
  BY <1>2, InsertKeepsNames DEF Accept, Connected
<1>3. CASE \/ \E h \in Handles : disconnectPeer(h)
           \/ disconnectAll
           \/ \E id \in Ids : ReceiveFrom(id)
           \/ \E id \in Ids, len \in Lengths : SendTo(id, len)
  <2>1. \/ KeepTable
        \/ \E ids, type : Schedule(ids, type)
    BY <1>3 DEF disconnectPeer, disconnectAll, ReceiveFrom, SendTo
  <2> QED
    BY <1>1, <2>1, ScheduleKeepsNames DEF KeepTable
<1>4. ASSUME NEW k \in Ids, Delete(k) PROVE TableKeepsNames
  BY <1>0, <1>4 DEF Delete, TableKeepsNames
<1>5. CASE UNCHANGED vars
  BY <1>1, <1>5 DEF vars, nodeVars
<1>6. \/ UNCHANGED <<m_peers, m_connection_counter>> \/ UNCHANGED vars
      \/ Accept \/ Connected \/ disconnectAll
      \/ \E h \in Handles : disconnectPeer(h)
      \/ \E id \in Ids : ReceiveFrom(id) \/ Delete(id)
      \/ \E id \in Ids, len \in Lengths : SendTo(id, len)
  BY DEF Next, Listen, StopListening, setListener, SetBufferSize,
     AcceptNothing, CreateSocket, Dial, DialEnd, DialFailed, DialReported,
     allPeers,
     latestPeer, UsePeers, NetworkStep, KeepTable, nodeVars
<1> QED
  BY <1>1, <1>2, <1>3, <1>4, <1>5, <1>6

\* Peers keep naming their connections in every step.
LEMMA NamesInvInductive ==
  ASSUME NodeInv, HandlesInv, NamesInv, [Next]_vars
  PROVE  NamesInv'
<1>1. CASE UNCHANGED handleVars
  <2>1. ASSUME NEW h \in Handles PROVE RecordOf(h)' = RecordOf(h)
    BY <1>1 DEF handleVars, RecordOf
  <2>2. ASSUME NEW h \in Handles PROVE NameOK(RecordOf(h))'
    <3>1. PICK r \in PeerRecord : r = RecordOf(h)
      BY RecordTyped
    <3>2. NameOK(r)'
      BY <3>1, NodeKeepsNames, NameKept DEF NamesInv
    <3> QED
      BY <2>1, <3>1, <3>2 DEF NameOK
  <2>3. ASSUME NEW g \in Handles, NEW h \in Handles
        PROVE  SameName(RecordOf(g), RecordOf(h))'
    BY <2>1 DEF NamesInv, SameName
  <2> QED
    BY <2>2, <2>3 DEF NamesInv
<1> QED
  BY <1>1, PeersOrNode, SourcesNamed

\* No Peer names a connection at the start.
LEMMA InitNamesInv ==
  ASSUME Init
  PROVE  NamesInv
<1>1. ASSUME NEW h \in Handles PROVE RecordOf(h) = PeerPrivate
  BY PeerAssumption DEF Init, PeerInit, RecordOf
<1> QED
  BY <1>1, EmptyRecord DEF NamesInv, NameOK, SameName

-----------------------------------------------------------------------------
(***************************************************************************)
(* The theorems about Peers.                                               *)
(***************************************************************************)
PeerInv == NodeInv /\ HandlesInv /\ NamesInv

\* The invariant of node and Peers holds always.
LEMMA AlwaysPeerInv == Spec => []PeerInv
<1>1. Init => PeerInv
  BY InitNodeInv, InitHandlesInv, InitNamesInv DEF PeerInv
<1>2. PeerInv /\ [Next]_vars => PeerInv'
  BY NodeInvInductive, HandlesInvInductive, NamesInvInductive DEF PeerInv
<1> QED
  BY <1>1, <1>2, PTL DEF Spec

\* Every member of every object keeps its type.
THEOREM AlwaysTypeOK == Spec => []TypeOK
<1>1. PeerInv => TypeOK
  BY DEF PeerInv, NodeInv, SocketsTyped, NodeTyped, HandlesInv, HandlesTyped,
     TypeOK
<1> QED
  BY <1>1, AlwaysPeerInv, PTL

\* Copying, moving and assigning Peers, to themselves too, neither leaks a
\* PeerPrivate nor lets two Peers share one, for any number of Peers.
THEOREM AlwaysRecordsOwned == Spec => []RecordsOwned
<1>1. PeerInv => RecordsOwned
  BY DEF PeerInv, HandlesInv
<1> QED
  BY <1>1, AlwaysPeerInv, PTL

\* A Peer names the connection it was obtained for, and never a later one that
\* took its place in the table.
THEOREM AlwaysPeersNameConnections == Spec => []PeersNameConnections
<1>1. PeerInv => PeersNameConnections
  BY NamesSuffice DEF PeerInv
<1> QED
  BY <1>1, AlwaysPeerInv, PTL

-----------------------------------------------------------------------------
(***************************************************************************)
(* The table.                                                              *)
(***************************************************************************)
\* The abstract state of one connection, and of all.
StateOf(id) ==
  CASE id > m_connection_counter -> "absent"
    [] id \in DOMAIN m_peers ->
         IF m_peers[id].m_to_be_deleted THEN m_peers[id].m_disconn ELSE "live"
    [] OTHER -> "gone"

TableState == [id \in Ids |-> StateOf(id)]

\* The cases are disjoint.
LEMMA StateCases ==
  ASSUME NodeInv, NEW id \in Ids
  PROVE  /\ id > m_connection_counter => StateOf(id) = "absent"
         /\ id \in DOMAIN m_peers =>
              StateOf(id) = IF m_peers[id].m_to_be_deleted
                            THEN m_peers[id].m_disconn ELSE "live"
         /\ id <= m_connection_counter /\ id \notin DOMAIN m_peers =>
              StateOf(id) = "gone"
<1>1. id \in Nat /\ m_connection_counter \in Nat
  <2>1. m_connection_counter \in Ids \cup {0}
    BY DEF NodeInv, NodeTyped
  <2> QED
    BY <2>1, IdsNatural
<1>2. id \in DOMAIN m_peers => id <= m_connection_counter
  BY DEF NodeInv, TableOK
<1> QED
  BY <1>1, <1>2 DEF StateOf

\* The same after a step.
LEMMA StateCasesNext ==
  ASSUME NodeInv', NEW id \in Ids
  PROVE  /\ id > m_connection_counter' => StateOf(id)' = "absent"
         /\ id \in DOMAIN m_peers' =>
              StateOf(id)' = IF m_peers'[id].m_to_be_deleted
                             THEN m_peers'[id].m_disconn ELSE "live"
         /\ id <= m_connection_counter' /\ id \notin DOMAIN m_peers' =>
              StateOf(id)' = "gone"
<1>1. id \in Nat /\ m_connection_counter' \in Nat
  <2>1. m_connection_counter' \in Ids \cup {0}
    BY DEF NodeInv, NodeTyped
  <2> QED
    BY <2>1, IdsNatural
<1>2. id \in DOMAIN m_peers' => id <= m_connection_counter'
  BY DEF NodeInv, TableOK
<1> QED
  BY <1>1, <1>2 DEF StateOf

\* Open of ConnectionTable, in terms of StateOf,
LEMMA OpenStep ==
  ASSUME NEW id \in Ids, StateOf(id) = "absent",
         \A j \in Ids : j < id => StateOf(j) # "absent",
         StateOf(id)' = "live",
         \A j \in Ids \ {id} : StateOf(j)' = StateOf(j)
  PROVE  Table!TableNext
<1>1. TableState' = [TableState EXCEPT ![id] = "live"]
  BY DEF TableState
<1>2. Table!Open(id)
  BY <1>1 DEF Table!Open, TableState, StateOf
<1> QED
  BY <1>2 DEF Table!TableNext

\* and Close,
LEMMA CloseStep ==
  ASSUME NEW ids \in SUBSET Ids, ids # {}, NEW reason \in DisconnectType,
         \A id \in ids :
           \/ StateOf(id) = "live"
           \/ /\ StateOf(id) \in DisconnectType
              /\ reason = "PEER_WAS_DISCONNECTED",
         \A id \in Ids :
           StateOf(id)' = IF id \in ids THEN reason ELSE StateOf(id)
  PROVE  Table!TableNext
<1>1. TableState' = [id \in Ids |-> IF id \in ids THEN reason
                                                  ELSE TableState[id]]
  BY DEF TableState
<1>2. Table!Close(ids, reason)
  BY <1>1 DEF Table!Close, TableState, StateOf
<1> QED
  BY <1>2 DEF Table!TableNext

\* and Remove.
LEMMA RemoveStep ==
  ASSUME NEW id \in Ids, StateOf(id) \in DisconnectType,
         StateOf(id)' = "gone",
         \A j \in Ids \ {id} : StateOf(j)' = StateOf(j)
  PROVE  Table!TableNext
<1>1. TableState' = [TableState EXCEPT ![id] = "gone"]
  BY DEF TableState
<1>2. Table!Remove(id)
  BY <1>1 DEF Table!Remove, TableState, StateOf
<1> QED
  BY <1>2 DEF Table!TableNext

Refines == Table!TableNext \/ UNCHANGED TableState

\* A step that leaves the table alone is a stutter.
LEMMA UntouchedRefines ==
  ASSUME UNCHANGED <<m_peers, m_connection_counter>>
  PROVE  Refines
  BY DEF Refines, TableState, StateOf

\* A connection that is accepted or dialled gets the next id.
LEMMA InsertOpens ==
  ASSUME NodeInv, NodeInv', NEW o, NEW address, Insert(o, address)
  PROVE  Refines
<1>1. m_connection_counter \in Nat /\ \A j \in Ids : j \in Nat
  <2>1. m_connection_counter \in Ids \cup {0}
    BY DEF NodeInv, NodeTyped
  <2> QED
    BY <2>1, IdsNatural
<1>2. PICK n \in Ids :
        /\ n = m_connection_counter + 1 /\ m_connection_counter' = n
        /\ m_peers' = [k \in DOMAIN m_peers \cup {n} |->
                         IF k = n THEN NewRecord(n, address, o)
                                  ELSE m_peers[k]]
  BY DEF Insert
<1> DEFINE r == NewRecord(n, address, o)
<1>3. n = m_connection_counter + 1 /\ n \in Nat
  BY <1>1, <1>2
<1>4. r.m_to_be_deleted = FALSE
  BY <1>2 DEF NewRecord, PeerPrivate
<1>5. /\ DOMAIN m_peers' = DOMAIN m_peers \cup {n} /\ m_peers'[n] = r
      /\ \A k \in DOMAIN m_peers \ {n} : m_peers'[k] = m_peers[k]
  BY <1>2
<1>6. StateOf(n)' = "live"
  BY <1>4, <1>5, StateCasesNext
<1>7. n > m_connection_counter
  BY <1>1, <1>3
<1>8. StateOf(n) = "absent"
  BY <1>7, StateCases
<1>9. ASSUME NEW j \in Ids \ {n} PROVE StateOf(j)' = StateOf(j)
  <2>1. j > m_connection_counter <=> j > m_connection_counter'
    <3>1. m_connection_counter' = n /\ j \in Nat
      BY <1>1, <1>2
    <3> QED
      BY <1>1, <1>3, <3>1
  <2>2. j \in DOMAIN m_peers <=> j \in DOMAIN m_peers'
    BY <1>5
  <2>3. j \in DOMAIN m_peers => m_peers'[j] = m_peers[j]
    BY <1>5
  <2> QED
    BY <2>1, <2>2, <2>3 DEF StateOf
<1>10. ASSUME NEW j \in Ids, j < n PROVE StateOf(j) # "absent"
  <2>1. j <= m_connection_counter
    BY <1>1, <1>3, <1>10
  <2>2. j \in DOMAIN m_peers => m_peers[j].m_disconn \in DisconnectType
    BY DEF NodeInv, NodeTyped, PeerRecord
  <2>3. StateOf(j) \in {"gone", "live"} \cup DisconnectType
    BY <2>1, <2>2, StateCases
  <2> QED
    BY <2>3 DEF DisconnectType
<1> QED
  BY <1>6, <1>8, <1>9, <1>10, OpenStep DEF Refines

\* Connections that are live, or that the application disconnects, are
\* closed.
LEMMA ScheduleCloses ==
  ASSUME NodeInv, NodeInv', NEW ids \in SUBSET DOMAIN m_peers,
         NEW type \in DisconnectType, Schedule(ids, type),
         \/ \A id \in ids : ~m_peers[id].m_to_be_deleted
         \/ type = "PEER_WAS_DISCONNECTED"
  PROVE  Refines
<1>1. /\ DOMAIN m_peers' = DOMAIN m_peers /\ UNCHANGED m_connection_counter
      /\ \A id \in DOMAIN m_peers :
           m_peers'[id] = IF id \in ids THEN Scheduled(m_peers[id], type)
                                        ELSE m_peers[id]
  BY DEF Schedule
<1>2. ids \subseteq Ids
  BY DEF NodeInv, NodeTyped
<1>3. ASSUME NEW id \in DOMAIN m_peers
      PROVE  /\ m_peers[id].m_disconn \in DisconnectType
             /\ id \in ids => /\ m_peers'[id].m_to_be_deleted = TRUE
                              /\ m_peers'[id].m_disconn = type
  <2>1. m_peers[id] \in PeerRecord
    BY DEF NodeInv, NodeTyped
  <2> QED
    BY <1>1, <2>1 DEF Scheduled, PeerRecord
<1>4. ASSUME NEW id \in Ids
      PROVE  StateOf(id)' = IF id \in ids THEN type ELSE StateOf(id)
  <2>1. CASE id \in ids
    BY <1>1, <1>3, <2>1, StateCasesNext
  <2>2. CASE id \notin ids
    BY <1>1, <2>2 DEF StateOf
  <2> QED
    BY <2>1, <2>2
<1>5. CASE ids = {}
  BY <1>4, <1>5 DEF Refines, TableState
<1>6. CASE ids # {}
  <2>1. ASSUME NEW id \in ids
        PROVE  \/ StateOf(id) = "live"
               \/ /\ StateOf(id) \in DisconnectType
                  /\ type = "PEER_WAS_DISCONNECTED"
    BY <1>2, <1>3, StateCases
  <2> QED
    BY <1>2, <1>4, <1>6, <2>1, CloseStep DEF Refines
<1> QED
  BY <1>5, <1>6

\* A connection that is deleted is removed, and was closed.
LEMMA DeleteRemoves ==
  ASSUME NodeInv, NodeInv', NEW id \in Ids, Delete(id)
  PROVE  Refines
<1>1. /\ id \in DOMAIN m_peers /\ m_peers[id].m_to_be_deleted
      /\ m_peers' = [k \in DOMAIN m_peers \ {id} |-> m_peers[k]]
      /\ UNCHANGED m_connection_counter
  BY DEF Delete
<1>2. m_peers[id].m_disconn \in DisconnectType /\ id <= m_connection_counter
  BY <1>1 DEF NodeInv, NodeTyped, PeerRecord, TableOK
<1>3. StateOf(id) \in DisconnectType
  BY <1>1, <1>2, StateCases
<1>4. StateOf(id)' = "gone"
  BY <1>1, <1>2, StateCasesNext
<1>5. \A j \in Ids \ {id} : StateOf(j)' = StateOf(j)
  BY <1>1 DEF StateOf
<1> QED
  BY <1>3, <1>4, <1>5, RemoveStep DEF Refines

\* receive() and send() close connections that are live only.
LEMMA TransferRefines ==
  ASSUME NodeInv, NodeInv', NEW id \in Ids,
         ReceiveFrom(id) \/ \E len \in Lengths : SendTo(id, len)
  PROVE  Refines
<1>1. id \in DOMAIN m_peers /\ ~m_peers[id].m_to_be_deleted
  BY DEF ReceiveFrom, SendTo
<1>2. \/ KeepTable
      \/ \E type \in DisconnectType : Schedule({id}, type)
  BY ErrorsTyped DEF ReceiveFrom, SendTo, DisconnectType
<1> QED
  BY <1>1, <1>2, ScheduleCloses, UntouchedRefines DEF KeepTable

\* Every step is a step of the table or does nothing to it.
LEMMA NextRefines ==
  ASSUME NodeInv, [Next]_vars
  PROVE  Refines
<1>0. NodeInv'
  BY NodeInvInductive
<1>1. CASE Accept \/ Connected
  BY <1>0, <1>1, InsertOpens DEF Accept, Connected
<1>2. CASE (\E h \in Handles : disconnectPeer(h)) \/ disconnectAll
  <2>1. \E ids \in SUBSET DOMAIN m_peers :
          Schedule(ids, "PEER_WAS_DISCONNECTED")
    BY <1>2 DEF disconnectPeer, disconnectAll
  <2>2. "PEER_WAS_DISCONNECTED" \in DisconnectType
    BY DEF DisconnectType
  <2> QED
    BY <1>0, <2>1, <2>2, ScheduleCloses
<1>3. CASE UNCHANGED vars
  BY <1>3, UntouchedRefines DEF vars, nodeVars
<1>4. \/ UNCHANGED <<m_peers, m_connection_counter>> \/ UNCHANGED vars
      \/ Accept \/ Connected \/ disconnectAll
      \/ \E h \in Handles : disconnectPeer(h)
      \/ \E id \in Ids : ReceiveFrom(id) \/ Delete(id)
      \/ \E id \in Ids, len \in Lengths : SendTo(id, len)
  BY DEF Next, Listen, StopListening, setListener, SetBufferSize,
     AcceptNothing, CreateSocket, Dial, DialEnd, DialFailed, DialReported,
     allPeers,
     latestPeer, UsePeers, NetworkStep, KeepTable, nodeVars
<1> QED
  BY <1>0, <1>1, <1>2, <1>3, <1>4, DeleteRemoves, TransferRefines,
     UntouchedRefines

\* The connections, with their Sockets and descriptors, implement
\* ConnectionTable: receive() and send() close live connections only, and a
\* connection is deleted only after it was closed.
THEOREM ConnectionsImplementTable == Spec => ImplementsTable
<1>1. Init => Table!TableInit
  <2> SUFFICES ASSUME Init PROVE Table!TableInit
    OBVIOUS
  <2>1. m_connection_counter = 0 /\ \A id \in Ids : id > 0
    BY ConnectionsAssumption DEF Init, Ids
  <2>2. \A id \in Ids : StateOf(id) = "absent"
    BY <2>1, InitNodeInv, StateCases
  <2> QED
    BY <2>2 DEF Table!TableInit, StateOf
<1>2. NodeInv /\ [Next]_vars => [Table!TableNext]_(TableState)
  BY NextRefines DEF Refines
<1> QED
  BY <1>1, <1>2, AlwaysNodeInv, PTL
     DEF Spec, ImplementsTable, Table!TableSpec, TableState, StateOf

=============================================================================
