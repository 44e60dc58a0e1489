-------------------------- MODULE ConnectionsProofs ---------------------------
(***************************************************************************)
(* Sockets, descriptors and connections, for any number of them: who owns  *)
(* which descriptor, which Socket and which record on the heap, and what   *)
(* the flags of a Socket say of its descriptor.                            *)
(***************************************************************************)
EXTENDS Connections, FiniteSetTheorems, TLAPS

-----------------------------------------------------------------------------
(***************************************************************************)
(* The lowest free address or descriptor, and the last id.                 *)
(***************************************************************************)
\* The order of the naturals is well-founded.
Less == {ss \in Nat \X Nat : ss[1] < ss[2]}

\* A set of naturals that is not empty has a least element.
LEMMA LeastExists ==
  ASSUME NEW S, S \subseteq Nat, S # {}
  PROVE  \E x \in S : \A y \in S : x =< y
<1>1. IsWellFoundedOn(Less, Nat)
  BY NatLessThanWellFounded DEF OpToRel, Less
<1>2. PICK x \in S : \A y \in S : ~(<<y, x>> \in Less)
  BY <1>1, WFMin
<1>3. ASSUME NEW y \in S PROVE x =< y
  <2>1. <<y, x>> \notin Less /\ <<y, x>> \in Nat \X Nat
    BY <1>2
  <2>2. ~(y < x)
    BY <2>1 DEF Less
  <2> QED
    BY <2>2
<1> QED
  BY <1>3

\* It is the one that Min chooses.
LEMMA MinMember ==
  ASSUME NEW S, S \subseteq Nat, S # {}
  PROVE  Min(S) \in S
  BY LeastExists DEF Min

\* A set of ids that is not empty has a last one.
LEMMA MaxMember ==
  ASSUME NEW S, S \subseteq Ids, S # {}
  PROVE  Max(S) \in S
<1> DEFINE T == {MaxConnections - x : x \in S}
<1>1. \A x \in S : x \in Nat /\ MaxConnections - x \in Nat
  BY ConnectionsAssumption DEF Ids
<1>2. T \subseteq Nat /\ T # {}
  BY <1>1
<1>3. PICK n \in T : \A m \in T : n =< m
  BY <1>2, LeastExists
<1>4. PICK x \in S : n = MaxConnections - x
  OBVIOUS
<1>5. ASSUME NEW y \in S PROVE x >= y
  <2>1. MaxConnections - y \in T
    OBVIOUS
  <2>2. MaxConnections - x =< MaxConnections - y
    BY <1>3, <1>4, <2>1
  <2> QED
    BY <1>1, <2>2, ConnectionsAssumption
<1> QED
  BY <1>5 DEF Max

\* There is always an address for a record that takes the place of another:
\* there are as many addresses as Peers.
LEMMA RoomForRecord ==
  ASSUME RecordsOwned, m_private \in [Handles -> Records \cup {nullptr}],
         NEW h \in Handles
  PROVE  Records \ (allocated \ {m_private[h]}) # {}
<1> SUFFICES ASSUME Records \subseteq allocated \ {m_private[h]}
             PROVE  FALSE
  OBVIOUS
<1> DEFINE f == [x \in Handles |->
                   CHOOSE g \in Handles \ {h} : m_private[g] = x]
<1>1. ASSUME NEW x \in Handles
      PROVE  f[x] \in Handles \ {h} /\ m_private[f[x]] = x
  <2>1. x \in allocated \ {m_private[h]}
    BY PeerAssumption
  <2>2. \E g \in Handles \ {h} : m_private[g] = x
    BY <2>1 DEF RecordsOwned
  <2> QED
    BY <2>2
<1>2. f \in [Handles -> Handles \ {h}]
  BY <1>1
<1> HIDE DEF f
<1>3. /\ IsFiniteSet(Handles \ {h})
      /\ Cardinality(Handles \ {h}) = Cardinality(Handles) - 1
  BY FS_RemoveElement, PeerAssumption
<1>4. Cardinality(Handles \ {h}) < Cardinality(Handles)
  <2>1. Cardinality(Handles) \in Nat
    BY FS_CardinalityType, PeerAssumption
  <2> QED
    BY <1>3, <2>1
<1>5. PICK x, y \in Handles : x # y /\ f[x] = f[y]
  <2>1. IsFiniteSet(Handles)
    BY PeerAssumption
  <2>2. \A g \in [Handles -> Handles \ {h}] :
          \E x, y \in Handles : x # y /\ g[x] = g[y]
    BY <1>3, <1>4, <2>1, FS_PigeonHole
  <2> QED
    BY <1>2, <2>2
<1> QED
  BY <1>1, <1>5

-----------------------------------------------------------------------------
(***************************************************************************)
(* Descriptors.  A step of the node concerns one Socket o: it may give up  *)
(* the descriptor f and get a free one, while the Sockets in K, and their  *)
(* descriptors, stay as they are.  Free ones may be left blocking.         *)
(***************************************************************************)
SocketsTyped ==
  /\ objects \subseteq Objects
  /\ sock \in [Objects -> SocketRecord]
  /\ kernel \in [Descriptors -> KernelStates]
  /\ inbox \in [Descriptors -> 0 .. MaxBytes]
  /\ blocking \subseteq Descriptors
  /\ errno \in {0, 1}

SockStep(K, o, f) ==
  /\ K \subseteq objects /\ o \notin K
  /\ K \subseteq objects' /\ objects' \subseteq K \cup {o}
  /\ \A p \in K : sock'[p] = sock[p] /\ (fd(p) = f => f = -1)
  /\ \A p \in objects \ K : fd(p) \in {f, -1}
  /\ o \in objects' =>
       LET g == sock'[o].m_socket_fd
       IN  g # -1 => /\ g \in Descriptors /\ kernel'[g] # "closed"
                     /\ g = f \/ kernel[g] = "closed"
  /\ \A d \in Descriptors :
       (o \in objects' => d # sock'[o].m_socket_fd) =>
         \/ kernel'[d] = IF d = f THEN "closed" ELSE kernel[d]
         \/ d \in blocking' /\ (d = f \/ kernel[d] = "closed")
  /\ \A d \in Descriptors :
       d # f /\ kernel[d] # "closed" => (d \in blocking' <=> d \in blocking)
  /\ \A d \in blocking' : d \in Descriptors /\ kernel'[d] = "listening"

\* Such a step keeps every open descriptor with one Socket, or blocking.
LEMMA StepKeepsOwners ==
  ASSUME SocketsTyped, DescriptorsOwned, NEW K, NEW o, NEW f, SockStep(K, o, f)
  PROVE  DescriptorsOwned'
<1>1. ASSUME NEW p \in K
      PROVE  fd(p)' = fd(p) /\ (fd(p) # -1 => fd(p) \in Descriptors
                                           /\ kernel[fd(p)] # "closed"
                                           /\ fd(p) # f)
  BY DEF SockStep, SocketsTyped, SocketRecord, DescriptorsOwned, fd
<1>2. o \in objects' /\ fd(o)' # -1 =>
        \A p \in K : fd(p)' # fd(o)'
  BY <1>1 DEF SockStep, fd
<1>3. ASSUME NEW p \in objects' PROVE p \in K \/ p = o
  BY DEF SockStep
<1>4. ASSUME NEW p \in objects', fd(p)' # -1 PROVE kernel'[fd(p)'] # "closed"
  <2>1. CASE p = o
    BY <1>4, <2>1 DEF SockStep, fd
  <2>2. CASE p \in K
    <3>1. fd(p)' \in Descriptors /\ kernel[fd(p)'] # "closed" /\ fd(p)' # f
      BY <1>1, <1>4, <2>2
    <3>2. o \in objects' => fd(p)' # sock'[o].m_socket_fd
      BY <1>2, <1>4, <2>2 DEF fd
    <3>3. kernel'[fd(p)'] = kernel[fd(p)']
      BY <3>1, <3>2 DEF SockStep
    <3> QED
      BY <3>1, <3>3
  <2> QED
    BY <1>3, <2>1, <2>2
<1>5. ASSUME NEW p \in objects', NEW q \in objects',
             fd(p)' = fd(q)', fd(p)' # -1
      PROVE  p = q
  <2>1. CASE p \in K /\ q \in K
    BY <1>1, <1>5, <2>1 DEF DescriptorsOwned, SockStep
  <2> QED
    BY <1>2, <1>3, <1>5, <2>1
<1>6. ASSUME NEW d \in Descriptors, kernel'[d] # "closed"
      PROVE  d \in blocking' \/ \E p \in objects' : fd(p)' = d
  <2>1. CASE o \in objects' /\ d = sock'[o].m_socket_fd
    BY <2>1 DEF fd
  <2>2. CASE o \in objects' => d # sock'[o].m_socket_fd
    <3> SUFFICES ASSUME d \notin blocking' PROVE \E p \in objects' : fd(p)' = d
      OBVIOUS
    <3>1. d # f /\ kernel[d] # "closed"
      BY <1>6, <2>2 DEF SockStep
    <3>2. PICK p \in objects : fd(p) = d
      BY <3>1 DEF DescriptorsOwned, SockStep
    <3>3. p \in K
      BY <3>1, <3>2, SocketAssumption DEF SockStep
    <3> QED
      BY <1>1, <3>2, <3>3 DEF SockStep
  <2> QED
    BY <2>1, <2>2
<1>7. \A d \in blocking' : kernel'[d] = "listening"
  BY DEF SockStep
<1> QED
  BY <1>4, <1>5, <1>6, <1>7 DEF DescriptorsOwned

\* What socket() gives is free once the old descriptor is closed.
LEMMA NextFdFree ==
  ASSUME SocketsTyped, NEW o \in Objects, NextFd(o) # -1
  PROVE  /\ NextFd(o) \in Descriptors
         /\ NextFd(o) = fd(o) \/ kernel[NextFd(o)] = "closed"
<1> DEFINE S == FreeAfterClose(o)
<1>1. S \subseteq Nat /\ S \subseteq Descriptors
  BY SocketAssumption DEF SocketsTyped, SocketRecord, FreeAfterClose, Free, fd
<1>2. S # {} /\ NextFd(o) = Min(S)
  BY DEF NextFd, LowestFree
<1>3. NextFd(o) \in S
  BY <1>1, <1>2, MinMember
<1> QED
  BY <1>1, <1>3 DEF FreeAfterClose, Free

\* closeSocket(), with socket() after it or without, is such a step.
LEMMA ReopenStep ==
  ASSUME SocketsTyped, DescriptorsOwned, NEW o \in objects,
         NEW s, Set(o, s), NEW state \in KernelStates, Reopen(o, state),
         objects' = objects \/ objects' = objects \ {o},
         IF state = "closed" THEN s.m_socket_fd = -1
         ELSE s.m_socket_fd = NextFd(o) /\ NextFd(o) # -1
              /\ objects' = objects
  PROVE  /\ SockStep(objects \ {o}, o, fd(o))
         /\ sock' = [sock EXCEPT ![o] = s]
         /\ s.m_socket_fd # -1 => kernel'[s.m_socket_fd] = state
<1>1. /\ o \in Objects /\ sock'[o] = s
      /\ \A p \in objects \ {o} : sock'[p] = sock[p]
  BY DEF SocketsTyped, Set
<1>2. \A p \in objects \ {o} : fd(p) = fd(o) => fd(o) = -1
  BY DEF DescriptorsOwned
<1>3. state # "closed" => /\ NextFd(o) \in Descriptors
                          /\ NextFd(o) = fd(o) \/ kernel[NextFd(o)] = "closed"
  BY <1>1, NextFdFree
<1>4. \A d \in Descriptors :
        kernel'[d] = IF d = NextFd(o) /\ state # "closed" THEN state
                     ELSE IF d = fd(o) THEN "closed" ELSE kernel[d]
  BY DEF Reopen
<1>5. s.m_socket_fd # -1 => kernel'[s.m_socket_fd] = state
  BY <1>3, <1>4
<1>6. s.m_socket_fd # -1 => state # "closed"
  OBVIOUS
<1>7. state = "closed" => \A d \in Descriptors :
        kernel'[d] = IF d = fd(o) THEN "closed" ELSE kernel[d]
  BY <1>4
<1>8. state # "closed" => \A d \in Descriptors : d # s.m_socket_fd =>
        kernel'[d] = IF d = fd(o) THEN "closed" ELSE kernel[d]
  BY <1>4
<1>9. \A d \in Descriptors : (o \in objects' => d # sock'[o].m_socket_fd) =>
        kernel'[d] = IF d = fd(o) THEN "closed" ELSE kernel[d]
  BY <1>1, <1>7, <1>8
<1>10. blocking' = blocking \ {fd(o)}
  BY DEF Reopen
<1>11. \A d \in blocking' : d \in Descriptors /\ kernel'[d] = "listening"
  <2>1. ASSUME NEW d \in blocking'
        PROVE  d \in Descriptors /\ kernel[d] = "listening" /\ d # fd(o)
    BY <1>10 DEF DescriptorsOwned, SocketsTyped
  <2>2. ASSUME NEW d \in blocking' PROVE d # NextFd(o) \/ state = "closed"
    BY <1>3, <2>1
  <2> QED
    BY <1>4, <2>1, <2>2
<1> QED
  BY <1>1, <1>2, <1>3, <1>5, <1>6, <1>9, <1>10, <1>11 DEF SockStep, Set

\* So is a step that leaves the descriptors alone.
LEMMA QuietStep ==
  ASSUME SocketsTyped, DescriptorsOwned, NEW o \in objects,
         NEW s, Set(o, s), s.m_socket_fd = fd(o),
         UNCHANGED <<objects, kernel, blocking>>
  PROVE  /\ SockStep(objects \ {o}, o, fd(o))
         /\ sock' = [sock EXCEPT ![o] = s]
<1>1. /\ o \in Objects /\ sock'[o] = s
      /\ \A p \in objects \ {o} : sock'[p] = sock[p]
  BY DEF SocketsTyped, Set
<1>2. \A p \in objects \ {o} : fd(p) = fd(o) => fd(o) = -1
  BY DEF DescriptorsOwned
<1>3. fd(o) \in Descriptors \cup {-1}
  BY <1>1 DEF SocketsTyped, SocketRecord, fd
<1> QED
  BY <1>1, <1>2, <1>3 DEF SockStep, Set, DescriptorsOwned, SocketsTyped

\* There is a free address when not all are taken.
LEMMA NewObjectFree ==
  ASSUME SocketsTyped, RoomForObject
  PROVE  NewObject \in Objects \ objects
<1>1. Objects \ objects # {} /\ Objects \ objects \subseteq Nat
  BY SocketAssumption DEF SocketsTyped, RoomForObject
<1> QED
  BY <1>1, MinMember DEF NewObject

\* new Socket() is such a step.
LEMMA CreateStep ==
  ASSUME SocketsTyped, DescriptorsOwned, NEW o, Create(o)
  PROVE  SockStep(objects, o, -1) /\ sock' = [sock EXCEPT ![o] = NewSocket]
<1>1. o \in Objects \ objects /\ sock'[o] = NewSocket
      /\ \A p \in objects : sock'[p] = sock[p]
  BY DEF SocketsTyped, Create, Set
<1>2. sock'[o].m_socket_fd = -1
  BY <1>1 DEF NewSocket
<1>3. -1 \notin Descriptors
  BY SocketAssumption
<1>4. UNCHANGED <<kernel, blocking>> /\ objects' = objects \cup {o}
  BY DEF Create, kernelVars
<1>5. \A d \in blocking' : d \in Descriptors /\ kernel'[d] = "listening"
  BY <1>4 DEF SocketsTyped, DescriptorsOwned
<1>6. sock' = [sock EXCEPT ![o] = NewSocket]
  BY DEF Create, Set
<1> QED
  BY <1>1, <1>2, <1>3, <1>4, <1>5, <1>6 DEF SockStep

\* So is accept(), which gives a descriptor to the Socket it creates,
LEMMA AcceptStep ==
  ASSUME SocketsTyped, DescriptorsOwned, NEW l \in objects, NEW o, accept(l, o)
  PROVE  /\ SockStep(objects, o, -1)
         /\ sock'[o].m_socket_fd \in Descriptors
         /\ kernel'[sock'[o].m_socket_fd] = "established"
<1> DEFINE d == LowestFree(Free)
<1>1. Free \subseteq Nat /\ Free # {}
  BY SocketAssumption DEF Free, accept
<1>2. d \in Descriptors /\ kernel[d] = "closed"
  <2>1. d = Min(Free)
    BY <1>1 DEF LowestFree
  <2>2. d \in Free
    BY <1>1, <2>1, MinMember
  <2> QED
    BY <2>2 DEF Free
<1> HIDE DEF d
<1>3. /\ o \in Objects \ objects /\ objects' = objects \cup {o}
      /\ sock'[o].m_socket_fd = d
      /\ \A p \in objects : sock'[p] = sock[p]
  BY DEF SocketsTyped, accept, Set, NewSocket, d
<1>4. kernel' = [kernel EXCEPT ![d] = "established"]
  BY DEF accept, d
<1>5. /\ kernel'[d] = "established"
      /\ \A e \in Descriptors \ {d} : kernel'[e] = kernel[e]
  BY <1>2, <1>4 DEF SocketsTyped
<1>6. -1 \notin Descriptors
  BY SocketAssumption
<1>7. blocking' = blocking
  BY DEF accept
<1>8. \A e \in blocking' : e \in Descriptors /\ kernel'[e] = "listening"
  BY <1>2, <1>5, <1>7 DEF SocketsTyped, DescriptorsOwned
<1> QED
  BY <1>2, <1>3, <1>5, <1>6, <1>7, <1>8 DEF SockStep

\* and setListener(), which deletes one Socket and creates another.
LEMMA ReplaceStep ==
  ASSUME SocketsTyped, DescriptorsOwned, m_listener \in objects, setListener
  PROVE  /\ SockStep(objects \ {m_listener}, NewObject, fd(m_listener))
         /\ NewObject \in Objects \ objects
         /\ objects' = (objects \ {m_listener}) \cup {NewObject}
         /\ sock'[NewObject] = NewSocket
<1>1. NewObject \in Objects \ objects
  BY NewObjectFree DEF setListener
<1> DEFINE n == NewObject
<1> HIDE DEF n
<1>2. /\ objects' = (objects \ {m_listener}) \cup {n}
      /\ sock'[n] = NewSocket
      /\ \A p \in objects \ {m_listener} : sock'[p] = sock[p]
  BY <1>1 DEF SocketsTyped, setListener, n
<1>3. \A d \in Descriptors :
        kernel'[d] = IF d = fd(m_listener) THEN "closed" ELSE kernel[d]
  BY DEF setListener, Reopen
<1>4. \A p \in objects \ {m_listener} : fd(p) = fd(m_listener) => fd(p) = -1
  BY DEF DescriptorsOwned
<1>5. sock'[n].m_socket_fd = -1
  BY <1>2 DEF NewSocket
<1>7. blocking' = blocking \ {fd(m_listener)}
  BY DEF setListener, Reopen
<1>8. \A d \in blocking' : d \in Descriptors /\ kernel'[d] = "listening"
  BY <1>3, <1>7 DEF SocketsTyped, DescriptorsOwned
<1>6. SockStep(objects \ {m_listener}, n, fd(m_listener))
  BY <1>1, <1>2, <1>3, <1>4, <1>5, <1>7, <1>8 DEF SockStep, n
<1> QED
  BY <1>1, <1>2, <1>6 DEF n

-----------------------------------------------------------------------------
(***************************************************************************)
(* Flags.                                                                  *)
(***************************************************************************)
\* FlagsAgree, for one Socket.
Agrees(o) ==
  LET s == sock[o]
      listening == fd(o) # -1 /\ kernel[fd(o)] = "listening"
  IN  /\ s.m_is_listener = s.m_is_listening
      /\ s.m_is_listener <=> listening /\ fd(o) \notin blocking
      /\ listening => o = m_listener
      /\ s.m_is_connected => fd(o) # -1 /\ o # m_listener
      /\ o = new_peer /\ dial = "waiting" => fd(o) # -1
      /\ fd(o) # -1 =>
           \/ listening
           \/ s.m_is_connected
           \/ o = new_peer /\ dial = "waiting"
      /\ \A id \in DOMAIN m_peers :
           o = m_peers[id].m_socket =>
             s.m_is_connected \/ m_peers[id].m_to_be_deleted

\* The entry of a Socket in the table after a step was there before it, or the
\* Socket is connected.
EntryKept(o) ==
  \A id \in DOMAIN m_peers' :
    o = m_peers'[id].m_socket =>
      \/ sock[o].m_is_connected
      \/ /\ id \in DOMAIN m_peers /\ o = m_peers[id].m_socket
         /\ m_peers[id].m_to_be_deleted => m_peers'[id].m_to_be_deleted

\* A Socket that a step leaves alone, and leaves in its role, keeps agreeing.
LEMMA KeptAgrees ==
  ASSUME SocketsTyped, DescriptorsOwned, FlagsAgree,
         NEW K, NEW o, NEW f, SockStep(K, o, f), NEW p \in K,
         p = m_listener' <=> p = m_listener,
         p = new_peer' /\ dial' = "waiting"
           <=> p = new_peer /\ dial = "waiting",
         EntryKept(p)
  PROVE  Agrees(p)'
<1>1. p \in objects /\ sock'[p] = sock[p] /\ (fd(p) = f => f = -1)
  BY DEF SockStep
<1>2. fd(p)' = fd(p)
  BY <1>1 DEF fd
<1>3. fd(p) # -1 => /\ kernel'[fd(p)] = kernel[fd(p)]
                    /\ fd(p) \in blocking' <=> fd(p) \in blocking
  <2> SUFFICES ASSUME fd(p) # -1
               PROVE  /\ kernel'[fd(p)] = kernel[fd(p)]
                      /\ fd(p) \in blocking' <=> fd(p) \in blocking
    OBVIOUS
  <2>1. fd(p) \in Descriptors /\ kernel[fd(p)] # "closed" /\ fd(p) # f
    BY <1>1 DEF SocketsTyped, SocketRecord, DescriptorsOwned, fd
  <2>2. o \in objects' => fd(p) # sock'[o].m_socket_fd
    BY <2>1 DEF SockStep
  <2> QED
    BY <2>1, <2>2 DEF SockStep
<1>4. Agrees(p)
  BY <1>1 DEF FlagsAgree, Agrees
<1>5. /\ sock'[p].m_is_listener <=>
           fd(p)' # -1 /\ kernel'[fd(p)'] = "listening"
             /\ fd(p)' \notin blocking'
      /\ fd(p)' # -1 => kernel'[fd(p)'] = kernel[fd(p)]
  BY <1>1, <1>2, <1>3, <1>4 DEF Agrees
<1>6. ASSUME NEW id \in DOMAIN m_peers', p = m_peers'[id].m_socket
      PROVE  sock'[p].m_is_connected \/ m_peers'[id].m_to_be_deleted
  BY <1>1, <1>4, <1>6 DEF Agrees, EntryKept
<1> QED
  BY <1>1, <1>2, <1>4, <1>5, <1>6 DEF Agrees

\* A step in which all Sockets agree afterwards.
LEMMA AllAgree ==
  ASSUME \A o \in objects' : Agrees(o)'
  PROVE  FlagsAgree'
  BY DEF FlagsAgree, Agrees

-----------------------------------------------------------------------------
(***************************************************************************)
(* The inductive invariant of the node's side: what the connect thread     *)
(* knows of the Socket it dials, and what an entry of the table is.        *)
(***************************************************************************)
DialOK ==
  /\ dial = "off" <=> new_peer = nullptr
  /\ dial \in {"created", "failed", "reporting"} => fd(new_peer) = -1
  /\ dial = "waiting" => errno # 0
  /\ dial = "failed" => sock[new_peer].m_last_errno # 0
  /\ dial = "done" => sock[new_peer].m_is_connected

TableOK ==
  \A id \in DOMAIN m_peers :
    /\ id <= m_connection_counter
    /\ m_peers[id].m_connection_id = id
    /\ m_peers[id].m_valid
    /\ m_peers[id].m_socket \in Objects

NodeTyped ==
  /\ m_listener \in Objects
  /\ new_peer \in Objects \cup {nullptr}
  /\ dial \in {"off", "created", "waiting", "failed", "reporting", "done"}
  /\ DOMAIN m_peers \subseteq Ids
  /\ \A id \in DOMAIN m_peers : m_peers[id] \in PeerRecord
  /\ m_connection_counter \in Ids \cup {0}

NodeInv ==
  /\ SocketsTyped /\ NodeTyped /\ DialOK /\ TableOK
  /\ DescriptorsOwned /\ SocketsOwned /\ FlagsAgree

\* The table keeps its entries and their Sockets; an entry is scheduled for
\* deletion at most.
EntriesKept ==
  /\ DOMAIN m_peers' = DOMAIN m_peers
  /\ \A id \in DOMAIN m_peers :
       /\ m_peers'[id] \in PeerRecord
       /\ m_peers'[id].m_socket = m_peers[id].m_socket
       /\ m_peers'[id].m_connection_id = m_peers[id].m_connection_id
       /\ m_peers'[id].m_valid = m_peers[id].m_valid
       /\ m_peers[id].m_to_be_deleted => m_peers'[id].m_to_be_deleted
  /\ UNCHANGED m_connection_counter

\* Entries that are kept keep the table in order.
LEMMA EntriesKeepTable ==
  ASSUME TableOK, EntriesKept
  PROVE  TableOK' /\ TableSockets' = TableSockets
  BY DEF TableOK, EntriesKept, TableSockets

\* scheduleDelete() keeps the entries.
LEMMA ScheduleKeeps ==
  ASSUME NodeTyped, NEW ids, NEW type \in DisconnectType, Schedule(ids, type)
  PROVE  EntriesKept
<1>1. ASSUME NEW id \in DOMAIN m_peers
      PROVE  m_peers'[id] = IF id \in ids THEN Scheduled(m_peers[id], type)
                                          ELSE m_peers[id]
  BY DEF Schedule
<1>2. ASSUME NEW r \in PeerRecord
      PROVE  /\ Scheduled(r, type) \in PeerRecord
             /\ Scheduled(r, type).m_socket = r.m_socket
             /\ Scheduled(r, type).m_connection_id = r.m_connection_id
             /\ Scheduled(r, type).m_valid = r.m_valid
             /\ Scheduled(r, type).m_to_be_deleted = TRUE
  BY DEF PeerRecord, Scheduled
<1>3. DOMAIN m_peers' = DOMAIN m_peers /\ UNCHANGED m_connection_counter
  BY DEF Schedule
<1> QED
  BY <1>1, <1>2, <1>3 DEF EntriesKept, NodeTyped

\* An operation on one Socket, with the table kept, keeps the invariant when
\* the Socket itself is in order afterwards.
LEMMA OperationKeepsInv ==
  ASSUME NodeInv, NEW o \in objects, SockStep(objects \ {o}, o, fd(o)),
         SocketsTyped', UNCHANGED <<objects, m_listener, new_peer>>,
         EntriesKept,
         \/ UNCHANGED dial
         \/ /\ o = new_peer
            /\ dial' \in {"created", "waiting", "failed", "reporting", "done"},
         DialOK', Agrees(o)'
  PROVE  NodeInv'
<1> USE DEF NodeInv
<1>1. NodeTyped'
  BY DEF NodeTyped, EntriesKept
<1>2. TableOK' /\ TableSockets' = TableSockets
  BY EntriesKeepTable
<1>3. DescriptorsOwned'
  BY StepKeepsOwners
<1>4. SocketsOwned'
  BY <1>2 DEF SocketsOwned, EntriesKept
<1>5. FlagsAgree'
  <2>1. ASSUME NEW p \in objects \ {o} PROVE EntryKept(p)
    BY DEF EntryKept, EntriesKept
  <2>2. ASSUME NEW p \in objects \ {o} PROVE Agrees(p)'
    BY <2>1, KeptAgrees
  <2> QED
    BY <2>2, AllAgree
<1> QED
  BY <1>1, <1>2, <1>3, <1>4, <1>5

\* The members of a Socket that was closed.
LEMMA ClosedRecord ==
  ASSUME NEW s \in SocketRecord
  PROVE  /\ Closed(s) \in SocketRecord
         /\ Closed(s).m_socket_fd = -1
         /\ Closed(s).m_is_listener = FALSE /\ Closed(s).m_is_listening = FALSE
         /\ Closed(s).m_is_connected = FALSE
         /\ Closed(s).m_last_errno = s.m_last_errno
  BY DEF SocketRecord, Closed

\* A descriptor that is closed or opened has a state.
LEMMA ReopenTyped ==
  ASSUME SocketsTyped, NEW o, NEW state \in KernelStates, Reopen(o, state)
  PROVE  /\ kernel' \in [Descriptors -> KernelStates]
         /\ inbox' \in [Descriptors -> 0 .. MaxBytes]
         /\ blocking' \subseteq Descriptors
<1>1. "closed" \in KernelStates /\ 0 \in 0 .. MaxBytes
  BY SocketAssumption DEF KernelStates
<1>2. kernel' \in [Descriptors -> KernelStates]
  BY <1>1 DEF SocketsTyped, Reopen
<1>3. inbox' \in [Descriptors -> 0 .. MaxBytes]
  BY <1>1 DEF SocketsTyped, Reopen
<1>4. blocking' \subseteq Descriptors
  BY DEF SocketsTyped, Reopen
<1> QED
  BY <1>2, <1>3, <1>4

\* An operation that reopens a descriptor, or leaves all alone, keeps types.
LEMMA OperationTyped ==
  ASSUME SocketsTyped, NEW o, NEW s \in SocketRecord, Set(o, s),
         objects' \subseteq Objects, errno' \in {0, 1},
         \/ \E state \in KernelStates : Reopen(o, state)
         \/ UNCHANGED kernelVars
  PROVE  SocketsTyped'
<1>1. sock' \in [Objects -> SocketRecord]
  BY DEF SocketsTyped, Set
<1> QED
  BY <1>1, ReopenTyped DEF SocketsTyped, kernelVars

\* A Socket with no descriptor and no flag agrees with it, and so does one in
\* the table that is scheduled for deletion.
LEMMA ClosedAgrees ==
  ASSUME NEW o, sock'[o].m_is_listener = FALSE,
         sock'[o].m_is_listening = FALSE, ~sock'[o].m_is_connected,
         sock'[o].m_socket_fd = -1,
         ~(o = new_peer' /\ dial' = "waiting"),
         \A id \in DOMAIN m_peers' : o = m_peers'[id].m_socket =>
           m_peers'[id].m_to_be_deleted
  PROVE  Agrees(o)'
  BY DEF Agrees, fd

-----------------------------------------------------------------------------
(***************************************************************************)
(* The listener.                                                           *)
(***************************************************************************)
\* The listener is a Socket of its own.
LEMMA ListenerAlone ==
  ASSUME NodeInv
  PROVE  /\ m_listener \in objects /\ m_listener \in Objects
         /\ sock[m_listener] \in SocketRecord
         /\ m_listener # new_peer
         /\ \A id \in DOMAIN m_peers : m_peers[id].m_socket # m_listener
         /\ sock[m_listener].m_is_connected = FALSE
<1>1. m_listener \in objects /\ m_listener # new_peer
      /\ \A id \in DOMAIN m_peers : m_peers[id].m_socket # m_listener
  BY DEF NodeInv, SocketsOwned, TableSockets
<1>2. m_listener \in Objects /\ sock[m_listener] \in SocketRecord
  BY <1>1 DEF NodeInv, SocketsTyped
<1>3. ~sock[m_listener].m_is_connected
  BY <1>1 DEF NodeInv, FlagsAgree
<1> QED
  BY <1>1, <1>2, <1>3 DEF SocketRecord

\* An operation on the listener leaves what is dialled alone.
LEMMA ListenerOperation ==
  ASSUME NodeInv, SockStep(objects \ {m_listener}, m_listener, fd(m_listener)),
         SocketsTyped', UNCHANGED <<objects, errno>>, UNCHANGED nodeVars,
         Agrees(m_listener)'
  PROVE  NodeInv'
<1>1. EntriesKept
  BY DEF EntriesKept, nodeVars, NodeInv, NodeTyped
<1>2. new_peer # nullptr => sock'[new_peer] = sock[new_peer]
  BY ListenerAlone DEF SockStep, NodeInv, SocketsOwned
<1>3. DialOK'
  BY <1>2 DEF NodeInv, DialOK, nodeVars, fd
<1> QED
  BY <1>1, <1>3, ListenerAlone, OperationKeepsInv DEF nodeVars

\* listen() is a step on the listener: every descriptor it opens is free once
\* the old one is closed, and it keeps the last or none.
LEMMA ListenStep ==
  ASSUME SocketsTyped, DescriptorsOwned, NEW o \in objects,
         NEW port, NEW stuck \in SUBSET Descriptors,
         NEW last \in Descriptors \cup {-1}, NEW reported,
         listen(o, port, stuck, last, reported)
  PROVE  /\ SockStep(objects \ {o}, o, fd(o))
         /\ sock'[o].m_socket_fd = last
         /\ last # -1 => /\ kernel'[last] = "listening"
                         /\ last \in blocking' <=> last \in stuck
<1> DEFINE opened == stuck \cup ({last} \ {-1})
<1>1. /\ o \in Objects /\ sock'[o].m_socket_fd = last
      /\ objects' = objects
      /\ \A p \in objects \ {o} : sock'[p] = sock[p]
  BY ClosedRecord DEF SocketsTyped, listen, Set, SocketRecord
<1>2. \A p \in objects \ {o} : fd(p) = fd(o) => fd(o) = -1
  BY DEF DescriptorsOwned
<1>3. \A d \in opened : /\ d \in Descriptors
                        /\ d = fd(o) \/ kernel[d] = "closed"
  BY <1>1 DEF listen, Opened, FreeAfterClose, Free, SocketsTyped, SocketRecord
<1>4. /\ \A d \in opened : kernel'[d] = "listening"
      /\ \A d \in Descriptors \ opened :
           kernel'[d] = IF d = fd(o) THEN "closed" ELSE kernel[d]
  <2>1. kernel' = ListenKernel(o, opened)
    BY DEF listen
  <2> QED
    BY <1>3, <2>1 DEF ListenKernel
<1>5. blocking' = (blocking \ {fd(o)}) \cup stuck
  BY DEF listen
<1>6. last # -1 => last \in opened
  OBVIOUS
<1>7. \A d \in opened : d # last => d \in stuck
  OBVIOUS
<1>8. stuck \subseteq opened
  OBVIOUS
<1> HIDE DEF opened
<1>9. ASSUME NEW d \in blocking'
      PROVE  d \in Descriptors /\ kernel'[d] = "listening"
  <2>1. CASE d \in opened
    BY <1>3, <1>4, <2>1
  <2>2. CASE d \notin opened
    <3>1. d \in blocking /\ d # fd(o)
      BY <1>5, <1>8, <2>2
    <3>2. d \in Descriptors /\ kernel[d] = "listening"
      BY <3>1 DEF SocketsTyped, DescriptorsOwned
    <3> QED
      BY <1>4, <2>2, <3>1, <3>2
  <2> QED
    BY <2>1, <2>2
<1>10. ASSUME NEW d \in Descriptors, d # fd(o), kernel[d] # "closed"
       PROVE  d \in blocking' <=> d \in blocking
  BY <1>3, <1>5, <1>8, <1>10
<1>11. ASSUME NEW d \in Descriptors, d # last
       PROVE  \/ kernel'[d] = IF d = fd(o) THEN "closed" ELSE kernel[d]
              \/ d \in blocking' /\ (d = fd(o) \/ kernel[d] = "closed")
  <2>1. CASE d \in opened
    BY <1>3, <1>5, <1>7, <1>11, <2>1
  <2>2. CASE d \notin opened
    BY <1>4, <2>2
  <2> QED
    BY <2>1, <2>2
<1>12. last # -1 => /\ last \in Descriptors /\ kernel'[last] = "listening"
                    /\ last = fd(o) \/ kernel[last] = "closed"
  BY <1>3, <1>4, <1>6
<1>13. last # -1 => (last \in blocking' <=> last \in stuck)
  BY <1>5, <1>12 DEF DescriptorsOwned
<1>14. SockStep(objects \ {o}, o, fd(o))
  BY <1>1, <1>2, <1>9, <1>10, <1>11, <1>12 DEF SockStep
<1> QED
  BY <1>1, <1>12, <1>13, <1>14

\* listen()
LEMMA ListenKeepsInv ==
  ASSUME NodeInv, NEW port \in Ports, NEW stuck \in SUBSET Descriptors,
         NEW last \in Descriptors \cup {-1}, NEW reported \in BOOLEAN,
         Listen(port, stuck, last, reported)
  PROVE  NodeInv'
<1>0. PICK o : o = m_listener
  OBVIOUS
<1> DEFINE success == last \notin stuck \cup {-1}
<1>1. /\ o \in objects /\ o \in Objects /\ sock[o] \in SocketRecord
      /\ SocketsTyped /\ DescriptorsOwned
  BY <1>0, ListenerAlone DEF NodeInv
<1>2. /\ listen(o, port, stuck, last, reported) /\ UNCHANGED nodeVars
      /\ UNCHANGED <<objects, errno>>
  BY <1>0 DEF Listen, nodeVars, KeepDial, KeepTable, listen
<1>3. PICK e \in {0, 1} : e = ListenErrno(o, port, success, reported)
  <2>1. sock[o].m_last_errno \in {0, 1}
    BY <1>1 DEF SocketRecord
  <2> QED
    BY <2>1 DEF ListenErrno, Errno
<1> DEFINE s == [Closed(sock[o]) EXCEPT
                   !.m_socket_fd = last, !.m_is_listener = success,
                   !.m_is_listening = success, !.m_last_errno = e]
<1>4. sock' = [sock EXCEPT ![o] = s]
  BY <1>2, <1>3 DEF listen, Set
<1>5. /\ s \in SocketRecord /\ s.m_is_connected = FALSE
      /\ s.m_is_listener = success /\ s.m_is_listening = success
      /\ s.m_socket_fd = last
  BY <1>1, <1>3, ClosedRecord DEF SocketRecord
<1> HIDE DEF s
<1>6. /\ SockStep(objects \ {o}, o, fd(o))
      /\ last # -1 => /\ kernel'[last] = "listening"
                      /\ last \in blocking' <=> last \in stuck
  BY <1>1, <1>2, ListenStep
<1>7. sock'[o] = s
  BY <1>1, <1>4 DEF SocketsTyped
<1>8. SocketsTyped'
  <2>1. kernel' \in [Descriptors -> KernelStates]
    <3>1. kernel' = ListenKernel(o, stuck \cup ({last} \ {-1}))
      BY <1>2 DEF listen
    <3> QED
      BY <1>1, <3>1 DEF ListenKernel, SocketsTyped, KernelStates
  <2>2. /\ inbox' \in [Descriptors -> 0 .. MaxBytes]
        /\ blocking' \subseteq Descriptors
    BY <1>1, <1>2, SocketAssumption DEF listen, SocketsTyped
  <2> QED
    BY <1>1, <1>2, <1>4, <1>5, <2>1, <2>2 DEF SocketsTyped
<1>9. \A id \in DOMAIN m_peers' : m_peers'[id].m_socket # o
  BY <1>0, <1>2, ListenerAlone DEF nodeVars
<1>10. o # new_peer' /\ o = m_listener'
  BY <1>0, <1>2, ListenerAlone DEF nodeVars
<1>11. Agrees(o)'
  <2>1. CASE last = -1
    BY <1>5, <1>7, <1>9, <1>10, <2>1, ClosedAgrees
  <2>2. CASE last # -1
    BY <1>5, <1>6, <1>7, <1>9, <1>10, <2>2 DEF Agrees, fd
  <2> QED
    BY <2>1, <2>2
<1> QED
  BY <1>0, <1>2, <1>6, <1>8, <1>10, <1>11, ListenerOperation

\* close() of the listener
LEMMA StopKeepsInv ==
  ASSUME NodeInv, StopListening
  PROVE  NodeInv'
<1> DEFINE o == m_listener
           s == Closed(sock[o])
<1>1. /\ o \in objects /\ o \in Objects /\ sock[o] \in SocketRecord
      /\ SocketsTyped /\ DescriptorsOwned
  BY ListenerAlone DEF NodeInv
<1>2. /\ Set(o, s) /\ Reopen(o, "closed") /\ UNCHANGED <<objects, errno>>
      /\ UNCHANGED nodeVars
  BY DEF StopListening, close, nodeVars, KeepDial, KeepTable
<1>3. s \in SocketRecord /\ s.m_socket_fd = -1
  BY <1>1, ClosedRecord
<1>4. SockStep(objects \ {o}, o, fd(o)) /\ sock'[o] = s
  BY <1>1, <1>2, <1>3, ReopenStep DEF KernelStates, SocketsTyped
<1>5. SocketsTyped'
  BY <1>1, <1>2, <1>3, OperationTyped DEF SocketsTyped, KernelStates
<1>6. Agrees(o)'
  BY <1>1, <1>2, <1>4, ListenerAlone, ClosedRecord, ClosedAgrees DEF nodeVars
<1> QED
  BY <1>2, <1>4, <1>5, <1>6, ListenerOperation

\* setReceiveBufferSize(), and accept() that gives nothing: flags and
\* descriptor stay
LEMMA QuietKeepsInv ==
  ASSUME NodeInv,
         (\E size \in Sizes : SetBufferSize(size)) \/ AcceptNothing
  PROVE  NodeInv'
<1> DEFINE o == m_listener
<1>1. /\ o \in objects /\ o \in Objects /\ sock[o] \in SocketRecord
      /\ SocketsTyped /\ DescriptorsOwned /\ Agrees(o)
  BY ListenerAlone DEF NodeInv, FlagsAgree, Agrees
<1>2. PICK s \in SocketRecord :
        /\ Set(o, s)
        /\ s.m_socket_fd = sock[o].m_socket_fd
        /\ s.m_is_listener = sock[o].m_is_listener
        /\ s.m_is_listening = sock[o].m_is_listening
        /\ s.m_is_connected = sock[o].m_is_connected
  <2> SUFFICES ASSUME NEW s, s \in SocketRecord, Set(o, s),
                      \/ \E size \in Sizes : s = [sock[o] EXCEPT
                           !.m_receive_buffer_size = size]
                      \/ s = [sock[o] EXCEPT !.m_last_errno = 0]
               PROVE  /\ s.m_socket_fd = sock[o].m_socket_fd
                      /\ s.m_is_listener = sock[o].m_is_listener
                      /\ s.m_is_listening = sock[o].m_is_listening
                      /\ s.m_is_connected = sock[o].m_is_connected
    <3>1. ASSUME NEW size \in Sizes, SetBufferSize(size)
          PROVE  /\ [sock[o] EXCEPT !.m_receive_buffer_size = size]
                      \in SocketRecord
                 /\ Set(o, [sock[o] EXCEPT !.m_receive_buffer_size = size])
      BY <1>1, <3>1 DEF SetBufferSize, setReceiveBufferSize, SocketRecord
    <3>2. ASSUME AcceptNothing
          PROVE  /\ [sock[o] EXCEPT !.m_last_errno = 0] \in SocketRecord
                 /\ Set(o, [sock[o] EXCEPT !.m_last_errno = 0])
      BY <1>1, <3>2 DEF AcceptNothing, AcceptFailed, SocketRecord
    <3> QED
      BY <3>1, <3>2
  <2> QED
    BY <1>1 DEF SocketRecord
<1>3. /\ UNCHANGED <<objects, kernelVars, errno>> /\ UNCHANGED nodeVars
      /\ UNCHANGED <<objects, kernel, blocking>>
  BY DEF SetBufferSize, setReceiveBufferSize, AcceptNothing, AcceptFailed,
     nodeVars, KeepDial, KeepTable, kernelVars
<1>4. SockStep(objects \ {o}, o, fd(o)) /\ sock'[o] = s
  <2>1. /\ SockStep(objects \ {o}, o, fd(o))
        /\ sock' = [sock EXCEPT ![o] = s]
    BY <1>1, <1>2, <1>3, QuietStep DEF fd
  <2> QED
    BY <1>1, <2>1 DEF SocketsTyped
<1>5. SocketsTyped'
  BY <1>1, <1>2, <1>3, OperationTyped DEF SocketsTyped
<1>6. Agrees(o)'
  BY <1>1, <1>2, <1>3, <1>4, ListenerAlone DEF Agrees, nodeVars, fd
<1> QED
  BY <1>3, <1>4, <1>5, <1>6, ListenerOperation

-----------------------------------------------------------------------------
(***************************************************************************)
(* The Socket that is dialled.                                             *)
(***************************************************************************)
\* It is a Socket of its own, too, and not a listener.
LEMMA DialAlone ==
  ASSUME NodeInv, dial # "off"
  PROVE  /\ new_peer \in objects /\ new_peer \in Objects
         /\ sock[new_peer] \in SocketRecord
         /\ new_peer # m_listener /\ new_peer # nullptr
         /\ \A id \in DOMAIN m_peers : m_peers[id].m_socket # new_peer
         /\ sock[new_peer].m_is_listener = FALSE
         /\ sock[new_peer].m_is_listening = FALSE
         /\ fd(new_peer) # -1 => kernel[fd(new_peer)] # "listening"
<1>1. new_peer # nullptr
  BY DEF NodeInv, DialOK
<1>2. new_peer \in objects /\ new_peer # m_listener
      /\ \A id \in DOMAIN m_peers : m_peers[id].m_socket # new_peer
  BY <1>1 DEF NodeInv, SocketsOwned, TableSockets
<1>3. new_peer \in Objects /\ sock[new_peer] \in SocketRecord
  BY <1>2 DEF NodeInv, SocketsTyped
<1>4. Agrees(new_peer)
  BY <1>2 DEF NodeInv, FlagsAgree, Agrees
<1>5. ~sock[new_peer].m_is_listener
  BY <1>2, <1>4 DEF Agrees
<1> QED
  BY <1>1, <1>2, <1>3, <1>4, <1>5 DEF Agrees, SocketRecord

\* An operation on it leaves it connected, waiting or closed.
LEMMA DialOperation ==
  ASSUME NodeInv, dial # "off",
         SockStep(objects \ {new_peer}, new_peer, fd(new_peer)),
         SocketsTyped', UNCHANGED <<objects, m_listener, new_peer>>, KeepTable,
         sock'[new_peer].m_is_listener = FALSE,
         sock'[new_peer].m_is_listening = FALSE,
         \/ /\ dial' = "failed" /\ sock'[new_peer].m_socket_fd = -1
            /\ sock'[new_peer].m_is_connected = FALSE
            /\ sock'[new_peer].m_last_errno # 0
         \/ /\ dial' \in {"waiting", "done"}
            /\ sock'[new_peer].m_socket_fd # -1
            /\ kernel'[sock'[new_peer].m_socket_fd] # "listening"
            /\ dial' = "done" => sock'[new_peer].m_is_connected
            /\ dial' = "waiting" => errno' # 0
  PROVE  NodeInv'
<1>1. EntriesKept
  BY DEF EntriesKept, KeepTable, NodeInv, NodeTyped
<1>2. DialOK'
  BY DialAlone DEF DialOK, fd
<1>3. \A id \in DOMAIN m_peers' : m_peers'[id].m_socket # new_peer'
  BY DialAlone DEF KeepTable
<1>4. Agrees(new_peer)'
  BY <1>3, DialAlone DEF Agrees, fd
<1> QED
  BY <1>1, <1>2, <1>4, DialAlone, OperationKeepsInv

\* connect() that fails leaves an errno: close() sets one, or there was one.
LEMMA ConnectFailedKeepsInv ==
  ASSUME NodeInv, dial # "off", NEW d, NEW e \in {0, 1}, d = -1 \/ e # 0,
         ConnectFailed(new_peer, d, e), dial' = "failed",
         UNCHANGED <<m_listener, new_peer>>, KeepTable
  PROVE  NodeInv'
<1> DEFINE o == new_peer
           s == [Closed(sock[o]) EXCEPT !.m_last_errno = 1]
<1>1. /\ o \in objects /\ o \in Objects /\ sock[o] \in SocketRecord
      /\ SocketsTyped /\ DescriptorsOwned
  BY DialAlone DEF NodeInv
<1>2. CloseErrno(d, e) = 1
  BY DEF CloseErrno
<1>3. /\ Set(o, s) /\ Reopen(o, "closed") /\ UNCHANGED objects
      /\ errno' \in {0, 1}
  BY <1>2 DEF ConnectFailed
<1>4. /\ s \in SocketRecord /\ s.m_socket_fd = -1 /\ s.m_last_errno = 1
      /\ s.m_is_connected = FALSE /\ s.m_is_listener = FALSE
      /\ s.m_is_listening = FALSE
  BY <1>1, ClosedRecord DEF SocketRecord
<1> HIDE DEF s
<1>5. "closed" \in KernelStates
  BY DEF KernelStates
<1>6. SockStep(objects \ {o}, o, fd(o)) /\ sock' = [sock EXCEPT ![o] = s]
  BY <1>1, <1>3, <1>4, <1>5, ReopenStep
<1>7. SocketsTyped'
  BY <1>1, <1>3, <1>4, <1>5, OperationTyped DEF SocketsTyped
<1>8. sock'[o] = s
  BY <1>1, <1>6 DEF SocketsTyped
<1>9. 1 # 0
  OBVIOUS
<1> QED
  BY <1>3, <1>4, <1>6, <1>7, <1>8, <1>9, DialOperation

\* connect() that gets a descriptor
LEMMA ConnectBegunKeepsInv ==
  ASSUME NodeInv, dial # "off", NEW state \in {"established", "connecting"},
         ConnectBegun(new_peer, state),
         dial' = IF state = "established" THEN "done" ELSE "waiting",
         UNCHANGED <<m_listener, new_peer>>, KeepTable
  PROVE  NodeInv'
<1> DEFINE o == new_peer
           s == [Closed(sock[o]) EXCEPT
                   !.m_socket_fd = NextFd(o),
                   !.m_is_connected = (state = "established"),
                   !.m_last_errno = IF state = "established" THEN 0 ELSE @]
<1>1. /\ o \in objects /\ o \in Objects /\ sock[o] \in SocketRecord
      /\ SocketsTyped /\ DescriptorsOwned
  BY DialAlone DEF NodeInv
<1>2. /\ Set(o, s) /\ Reopen(o, state) /\ UNCHANGED objects
      /\ NextFd(o) # -1 /\ errno' \in {0, 1}
      /\ state = "connecting" => errno' # 0
  BY <1>1 DEF ConnectBegun, CloseErrno, SocketsTyped
<1>3. NextFd(o) \in Descriptors
  BY <1>1, <1>2, NextFdFree
<1>4. /\ s \in SocketRecord /\ s.m_socket_fd = NextFd(o)
      /\ s.m_is_listener = FALSE /\ s.m_is_listening = FALSE
      /\ state = "established" => s.m_is_connected
  <2>1. CASE state = "established"
    BY <1>1, <1>3, <2>1, ClosedRecord DEF SocketRecord
  <2>2. CASE state = "connecting"
    BY <1>1, <1>3, <2>2, ClosedRecord DEF SocketRecord
  <2> QED
    BY <2>1, <2>2
<1> HIDE DEF s
<1>5. state \in KernelStates /\ state # "closed" /\ state # "listening"
  BY DEF KernelStates
<1>6. /\ SockStep(objects \ {o}, o, fd(o)) /\ sock'[o] = s
      /\ kernel'[s.m_socket_fd] = state
  BY <1>1, <1>2, <1>4, <1>5, ReopenStep DEF SocketsTyped
<1>7. SocketsTyped'
  BY <1>1, <1>2, <1>4, <1>5, OperationTyped DEF SocketsTyped
<1> QED
  BY <1>2, <1>4, <1>5, <1>6, <1>7, DialOperation

\* connect() that waited and succeeded
LEMMA ConnectDoneKeepsInv ==
  ASSUME NodeInv, dial = "waiting", ConnectDone(new_peer), dial' = "done",
         UNCHANGED <<m_listener, new_peer>>, KeepTable
  PROVE  NodeInv'
<1> DEFINE o == new_peer
           s == [sock[o] EXCEPT !.m_is_connected = TRUE, !.m_last_errno = 0]
<1>1. /\ o \in objects /\ o \in Objects /\ sock[o] \in SocketRecord
      /\ SocketsTyped /\ DescriptorsOwned
      /\ fd(o) # -1 /\ kernel[fd(o)] # "listening"
      /\ sock[o].m_is_listener = FALSE /\ sock[o].m_is_listening = FALSE
  BY DialAlone DEF NodeInv, FlagsAgree
<1>2. /\ Set(o, s) /\ UNCHANGED <<objects, kernelVars, errno>>
      /\ UNCHANGED <<objects, kernel, blocking>>
  BY DEF ConnectDone, kernelVars
<1>3. /\ s \in SocketRecord /\ s.m_socket_fd = fd(o) /\ s.m_is_connected
      /\ s.m_is_listener = FALSE /\ s.m_is_listening = FALSE
  BY <1>1 DEF SocketRecord, fd
<1> HIDE DEF s
<1>4. SockStep(objects \ {o}, o, fd(o)) /\ sock'[o] = s
  <2>1. /\ SockStep(objects \ {o}, o, fd(o))
        /\ sock' = [sock EXCEPT ![o] = s]
    BY <1>1, <1>2, <1>3, QuietStep
  <2> QED
    BY <1>1, <2>1 DEF SocketsTyped
<1>5. SocketsTyped'
  BY <1>1, <1>2, <1>3, OperationTyped DEF SocketsTyped
<1> QED
  BY <1>1, <1>2, <1>3, <1>4, <1>5, DialOperation

\* The two halves of connect()
LEMMA DialKeepsInv ==
  ASSUME NodeInv, Dial \/ DialEnd
  PROVE  NodeInv'
<1>1. dial # "off" /\ UNCHANGED <<m_listener, new_peer>> /\ KeepTable
  BY DEF Dial, DialEnd
<1>0. errno \in {0, 1} /\ -1 \notin Descriptors
  BY SocketAssumption DEF NodeInv, SocketsTyped
<1>2. CASE Dial /\ ConnectNotBegun(new_peer) /\ dial' = "failed"
  <2>1. ASSUME NEW e \in {CloseErrno(fd(new_peer), errno), 1},
               ConnectFailed(new_peer, -1, e)
        PROVE  NodeInv'
    <3>1. e \in {0, 1}
      BY <1>0 DEF CloseErrno
    <3> QED
      BY <1>1, <1>2, <2>1, <3>1, ConnectFailedKeepsInv
  <2>2. ASSUME ConnectFailed(new_peer, NextFd(new_peer), 1) PROVE NodeInv'
    <3>1. 1 \in {0, 1} /\ 1 # 0
      OBVIOUS
    <3> QED
      BY <1>1, <1>2, <2>2, <3>1, ConnectFailedKeepsInv
  <2> QED
    BY <1>2, <2>1, <2>2 DEF ConnectNotBegun
<1>6. CASE DialEnd /\ ConnectNotDone(new_peer) /\ dial' = "failed"
  <2>1. errno # 0
    BY <1>6 DEF DialEnd, NodeInv, DialOK
  <2>2. PICK e \in {0, 1} : e # 0 /\ ConnectFailed(new_peer, fd(new_peer), e)
    BY <1>0, <1>6, <2>1 DEF ConnectNotDone
  <2> QED
    BY <1>1, <1>6, <2>2, ConnectFailedKeepsInv
<1>3. CASE ConnectBegun(new_peer, "established") /\ dial' = "done"
  BY <1>1, <1>3, ConnectBegunKeepsInv
<1>4. CASE ConnectBegun(new_peer, "connecting") /\ dial' = "waiting"
  BY <1>1, <1>4, ConnectBegunKeepsInv
<1>5. CASE dial = "waiting" /\ ConnectDone(new_peer) /\ dial' = "done"
  BY <1>1, <1>5, ConnectDoneKeepsInv
<1> QED
  BY <1>2, <1>3, <1>4, <1>5, <1>6 DEF Dial, DialEnd

-----------------------------------------------------------------------------
(***************************************************************************)
(* Sockets come and go.                                                    *)
(***************************************************************************)
\* What is to be shown of a step when the Sockets in K stay as they are and
\* in their role.
LEMMA StepKeepsInv ==
  ASSUME NodeInv, NEW K, NEW o, NEW f, SockStep(K, o, f),
         SocketsTyped', NodeTyped', DialOK', TableOK', SocketsOwned',
         \A p \in K :
           /\ p = m_listener' <=> p = m_listener
           /\ p = new_peer' /\ dial' = "waiting"
                <=> p = new_peer /\ dial = "waiting"
           /\ EntryKept(p),
         o \in objects' => Agrees(o)'
  PROVE  NodeInv'
<1> USE DEF NodeInv
<1>1. DescriptorsOwned'
  BY StepKeepsOwners
<1>2. ASSUME NEW p \in K PROVE Agrees(p)'
  BY KeptAgrees
<1>3. objects' \subseteq K \cup {o}
  BY DEF SockStep
<1>4. FlagsAgree'
  BY <1>2, <1>3, AllAgree
<1> QED
  BY <1>1, <1>4

\* A Socket as it is created is closed.
LEMMA NewSocketClosed ==
  /\ NewSocket \in SocketRecord /\ NewSocket.m_socket_fd = -1
  /\ NewSocket.m_is_listener = FALSE /\ NewSocket.m_is_listening = FALSE
  /\ NewSocket.m_is_connected = FALSE
  BY DEF NewSocket, SocketRecord

\* m_createNewSocketFunction()
LEMMA CreateKeepsInv ==
  ASSUME NodeInv, CreateSocket
  PROVE  NodeInv'
<1>0. PICK o : o = NewObject
  OBVIOUS
<1>1. /\ SocketsTyped /\ DescriptorsOwned /\ dial = "off" /\ Create(o)
      /\ new_peer' = o /\ dial' = "created" /\ UNCHANGED m_listener
      /\ UNCHANGED <<m_peers, m_connection_counter>> /\ new_peer = nullptr
  BY <1>0 DEF NodeInv, CreateSocket, KeepTable, DialOK
<1>2. o \in Objects \ objects /\ o # nullptr
  BY <1>0, <1>1, NewObjectFree, SocketAssumption DEF CreateSocket, nullptr
<1>3. SockStep(objects, o, -1) /\ sock' = [sock EXCEPT ![o] = NewSocket]
  BY <1>1, CreateStep
<1>4. /\ objects' = objects \cup {o} /\ sock'[o] = NewSocket
      /\ UNCHANGED <<kernel, inbox, blocking, errno>>
  BY <1>1, <1>2, <1>3 DEF Create, SocketsTyped, kernelVars
<1>5. SocketsTyped'
  BY <1>1, <1>2, <1>3, <1>4, NewSocketClosed DEF SocketsTyped
<1>6. NodeTyped' /\ TableOK'
  BY <1>1, <1>2 DEF NodeInv, NodeTyped, TableOK
<1>7. DialOK'
  BY <1>1, <1>2, <1>4, NewSocketClosed DEF DialOK, fd
<1>8. o # m_listener /\ o \notin TableSockets
  BY <1>2 DEF NodeInv, SocketsOwned
<1>9. SocketsOwned'
  <2>1. TableSockets' = TableSockets
    BY <1>1 DEF TableSockets
  <2> QED
    BY <1>1, <1>2, <1>4, <1>8, <2>1 DEF NodeInv, SocketsOwned
<1>10. Agrees(o)'
  <2>1. \A id \in DOMAIN m_peers' : m_peers'[id].m_socket # o
    BY <1>1, <1>8 DEF TableSockets
  <2> QED
    BY <1>1, <1>4, <2>1, NewSocketClosed, ClosedAgrees
<1>11. ASSUME NEW p \in objects
       PROVE  /\ p = m_listener' <=> p = m_listener
              /\ p = new_peer' /\ dial' = "waiting"
                   <=> p = new_peer /\ dial = "waiting"
              /\ EntryKept(p)
  BY <1>1 DEF EntryKept
<1> QED
  BY <1>3, <1>5, <1>6, <1>7, <1>9, <1>10, <1>11, StepKeepsInv

\* Deleting a Socket closes its descriptor.
LEMMA DestroyStep ==
  ASSUME SocketsTyped, DescriptorsOwned, NEW o \in objects, Destroy(o),
         errno' \in {0, 1}
  PROVE  /\ SockStep(objects \ {o}, o, fd(o)) /\ o \notin objects'
         /\ SocketsTyped' /\ objects' = objects \ {o}
<1>1. /\ Set(o, NewSocket) /\ Reopen(o, "closed") /\ "closed" \in KernelStates
      /\ objects' = objects \ {o}
  BY DEF Destroy, KernelStates
<1>2. SockStep(objects \ {o}, o, fd(o))
  BY <1>1, NewSocketClosed, ReopenStep
<1>3. SocketsTyped'
  BY <1>1, NewSocketClosed, OperationTyped DEF SocketsTyped
<1> QED
  BY <1>1, <1>2, <1>3

\* A dial that failed ends: the loop has no second round.
LEMMA FailedKeepsInv ==
  ASSUME NodeInv, DialFailed
  PROVE  NodeInv' /\ dial' = "reporting"
<1> DEFINE o == new_peer
           s == [sock[o] EXCEPT !.m_last_errno = 0]
<1>1. dial = "failed" /\ sock[o].m_last_errno # 0 /\ fd(o) = -1
  BY DEF DialFailed, NodeInv, DialOK
<1>2. /\ dial' = "reporting" /\ Set(o, s)
      /\ UNCHANGED <<objects, kernelVars, errno>>
      /\ UNCHANGED <<m_listener, new_peer>> /\ KeepTable
  BY <1>1 DEF DialFailed
<1>3. /\ o \in objects /\ o \in Objects /\ sock[o] \in SocketRecord
      /\ SocketsTyped /\ DescriptorsOwned /\ Agrees(o)
      /\ \A id \in DOMAIN m_peers : m_peers[id].m_socket # o
  BY <1>1, DialAlone DEF NodeInv, FlagsAgree, Agrees
<1>4. /\ s \in SocketRecord /\ s.m_socket_fd = fd(o)
      /\ s.m_is_connected = sock[o].m_is_connected
      /\ s.m_is_listener = sock[o].m_is_listener
      /\ s.m_is_listening = sock[o].m_is_listening
  BY <1>3 DEF SocketRecord, fd
<1> HIDE DEF s
<1>5. UNCHANGED <<kernel, blocking>>
  BY <1>2 DEF kernelVars
<1>6. SockStep(objects \ {o}, o, fd(o)) /\ sock' = [sock EXCEPT ![o] = s]
  BY <1>2, <1>3, <1>4, <1>5, QuietStep
<1>7. sock'[o] = s
  BY <1>3, <1>6 DEF SocketsTyped
<1>8. SocketsTyped'
  BY <1>2, <1>3, <1>4, OperationTyped DEF SocketsTyped
<1>9. EntriesKept
  BY <1>2 DEF EntriesKept, KeepTable, NodeInv, NodeTyped
<1>10. fd(o)' = -1
  BY <1>1, <1>2, <1>4, <1>7 DEF fd
<1>11. DialOK'
  BY <1>1, <1>2, <1>10, DialAlone DEF DialOK
<1>12. Agrees(o)'
  <2>1. ~sock[o].m_is_connected /\ ~sock[o].m_is_listener
    BY <1>1, <1>3 DEF Agrees
  <2>2. sock[o].m_is_listener = FALSE /\ sock[o].m_is_listening = FALSE
    BY <1>1, DialAlone
  <2> QED
    BY <1>1, <1>2, <1>3, <1>4, <1>7, <2>1, <2>2, ClosedAgrees DEF KeepTable
<1>13. NodeInv'
  BY <1>2, <1>3, <1>6, <1>8, <1>9, <1>11, <1>12, OperationKeepsInv
<1> QED
  BY <1>2, <1>13

\* The Socket of a dial that failed is deleted.
LEMMA ReportedKeepsInv ==
  ASSUME NodeInv, DialReported
  PROVE  NodeInv'
<1> DEFINE o == new_peer
<1>1. dial = "reporting"
  BY DEF DialReported
<1>2. /\ dial' = "off" /\ new_peer' = nullptr /\ Destroy(o)
      /\ errno' \in {0, 1}
      /\ UNCHANGED <<m_listener, m_peers, m_connection_counter>>
  BY DEF DialReported, KeepTable, AnyErrno
<1>3. /\ o \in objects /\ o # m_listener /\ o # nullptr
      /\ \A id \in DOMAIN m_peers : m_peers[id].m_socket # o
      /\ SocketsTyped /\ DescriptorsOwned
  BY <1>1, DialAlone DEF NodeInv
<1>4. /\ SockStep(objects \ {o}, o, fd(o)) /\ o \notin objects'
      /\ SocketsTyped' /\ objects' = objects \ {o}
  BY <1>2, <1>3, DestroyStep
<1>5. NodeTyped' /\ TableOK' /\ DialOK'
  BY <1>2 DEF NodeInv, NodeTyped, TableOK, DialOK
<1>6. SocketsOwned'
  <2>1. TableSockets' = TableSockets /\ o \notin TableSockets
    BY <1>2, <1>3 DEF TableSockets
  <2>2. nullptr \notin TableSockets /\ m_listener # nullptr
    BY SocketAssumption
       DEF NodeInv, NodeTyped, TableOK, TableSockets, nullptr
  <2> QED
    BY <1>2, <1>3, <1>4, <2>1, <2>2 DEF NodeInv, SocketsOwned
<1>7. ASSUME NEW p \in objects \ {o}
      PROVE  /\ p = m_listener' <=> p = m_listener
             /\ p = new_peer' /\ dial' = "waiting"
                  <=> p = new_peer /\ dial = "waiting"
             /\ EntryKept(p)
  BY <1>1, <1>2 DEF EntryKept
<1> QED
  BY <1>2, <1>4, <1>5, <1>6, <1>7, StepKeepsInv

\* What is known of a connection in the table.
LEMMA EntryAlone ==
  ASSUME NodeInv, NEW id \in DOMAIN m_peers
  PROVE  LET o == m_peers[id].m_socket
         IN  /\ o \in objects /\ o \in Objects /\ sock[o] \in SocketRecord
             /\ o # m_listener /\ o # new_peer
             /\ \A k \in DOMAIN m_peers : m_peers[k].m_socket = o => k = id
             /\ Agrees(o)
             /\ sock[o].m_is_listener = FALSE
<1> DEFINE o == m_peers[id].m_socket
<1>1. o \in TableSockets
  BY DEF TableSockets
<1>2. /\ o \in objects /\ o # m_listener /\ o # new_peer
      /\ \A k \in DOMAIN m_peers : m_peers[k].m_socket = o => k = id
  BY <1>1 DEF NodeInv, SocketsOwned
<1>3. o \in Objects /\ sock[o] \in SocketRecord
  BY <1>2 DEF NodeInv, SocketsTyped
<1>4. Agrees(o)
  BY <1>2 DEF NodeInv, FlagsAgree, Agrees
<1>5. ~sock[o].m_is_listener
  BY <1>2, <1>4 DEF Agrees
<1> QED
  BY <1>2, <1>3, <1>4, <1>5 DEF SocketRecord

\* A connection is deleted with its Socket.
LEMMA DeleteKeepsInv ==
  ASSUME NodeInv, NEW id \in Ids, Delete(id)
  PROVE  NodeInv'
<1> DEFINE o == m_peers[id].m_socket
<1>1. /\ id \in DOMAIN m_peers /\ Destroy(o)
      /\ m_peers' = [k \in DOMAIN m_peers \ {id} |-> m_peers[k]]
      /\ UNCHANGED <<m_listener, m_connection_counter, new_peer, dial>>
      /\ UNCHANGED errno
  BY DEF Delete, KeepDial
<1>2. /\ o \in objects /\ o # m_listener /\ o # new_peer
      /\ \A k \in DOMAIN m_peers : m_peers[k].m_socket = o => k = id
      /\ SocketsTyped /\ DescriptorsOwned
  BY <1>1, EntryAlone DEF NodeInv
<1>3. /\ SockStep(objects \ {o}, o, fd(o)) /\ o \notin objects'
      /\ SocketsTyped' /\ objects' = objects \ {o}
  BY <1>1, <1>2, DestroyStep DEF SocketsTyped
<1>4. NodeTyped' /\ TableOK'
  BY <1>1 DEF NodeInv, NodeTyped, TableOK
<1>5. DialOK'
  <2>1. dial # "off" => new_peer \in objects \ {o}
    BY <1>2, DialAlone
  <2>2. dial # "off" => sock'[new_peer] = sock[new_peer]
    BY <1>3, <2>1 DEF SockStep
  <2> QED
    BY <1>1, <2>2 DEF NodeInv, DialOK, fd
<1>6. SocketsOwned'
  <2>1. TableSockets' = TableSockets \ {o}
    BY <1>1, <1>2 DEF TableSockets
  <2>2. \A k \in DOMAIN m_peers' :
          k \in DOMAIN m_peers /\ m_peers'[k] = m_peers[k]
    BY <1>1
  <2> QED
    BY <1>1, <1>2, <1>3, <2>1, <2>2 DEF NodeInv, SocketsOwned
<1>7. ASSUME NEW p \in objects \ {o}
      PROVE  /\ p = m_listener' <=> p = m_listener
             /\ p = new_peer' /\ dial' = "waiting"
                  <=> p = new_peer /\ dial = "waiting"
             /\ EntryKept(p)
  BY <1>1 DEF EntryKept
<1> QED
  BY <1>3, <1>4, <1>5, <1>6, <1>7, StepKeepsInv

\* setListener() gives the node another listener.
LEMMA ReplaceKeepsInv ==
  ASSUME NodeInv, setListener
  PROVE  NodeInv'
<1>0. PICK o : o = NewObject
  OBVIOUS
<1>1. /\ SocketsTyped /\ DescriptorsOwned /\ m_listener \in objects
      /\ m_listener # new_peer
      /\ \A id \in DOMAIN m_peers : m_peers[id].m_socket # m_listener
  BY ListenerAlone DEF NodeInv
<1>2. /\ SockStep(objects \ {m_listener}, o, fd(m_listener))
      /\ o \in Objects \ objects
      /\ objects' = (objects \ {m_listener}) \cup {o}
      /\ sock'[o] = NewSocket
  BY <1>0, <1>1, ReplaceStep
<1>3. /\ m_listener' = o /\ Reopen(m_listener, "closed")
      /\ sock' = [sock EXCEPT ![m_listener] = NewSocket, ![o] = NewSocket]
      /\ UNCHANGED <<m_peers, m_connection_counter, new_peer, dial, errno>>
  BY <1>0 DEF setListener, KeepTable, KeepDial
<1>4. SocketsTyped'
  <2>1. "closed" \in KernelStates
    BY DEF KernelStates
  <2>2. /\ kernel' \in [Descriptors -> KernelStates]
        /\ inbox' \in [Descriptors -> 0 .. MaxBytes]
        /\ blocking' \subseteq Descriptors
    BY <1>1, <1>3, <2>1, ReopenTyped
  <2> QED
    BY <1>1, <1>2, <1>3, <2>2, NewSocketClosed DEF SocketsTyped
<1>5. NodeTyped' /\ TableOK'
  BY <1>2, <1>3 DEF NodeInv, NodeTyped, TableOK
<1>6. DialOK'
  <2>1. dial # "off" => new_peer \in objects \ {m_listener}
    BY DialAlone
  <2>2. dial # "off" => sock'[new_peer] = sock[new_peer]
    BY <1>2, <2>1 DEF SockStep
  <2> QED
    BY <1>3, <2>2 DEF NodeInv, DialOK, fd
<1>7. o # new_peer /\ o \notin TableSockets
  <2>1. new_peer = nullptr \/ new_peer \in objects
    BY DialAlone DEF NodeInv, DialOK
  <2> QED
    BY <1>2, <2>1, SocketAssumption DEF NodeInv, SocketsOwned, nullptr
<1>8. SocketsOwned'
  <2>1. TableSockets' = TableSockets
    BY <1>3 DEF TableSockets
  <2> QED
    BY <1>1, <1>2, <1>3, <1>7, <2>1 DEF NodeInv, SocketsOwned
<1>9. Agrees(o)'
  <2>1. \A id \in DOMAIN m_peers' : m_peers'[id].m_socket # o
    BY <1>3, <1>7 DEF TableSockets
  <2> QED
    BY <1>2, <1>3, <1>7, <2>1, NewSocketClosed, ClosedAgrees
<1>10. ASSUME NEW p \in objects \ {m_listener}
       PROVE  /\ p = m_listener' <=> p = m_listener
              /\ p = new_peer' /\ dial' = "waiting"
                   <=> p = new_peer /\ dial = "waiting"
              /\ EntryKept(p)
  BY <1>2, <1>3 DEF EntryKept
<1> QED
  BY <1>2, <1>4, <1>5, <1>6, <1>8, <1>9, <1>10, StepKeepsInv

-----------------------------------------------------------------------------
(***************************************************************************)
(* New connections.                                                        *)
(***************************************************************************)
\* Ids are numbers.
LEMMA IdsNatural ==
  \A id \in Ids : id \in Nat
  BY ConnectionsAssumption DEF Ids

\* What is stored as the address of a connection.
Addresses == {"", "known"}

\* A connection gets an id that no other ever had, and a Socket of its own.
LEMMA InsertKeepsTable ==
  ASSUME NodeInv, NEW o \in Objects, o \notin TableSockets,
         NEW address \in Addresses, Insert(o, address)
  PROVE  /\ TableOK' /\ TableSockets' = TableSockets \cup {o}
         /\ DOMAIN m_peers' \subseteq Ids /\ m_connection_counter' \in Ids
         /\ \A id \in DOMAIN m_peers' : m_peers'[id] \in PeerRecord
         /\ \A j, k \in DOMAIN m_peers' :
              m_peers'[j].m_socket = m_peers'[k].m_socket => j = k
         /\ \A p : p # o => EntryKept(p)
<1>0. NodeTyped /\ TableOK /\ SocketsOwned
  BY DEF NodeInv
<1>1. PICK n \in Ids :
        /\ n = m_connection_counter + 1 /\ m_connection_counter' = n
        /\ m_peers' = [k \in DOMAIN m_peers \cup {n} |->
                         IF k = n THEN NewRecord(n, address, o)
                                  ELSE m_peers[k]]
  BY DEF Insert
<1> DEFINE r == NewRecord(n, address, o)
<1>2. ASSUME NEW k \in DOMAIN m_peers
      PROVE  /\ k \in Ids /\ k # n /\ k =< n
             /\ m_peers[k] \in PeerRecord
             /\ m_peers[k].m_connection_id = k /\ m_peers[k].m_valid
             /\ m_peers[k].m_socket \in Objects
             /\ m_peers[k].m_socket # o
  <2>1. k \in Ids /\ k =< m_connection_counter
    BY <1>0 DEF NodeTyped, TableOK
  <2>2. m_connection_counter \in Nat
    <3>1. m_connection_counter \in Ids \cup {0}
      BY <1>0 DEF NodeTyped
    <3> QED
      BY <3>1, IdsNatural
  <2>3. k # n /\ k =< n
    <3>1. n = m_connection_counter + 1 /\ k \in Nat
      BY <1>1, <2>1, IdsNatural
    <3> QED
      BY <2>1, <2>2, <3>1
  <2>4. m_peers[k].m_socket # o
    BY DEF TableSockets
  <2> QED
    BY <1>0, <2>1, <2>3, <2>4 DEF NodeTyped, TableOK
<1>3. /\ r \in PeerRecord /\ r.m_connection_id = n /\ r.m_valid
      /\ r.m_socket = o
  BY <1>1 DEF NewRecord, PeerPrivate, PeerRecord, DisconnectType, Addresses
<1>4. n =< n
  BY IdsNatural
<1>5. /\ DOMAIN m_peers' = DOMAIN m_peers \cup {n} /\ m_peers'[n] = r
      /\ \A k \in DOMAIN m_peers : m_peers'[k] = m_peers[k]
  BY <1>1, <1>2
<1>6. TableOK'
  BY <1>1, <1>2, <1>3, <1>4, <1>5 DEF TableOK
<1>7. TableSockets' = TableSockets \cup {o}
  <2>1. TableSockets' = {m_peers'[k].m_socket : k \in DOMAIN m_peers'}
    BY DEF TableSockets
  <2>2. {m_peers'[k].m_socket : k \in DOMAIN m_peers'}
          = {m_peers'[k].m_socket : k \in DOMAIN m_peers} \cup {o}
    BY <1>3, <1>5
  <2>3. {m_peers'[k].m_socket : k \in DOMAIN m_peers} = TableSockets
    BY <1>5 DEF TableSockets
  <2> QED
    BY <2>1, <2>2, <2>3
<1>8. ASSUME NEW j \in DOMAIN m_peers', NEW k \in DOMAIN m_peers',
             m_peers'[j].m_socket = m_peers'[k].m_socket
      PROVE  j = k
  <2>1. CASE j \in DOMAIN m_peers /\ k \in DOMAIN m_peers
    BY <1>0, <1>5, <1>8, <2>1 DEF SocketsOwned
  <2>2. CASE j \in DOMAIN m_peers /\ k = n
    BY <1>2, <1>3, <1>5, <1>8, <2>2
  <2>3. CASE j = n /\ k \in DOMAIN m_peers
    BY <1>2, <1>3, <1>5, <1>8, <2>3
  <2> QED
    BY <1>5, <2>1, <2>2, <2>3
<1>9. ASSUME NEW p, p # o PROVE EntryKept(p)
  BY <1>3, <1>5, <1>9 DEF EntryKept
<1>10. /\ DOMAIN m_peers' \subseteq Ids /\ m_connection_counter' \in Ids
       /\ \A k \in DOMAIN m_peers' : m_peers'[k] \in PeerRecord
  BY <1>1, <1>2, <1>3, <1>5
<1> QED
  BY <1>6, <1>7, <1>8, <1>9, <1>10

\* accept()
LEMMA AcceptKeepsInv ==
  ASSUME NodeInv, Accept
  PROVE  NodeInv'
<1>0. PICK o : o = NewObject
  OBVIOUS
<1> DEFINE s == [NewSocket EXCEPT !.m_socket_fd = LowestFree(Free),
                                  !.m_is_connected = TRUE]
<1>1. PICK address \in Addresses : Insert(o, address)
  BY <1>0 DEF Accept, Addresses
<1>2. /\ SocketsTyped /\ DescriptorsOwned /\ m_listener \in objects
      /\ accept(m_listener, o)
      /\ UNCHANGED <<m_listener, new_peer, dial, errno>>
  BY <1>0, ListenerAlone DEF NodeInv, Accept, KeepDial, accept
<1>3. /\ SockStep(objects, o, -1)
      /\ sock'[o].m_socket_fd \in Descriptors
      /\ kernel'[sock'[o].m_socket_fd] = "established"
  BY <1>2, AcceptStep
<1>4. /\ o \in Objects \ objects /\ objects' = objects \cup {o}
      /\ sock' = [sock EXCEPT ![o] = s] /\ sock'[o] = s
      /\ UNCHANGED <<inbox, blocking>>
      /\ kernel' = [kernel EXCEPT ![LowestFree(Free)] = "established"]
  BY <1>2 DEF accept, Set, SocketsTyped
<1>5. /\ s.m_socket_fd = LowestFree(Free) /\ s.m_is_connected = TRUE
      /\ s.m_is_listener = FALSE /\ s.m_is_listening = FALSE
      /\ LowestFree(Free) \in Descriptors => s \in SocketRecord
  BY NewSocketClosed DEF SocketRecord, NewSocket
<1> HIDE DEF s
<1>6. SocketsTyped'
  <2>1. s \in SocketRecord
    BY <1>3, <1>4, <1>5
  <2> QED
    BY <1>2, <1>4, <2>1 DEF SocketsTyped, KernelStates
<1>7. /\ o # m_listener /\ o # new_peer /\ o \notin TableSockets
      /\ o # nullptr
  <2>1. new_peer = nullptr \/ new_peer \in objects
    BY DialAlone DEF NodeInv, DialOK
  <2>2. o # nullptr
    BY <1>4, SocketAssumption DEF nullptr
  <2> QED
    BY <1>2, <1>4, <2>1, <2>2 DEF NodeInv, SocketsOwned
<1>8. /\ TableOK' /\ TableSockets' = TableSockets \cup {o}
      /\ DOMAIN m_peers' \subseteq Ids /\ m_connection_counter' \in Ids
      /\ \A id \in DOMAIN m_peers' : m_peers'[id] \in PeerRecord
      /\ \A j, k \in DOMAIN m_peers' :
           m_peers'[j].m_socket = m_peers'[k].m_socket => j = k
      /\ \A p : p # o => EntryKept(p)
  BY <1>1, <1>4, <1>7, InsertKeepsTable
<1>9. NodeTyped'
  BY <1>2, <1>8 DEF NodeInv, NodeTyped
<1>10. DialOK'
  <2>1. dial # "off" => sock'[new_peer] = sock[new_peer]
    BY <1>3, DialAlone DEF SockStep
  <2> QED
    BY <1>2, <2>1 DEF NodeInv, DialOK, fd
<1>11. SocketsOwned'
  BY <1>2, <1>4, <1>7, <1>8 DEF NodeInv, SocketsOwned
<1>12. Agrees(o)'
  <2>1. o # new_peer' /\ o # m_listener'
    BY <1>2, <1>7
  <2>2. sock'[o].m_socket_fd # -1
    <3>1. -1 \notin Descriptors
      BY SocketAssumption
    <3> QED
      BY <1>3, <3>1
  <2> QED
    BY <1>3, <1>4, <1>5, <2>1, <2>2 DEF Agrees, fd
<1>13. ASSUME NEW p \in objects
       PROVE  /\ p = m_listener' <=> p = m_listener
              /\ p = new_peer' /\ dial' = "waiting"
                   <=> p = new_peer /\ dial = "waiting"
              /\ EntryKept(p)
  BY <1>2, <1>4, <1>8
<1> QED
  BY <1>3, <1>6, <1>8, <1>9, <1>10, <1>11, <1>12, <1>13, StepKeepsInv

\* A step that touches no Socket.
LEMMA IdleStep ==
  ASSUME SocketsTyped, DescriptorsOwned, UNCHANGED <<objects, sock, kernelVars>>,
         errno' \in {0, 1}
  PROVE  /\ SockStep(objects, nullptr, -1) /\ SocketsTyped'
         /\ nullptr \notin objects'
<1>1. nullptr \notin objects /\ -1 \notin Descriptors
  BY SocketAssumption DEF SocketsTyped, nullptr
<1>2. UNCHANGED <<objects, sock, kernel, inbox, blocking>>
  BY DEF kernelVars
<1>3. \A d \in blocking : d \in Descriptors /\ kernel[d] = "listening"
  BY DEF SocketsTyped, DescriptorsOwned
<1> QED
  BY <1>1, <1>2, <1>3 DEF SockStep, SocketsTyped

\* The dialled Socket becomes one of the table.
LEMMA ConnectedKeepsInv ==
  ASSUME NodeInv, Connected
  PROVE  NodeInv'
<1>0. PICK o : o = new_peer
  OBVIOUS
<1>1. PICK address \in Addresses : Insert(o, address)
  BY <1>0 DEF Connected, peerIpAddress, Addresses
<1>2. /\ SocketsTyped /\ DescriptorsOwned
      /\ UNCHANGED <<objects, sock, kernelVars>> /\ errno' \in {0, 1}
      /\ dial = "done" /\ dial' = "off" /\ new_peer' = nullptr
      /\ UNCHANGED m_listener /\ objects' = objects
  BY DEF NodeInv, Connected, AnyErrno
<1>3. /\ o \in objects /\ o \in Objects /\ o # m_listener /\ o # nullptr
      /\ o \notin TableSockets /\ sock[o].m_is_connected
  BY <1>0, <1>2, DialAlone DEF TableSockets, NodeInv, DialOK
<1>4. /\ SockStep(objects, nullptr, -1) /\ SocketsTyped'
      /\ nullptr \notin objects'
  BY <1>2, IdleStep
<1>5. /\ TableOK' /\ TableSockets' = TableSockets \cup {o}
      /\ DOMAIN m_peers' \subseteq Ids /\ m_connection_counter' \in Ids
      /\ \A id \in DOMAIN m_peers' : m_peers'[id] \in PeerRecord
      /\ \A j, k \in DOMAIN m_peers' :
           m_peers'[j].m_socket = m_peers'[k].m_socket => j = k
      /\ \A p : p # o => EntryKept(p)
  BY <1>1, <1>3, InsertKeepsTable
<1>6. NodeTyped' /\ DialOK'
  BY <1>2, <1>5 DEF NodeInv, NodeTyped, DialOK
<1>7. SocketsOwned'
  <2>1. nullptr \notin TableSockets' /\ m_listener # nullptr
    <3>1. nullptr \notin Objects
      BY SocketAssumption DEF nullptr
    <3>2. TableSockets \subseteq Objects /\ m_listener \in Objects
      BY DEF NodeInv, NodeTyped, TableOK, TableSockets
    <3> QED
      BY <1>3, <1>5, <3>1, <3>2
  <2>2. objects = {m_listener} \cup {o} \cup TableSockets
        /\ m_listener \notin TableSockets
    BY <1>0, <1>3 DEF NodeInv, SocketsOwned
  <2> QED
    BY <1>2, <1>3, <1>5, <2>1, <2>2 DEF SocketsOwned
<1>8. EntryKept(o)
  BY <1>3 DEF EntryKept
<1>9. ASSUME NEW p \in objects
      PROVE  /\ p = m_listener' <=> p = m_listener
             /\ p = new_peer' /\ dial' = "waiting"
                  <=> p = new_peer /\ dial = "waiting"
             /\ EntryKept(p)
  BY <1>2, <1>5, <1>8
<1> QED
  BY <1>4, <1>5, <1>6, <1>7, <1>9, StepKeepsInv

-----------------------------------------------------------------------------
(***************************************************************************)
(* Connections in the table.                                               *)
(***************************************************************************)
\* An operation on the Socket of an entry leaves what is dialled alone.  The
\* Socket stays connected, or it is closed and the entry scheduled.
LEMMA EntryOperation ==
  ASSUME NodeInv, NEW id \in DOMAIN m_peers, NEW o, o = m_peers[id].m_socket,
         SockStep(objects \ {o}, o, fd(o)), SocketsTyped', EntriesKept,
         UNCHANGED <<objects, errno, m_listener, new_peer, dial>>,
         sock'[o].m_is_listener = FALSE, sock'[o].m_is_listening = FALSE,
         \/ /\ sock'[o].m_socket_fd = fd(o)
            /\ sock'[o].m_is_connected = sock[o].m_is_connected
            /\ fd(o) # -1 => kernel'[fd(o)] = kernel[fd(o)]
         \/ /\ sock'[o].m_socket_fd = -1
            /\ sock'[o].m_is_connected = FALSE
            /\ m_peers'[id].m_to_be_deleted
  PROVE  NodeInv'
<1>1. /\ o \in objects /\ o # m_listener /\ o # new_peer
      /\ \A k \in DOMAIN m_peers : m_peers[k].m_socket = o => k = id
      /\ Agrees(o) /\ sock[o].m_is_listener = FALSE
  BY EntryAlone
<1>2. ASSUME NEW k \in DOMAIN m_peers', m_peers'[k].m_socket = o
      PROVE  k = id /\ (m_peers[id].m_to_be_deleted =>
                          m_peers'[id].m_to_be_deleted)
  BY <1>1, <1>2 DEF EntriesKept
<1>3. Agrees(o)'
  <2>1. CASE sock'[o].m_socket_fd = -1 /\ m_peers'[id].m_to_be_deleted
             /\ sock'[o].m_is_connected = FALSE
    BY <1>1, <1>2, <2>1, ClosedAgrees
  <2>2. CASE /\ sock'[o].m_socket_fd = fd(o)
             /\ sock'[o].m_is_connected = sock[o].m_is_connected
             /\ fd(o) # -1 => kernel'[fd(o)] = kernel[fd(o)]
    <3>1. ASSUME NEW k \in DOMAIN m_peers', o = m_peers'[k].m_socket
          PROVE  sock'[o].m_is_connected \/ m_peers'[k].m_to_be_deleted
      BY <1>1, <1>2, <2>2, <3>1 DEF Agrees
    <3>2. fd(o)' = fd(o)
      BY <2>2 DEF fd
    <3>3. fd(o) # -1 => kernel'[fd(o)] # "listening"
      BY <1>1, <2>2 DEF Agrees
    <3>4. fd(o) # -1 => sock[o].m_is_connected
      BY <1>1 DEF Agrees
    <3> QED
      BY <1>1, <2>2, <3>1, <3>2, <3>3, <3>4 DEF Agrees
  <2> QED
    BY <2>1, <2>2
<1>4. DialOK'
  <2>1. dial # "off" => sock'[new_peer] = sock[new_peer]
    BY <1>1, DialAlone DEF SockStep
  <2> QED
    BY <2>1 DEF NodeInv, DialOK, fd
<1> QED
  BY <1>1, <1>3, <1>4, OperationKeepsInv

\* recv() leaves no more bytes than there were.
LEMMA ReadTyped ==
  ASSUME SocketsTyped, NEW o, sock[o] \in SocketRecord
  PROVE  Read(o) \in [Descriptors -> 0 .. MaxBytes]
<1> DEFINE size == sock[o].m_receive_buffer_size
<1>1. size \in Nat
  BY SocketAssumption DEF SocketRecord
<1>2. ASSUME NEW x \in 0 .. MaxBytes
      PROVE  (IF x < size THEN 0 ELSE x - size) \in 0 .. MaxBytes
  BY <1>1, SocketAssumption
<1> QED
  BY <1>2 DEF Read, SocketsTyped

\* One step of receive() keeps the invariant when the entry is scheduled for
\* deletion, as it is after every error.
LEMMA ReceiveKeepsInv ==
  ASSUME NodeInv, NEW id \in DOMAIN m_peers, NEW res,
         receive(m_peers[id].m_socket, res), EntriesKept,
         UNCHANGED <<m_listener, new_peer, dial>>,
         res = "ERROR_SYSTEM" => m_peers'[id].m_to_be_deleted
  PROVE  NodeInv'
<1>0. PICK o : o = m_peers[id].m_socket
  OBVIOUS
<1>1. /\ o \in objects /\ o \in Objects /\ sock[o] \in SocketRecord
      /\ Agrees(o) /\ sock[o].m_is_listener = FALSE
      /\ SocketsTyped /\ DescriptorsOwned
  BY <1>0, EntryAlone DEF NodeInv
<1>2. sock[o].m_is_listening = FALSE
  BY <1>1 DEF Agrees
<1>3. /\ UNCHANGED <<objects, errno>> /\ objects' \subseteq Objects
      /\ errno' \in {0, 1}
  BY <1>0, <1>1 DEF receive, SocketsTyped
<1>4. CASE res = "ERROR_SYSTEM"
  <2> DEFINE s == [Closed(sock[o]) EXCEPT !.m_last_errno = Errno(TRUE)]
  <2>1. Set(o, s) /\ Reopen(o, "closed") /\ "closed" \in KernelStates
    BY <1>0, <1>4 DEF receive, KernelStates
  <2>2. /\ s \in SocketRecord /\ s.m_socket_fd = -1
        /\ s.m_is_connected = FALSE /\ s.m_is_listener = FALSE
        /\ s.m_is_listening = FALSE
    BY <1>1, ClosedRecord DEF SocketRecord, Errno
  <2> HIDE DEF s
  <2>3. SockStep(objects \ {o}, o, fd(o)) /\ sock' = [sock EXCEPT ![o] = s]
    BY <1>1, <1>3, <2>1, <2>2, ReopenStep
  <2>4. SocketsTyped'
    BY <1>1, <1>3, <2>1, <2>2, OperationTyped
  <2>5. sock'[o] = s
    BY <1>1, <2>3 DEF SocketsTyped
  <2> QED
    BY <1>0, <1>3, <1>4, <2>2, <2>3, <2>4, <2>5, EntryOperation
<1>5. CASE res # "ERROR_SYSTEM"
  <2> DEFINE s == [sock[o] EXCEPT !.m_last_errno = 0]
  <2>1. /\ Set(o, s) /\ UNCHANGED <<kernel, blocking>>
        /\ inbox' = Read(o) \/ inbox' = inbox
    BY <1>0, <1>5 DEF receive
  <2>2. /\ s \in SocketRecord /\ s.m_socket_fd = fd(o)
        /\ s.m_is_connected = sock[o].m_is_connected
        /\ s.m_is_listener = FALSE /\ s.m_is_listening = FALSE
    BY <1>1, <1>2 DEF SocketRecord, fd
  <2> HIDE DEF s
  <2>3. SockStep(objects \ {o}, o, fd(o)) /\ sock' = [sock EXCEPT ![o] = s]
    BY <1>1, <1>3, <2>1, <2>2, QuietStep
  <2>4. SocketsTyped'
    BY <1>1, <1>3, <2>1, <2>2, <2>3, ReadTyped DEF SocketsTyped
  <2>5. sock'[o] = s
    BY <1>1, <2>3 DEF SocketsTyped
  <2> QED
    BY <1>0, <1>3, <2>1, <2>2, <2>3, <2>4, <2>5, EntryOperation
<1> QED
  BY <1>4, <1>5

\* A step that touches no Socket and keeps the entries
LEMMA TableStepKeepsInv ==
  ASSUME NodeInv, KeepSockets, UNCHANGED <<m_listener, new_peer, dial>>,
         EntriesKept
  PROVE  NodeInv'
<1>0. UNCHANGED <<objects, sock, kernelVars>> /\ UNCHANGED errno
  BY DEF KeepSockets, socketVars
<1>1. /\ SockStep(objects, nullptr, -1) /\ SocketsTyped'
      /\ nullptr \notin objects'
  BY <1>0, IdleStep DEF NodeInv, SocketsTyped
<1>2. TableOK' /\ TableSockets' = TableSockets
  BY EntriesKeepTable DEF NodeInv
<1>3. NodeTyped'
  BY DEF NodeInv, NodeTyped, EntriesKept
<1>4. UNCHANGED <<objects, sock>>
  BY DEF KeepSockets, socketVars
<1>5. DialOK'
  BY <1>0, <1>4 DEF NodeInv, DialOK, fd
<1>6. SocketsOwned'
  BY <1>2, <1>4 DEF NodeInv, SocketsOwned, EntriesKept
<1>7. ASSUME NEW p \in objects
      PROVE  /\ p = m_listener' <=> p = m_listener
             /\ p = new_peer' /\ dial' = "waiting"
                  <=> p = new_peer /\ dial = "waiting"
             /\ EntryKept(p)
  BY DEF EntryKept, EntriesKept
<1> QED
  BY <1>1, <1>2, <1>3, <1>5, <1>6, <1>7, StepKeepsInv

\* A table that is left as it is
LEMMA KeptTable ==
  ASSUME NodeInv, KeepTable
  PROVE  EntriesKept
  BY DEF EntriesKept, KeepTable, NodeInv, NodeTyped

\* The answers of receive() that are errors
LEMMA ErrorsTyped ==
  /\ "ERROR_SYSTEM" \in DOMAIN ReceiveErrors
  /\ "ERROR_NO_CONNECTION" \in DOMAIN ReceiveErrors
  /\ \A res \in DOMAIN ReceiveErrors : ReceiveErrors[res] \in DisconnectType
  BY DEF ReceiveErrors, DisconnectType

\* One round of the receive loop
LEMMA ReceiveFromKeepsInv ==
  ASSUME NodeInv, NEW id \in Ids, ReceiveFrom(id)
  PROVE  NodeInv'
<1>1. id \in DOMAIN m_peers /\ UNCHANGED <<m_listener, new_peer, dial>>
  BY DEF ReceiveFrom, KeepDial
<1>2. PICK res \in ReceiveResult :
        /\ IF sock[m_peers[id].m_socket].m_is_connected
           THEN receive(m_peers[id].m_socket, res)
           ELSE res = "ERROR_NO_CONNECTION" /\ KeepSockets
        /\ IF res \in DOMAIN ReceiveErrors
           THEN Schedule({id}, ReceiveErrors[res]) ELSE KeepTable
  BY DEF ReceiveFrom
<1>3. EntriesKept
  <2>1. CASE res \in DOMAIN ReceiveErrors
    BY <1>2, <2>1, ErrorsTyped, ScheduleKeeps DEF NodeInv
  <2>2. CASE res \notin DOMAIN ReceiveErrors
    BY <1>2, <2>2, KeptTable
  <2> QED
    BY <2>1, <2>2
<1>4. res = "ERROR_SYSTEM" => m_peers'[id].m_to_be_deleted
  <2> SUFFICES ASSUME res = "ERROR_SYSTEM" PROVE m_peers'[id].m_to_be_deleted
    OBVIOUS
  <2>1. Schedule({id}, ReceiveErrors[res]) /\ m_peers[id] \in PeerRecord
    BY <1>1, <1>2, ErrorsTyped DEF NodeInv, NodeTyped
  <2>2. m_peers'[id] = Scheduled(m_peers[id], ReceiveErrors[res])
    BY <1>1, <2>1 DEF Schedule
  <2> QED
    BY <2>1, <2>2 DEF Scheduled, PeerRecord
<1>5. CASE receive(m_peers[id].m_socket, res)
  BY <1>1, <1>3, <1>4, <1>5, ReceiveKeepsInv
<1>6. CASE KeepSockets
  BY <1>1, <1>3, <1>6, TableStepKeepsInv
<1> QED
  BY <1>2, <1>5, <1>6

\* The send thread
LEMMA SendToKeepsInv ==
  ASSUME NodeInv, NEW id \in Ids, NEW len \in Lengths, SendTo(id, len)
  PROVE  NodeInv'
<1>0. PICK o : o = m_peers[id].m_socket
  OBVIOUS
<1>1. id \in DOMAIN m_peers /\ UNCHANGED <<m_listener, new_peer, dial>>
  BY DEF SendTo, KeepDial
<1>2. PICK bytes \in 0 .. len, reported \in BOOLEAN :
        /\ send(o, len, bytes, reported)
        /\ IF reported
           THEN Schedule({id}, "PEER_WAS_DISCONNECTED_DUE_TO_ERROR")
           ELSE KeepTable
  BY <1>0 DEF SendTo
<1>3. EntriesKept
  <2>1. "PEER_WAS_DISCONNECTED_DUE_TO_ERROR" \in DisconnectType
    BY DEF DisconnectType
  <2> QED
    BY <1>2, <2>1, ScheduleKeeps, KeptTable DEF NodeInv
<1>4. /\ o \in objects /\ o \in Objects /\ sock[o] \in SocketRecord
      /\ Agrees(o) /\ sock[o].m_is_listener = FALSE
      /\ SocketsTyped /\ DescriptorsOwned
  BY <1>0, <1>1, EntryAlone DEF NodeInv
<1>5. sock[o].m_is_listening = FALSE
  BY <1>4 DEF Agrees
<1>6. PICK e \in {0, 1} : e = SendErrno(o, len, bytes, reported)
  <2>1. sock[o].m_last_errno \in {0, 1}
    BY <1>4 DEF SocketRecord
  <2> QED
    BY <2>1 DEF SendErrno, Errno
<1> DEFINE s == [sock[o] EXCEPT !.m_last_errno = e]
<1>7. Set(o, s) /\ UNCHANGED <<objects, kernel, inbox, blocking, errno>>
  BY <1>2, <1>6 DEF send, kernelVars
<1>8. /\ s \in SocketRecord /\ s.m_socket_fd = fd(o)
      /\ s.m_is_connected = sock[o].m_is_connected
      /\ s.m_is_listener = FALSE /\ s.m_is_listening = FALSE
  BY <1>4, <1>5 DEF SocketRecord, fd
<1> HIDE DEF s
<1>9. SockStep(objects \ {o}, o, fd(o)) /\ sock' = [sock EXCEPT ![o] = s]
  BY <1>4, <1>7, <1>8, QuietStep
<1>10. SocketsTyped' /\ sock'[o] = s
  BY <1>4, <1>7, <1>8, <1>9 DEF SocketsTyped
<1> QED
  BY <1>0, <1>1, <1>3, <1>7, <1>8, <1>9, <1>10, EntryOperation

\* disconnectPeer() and disconnectAll()
LEMMA DisconnectKeepsInv ==
  ASSUME NodeInv, (\E h \in Handles : disconnectPeer(h)) \/ disconnectAll
  PROVE  NodeInv'
<1>1. /\ \E ids : Schedule(ids, "PEER_WAS_DISCONNECTED")
      /\ KeepSockets /\ UNCHANGED <<m_listener, new_peer, dial>>
  BY DEF disconnectPeer, disconnectAll, KeepDial
<1>2. "PEER_WAS_DISCONNECTED" \in DisconnectType
  BY DEF DisconnectType
<1>3. EntriesKept
  BY <1>1, <1>2, ScheduleKeeps DEF NodeInv
<1> QED
  BY <1>1, <1>3, TableStepKeepsInv

\* The network changes the state of a connection, never to or from "closed"
\* or "listening".
LEMMA NetworkKeepsInv ==
  ASSUME NodeInv, NetworkStep
  PROVE  NodeInv'
<1>1. /\ UNCHANGED <<objects, sock, blocking, errno>> /\ UNCHANGED nodeVars
      /\ SocketsTyped
  BY DEF NetworkStep, Network, Answered, Arrive, Lost, NodeInv
<1>2. PICK d \in Descriptors :
        \/ \E state \in {"established", "broken"} : Answered(d, state)
        \/ Arrive(d)
        \/ \E state \in {"ended", "broken"} : Lost(d, state)
  BY DEF NetworkStep, Network
<1>3. \/ /\ kernel[d] \notin {"closed", "listening"}
         /\ \E state \in KernelStates \ {"closed", "listening"} :
              kernel' = [kernel EXCEPT ![d] = state]
      \/ UNCHANGED kernel
  BY <1>2 DEF Answered, Arrive, Lost, KernelStates
<1>4. kernel' \in [Descriptors -> KernelStates]
  BY <1>1, <1>3 DEF SocketsTyped
<1>5. \A e \in Descriptors :
        /\ kernel'[e] = "closed" <=> kernel[e] = "closed"
        /\ kernel'[e] = "listening" <=> kernel[e] = "listening"
  BY <1>1, <1>3 DEF SocketsTyped
<1>6. inbox' \in [Descriptors -> 0 .. MaxBytes]
  <2>1. CASE Arrive(d)
    <3>1. inbox[d] \in 0 .. MaxBytes /\ inbox[d] < MaxBytes
      BY <1>1, <2>1 DEF Arrive, SocketsTyped
    <3>2. inbox[d] + 1 \in 0 .. MaxBytes
      BY <3>1, SocketAssumption
    <3> QED
      BY <1>1, <2>1, <3>2 DEF Arrive, SocketsTyped
  <2>2. CASE UNCHANGED inbox
    BY <1>1, <2>2 DEF SocketsTyped
  <2> QED
    BY <1>2, <2>1, <2>2 DEF Answered, Lost
<1>7. SocketsTyped'
  BY <1>1, <1>4, <1>6 DEF SocketsTyped
<1>8. NodeTyped' /\ DialOK' /\ TableOK' /\ SocketsOwned'
  <2>1. TableSockets' = TableSockets
    BY <1>1 DEF nodeVars, TableSockets
  <2> QED
    BY <1>1, <2>1
       DEF NodeInv, nodeVars, NodeTyped, DialOK, TableOK, SocketsOwned, fd
<1>9. ASSUME NEW o \in objects
      PROVE  fd(o)' = fd(o) /\ fd(o) \in Descriptors \cup {-1}
  BY <1>1 DEF SocketsTyped, SocketRecord, fd
<1>10. DescriptorsOwned'
  BY <1>1, <1>5, <1>9 DEF NodeInv, DescriptorsOwned, SocketsTyped
<1>11. FlagsAgree'
  <2>1. ASSUME NEW o \in objects PROVE Agrees(o)'
    <3>1. Agrees(o)
      BY DEF NodeInv, FlagsAgree, Agrees
    <3>2. fd(o)' # -1 /\ kernel'[fd(o)'] = "listening" <=>
            fd(o) # -1 /\ kernel[fd(o)] = "listening"
      BY <1>1, <1>5, <1>9
    <3> QED
      BY <1>1, <1>9, <3>1, <3>2 DEF Agrees, nodeVars
  <2> QED
    BY <1>1, <2>1, AllAgree
<1> QED
  BY <1>7, <1>8, <1>10, <1>11 DEF NodeInv

\* Every step of the connections keeps the invariant.
LEMMA NodeInvInductive ==
  ASSUME NodeInv, [Next]_vars
  PROVE  NodeInv'
<1>1. ASSUME UNCHANGED socketVars, UNCHANGED nodeVars PROVE NodeInv'
  <2>1. KeepTable /\ KeepSockets /\ UNCHANGED <<m_listener, new_peer, dial>>
    BY <1>1 DEF nodeVars, KeepTable, KeepSockets
  <2> QED
    BY <2>1, KeptTable, TableStepKeepsInv
<1>2. CASE UNCHANGED vars
  BY <1>1, <1>2 DEF vars
<1>3. CASE \/ \E h \in Handles : latestPeer(h)
           \/ \E h \in Handles, id \in Ids : allPeers(h, id)
           \/ UsePeers
  BY <1>1, <1>3 DEF latestPeer, allPeers, UsePeers, KeepSockets
<1> QED
  BY <1>2, <1>3, ListenKeepsInv, StopKeepsInv, ReplaceKeepsInv,
     QuietKeepsInv, AcceptKeepsInv, CreateKeepsInv, DialKeepsInv,
     FailedKeepsInv, ReportedKeepsInv, ConnectedKeepsInv, ReceiveFromKeepsInv, SendToKeepsInv,
     DeleteKeepsInv, DisconnectKeepsInv, NetworkKeepsInv DEF Next

\* It holds at the start.
LEMMA InitNodeInv ==
  ASSUME Init
  PROVE  NodeInv
<1>1. /\ m_listener \in Objects /\ objects = {m_listener}
      /\ m_listener # nullptr
  <2>1. Objects \subseteq Nat /\ Objects # {} /\ 0 \notin Objects
    BY SocketAssumption
  <2> QED
    BY <2>1, MinMember DEF Init, SocketInit, nullptr
<1>2. SocketsTyped
  <2>1. 0 \in 0 .. MaxBytes
    BY SocketAssumption
  <2> QED
    BY <1>1, <2>1, NewSocketClosed
       DEF Init, SocketInit, SocketsTyped, KernelStates
<1>3. /\ new_peer = nullptr /\ dial = "off" /\ DOMAIN m_peers = {}
      /\ m_connection_counter = 0 /\ sock[m_listener] = NewSocket
      /\ \A d \in Descriptors : kernel[d] = "closed"
      /\ blocking = {}
  BY <1>1 DEF Init, SocketInit
<1>4. NodeTyped /\ DialOK /\ TableOK
  BY <1>1, <1>3 DEF NodeTyped, DialOK, TableOK
<1>5. TableSockets = {}
  BY <1>3 DEF TableSockets
<1>6. SocketsOwned
  BY <1>1, <1>3, <1>5 DEF SocketsOwned
<1>7. fd(m_listener) = -1
  BY <1>3, NewSocketClosed DEF fd
<1>8. DescriptorsOwned
  BY <1>1, <1>3, <1>7 DEF DescriptorsOwned
<1>9. FlagsAgree
  BY <1>1, <1>3, <1>7, NewSocketClosed DEF FlagsAgree
<1> QED
  BY <1>2, <1>4, <1>6, <1>8, <1>9 DEF NodeInv

-----------------------------------------------------------------------------
(***************************************************************************)
(* The theorems.                                                           *)
(***************************************************************************)
\* The invariant holds in every state of every behaviour.
LEMMA AlwaysNodeInv == Spec => []NodeInv
<1>1. Init => NodeInv
  BY InitNodeInv
<1>2. NodeInv /\ [Next]_vars => NodeInv'
  BY NodeInvInductive
<1> QED
  BY <1>1, <1>2, PTL DEF Spec

\* However sockets are opened, dialled, accepted, closed and deleted, and
\* whichever system call fails: no two Sockets share a descriptor, none has one
\* that is closed, and an open descriptor that no Socket has is a listening one
\* that listen() could not make non-blocking.
THEOREM AlwaysDescriptorsOwned == Spec => []DescriptorsOwned
<1>1. NodeInv => DescriptorsOwned
  BY DEF NodeInv
<1> QED
  BY <1>1, AlwaysNodeInv, PTL

\* Every Socket has one owner - the node, the connect thread or a connection -
\* and an error path neither loses a Socket nor leaves a pointer to one that
\* is deleted.
THEOREM AlwaysSocketsOwned == Spec => []SocketsOwned
<1>1. NodeInv => SocketsOwned
  BY DEF NodeInv
<1> QED
  BY <1>1, AlwaysNodeInv, PTL

\* The flags of a Socket say what its descriptor is, the blocking one that a
\* failed listen() leaves included, and a connection in the table is connected
\* or scheduled for deletion.
THEOREM AlwaysFlagsAgree == Spec => []FlagsAgree
<1>1. NodeInv => FlagsAgree
  BY DEF NodeInv
<1> QED
  BY <1>1, AlwaysNodeInv, PTL

\* The loop around connect() never has a second round: whatever errno the
\* thread had and whichever call failed, the close() that follows leaves one.
THEOREM AlwaysNeverRedialled == Spec => NeverRedialled
<1>1. ASSUME NodeInv, [Next]_vars, dial = "failed"
      PROVE  dial' # "created"
  <2>1. CASE DialFailed
    BY <1>1, <2>1, FailedKeepsInv
  <2>2. CASE UNCHANGED dial
    BY <1>1, <2>2
  <2>3. CASE UNCHANGED vars
    BY <1>1, <2>3 DEF vars, nodeVars
  <2>4. DialFailed \/ UNCHANGED dial \/ UNCHANGED vars
    BY <1>1
       DEF Next, Listen, StopListening, setListener, SetBufferSize, Accept,
           AcceptNothing, CreateSocket, Dial, DialEnd, DialReported, Connected,
           ReceiveFrom, SendTo, Delete, disconnectPeer, disconnectAll,
           allPeers, latestPeer, UsePeers, NetworkStep, KeepDial, nodeVars
  <2> QED
    BY <2>1, <2>2, <2>3, <2>4
<1>2. NodeInv /\ [Next]_vars => [dial = "failed" => dial' # "created"]_vars
  BY <1>1
<1> QED
  BY <1>2, AlwaysNodeInv, PTL DEF Spec, NeverRedialled

=============================================================================
