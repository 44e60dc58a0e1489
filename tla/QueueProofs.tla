----------------------------- MODULE QueueProofs ------------------------------
(***************************************************************************)
(* The queues of the connect and the send thread, for any number of calls, *)
(* application threads and connections: requests are dialled and buffers   *)
(* are handled in the order of the calls.                                  *)
(***************************************************************************)
EXTENDS TcpNodeProofs

USE DEF Workers, Threads, Ids, locks, peerVars, listenerVars, flagVars,
        lifeVars, connectLocals, connectVars, sendVars, listenLocals,
        callerVars, ListenMoves, SendMoves, OnlyMoves, ListenResults

-----------------------------------------------------------------------------
(***************************************************************************)
(* push_back(), pop_front() and an assignment to an element, element by    *)
(* element.                                                                *)
(***************************************************************************)
\* The elements of a queue after push_back().
LEMMA AppendElements ==
  ASSUME NEW S, NEW s \in Seq(S), NEW e \in S
  PROVE  /\ DOMAIN Append(s, e) = 1 .. Len(s) + 1
         /\ Len(Append(s, e)) = Len(s) + 1
         /\ \A k \in 1 .. Len(s) : Append(s, e)[k] = s[k]
         /\ Append(s, e)[Len(s) + 1] = e
  OBVIOUS

\* The elements of a queue after pop_front().
LEMMA TailElements ==
  ASSUME NEW S, NEW s \in Seq(S), s # <<>>
  PROVE  /\ Len(s) \in Nat \ {0}
         /\ DOMAIN s = 1 .. Len(s)
         /\ Head(s) = s[1]
         /\ Len(Tail(s)) = Len(s) - 1
         /\ DOMAIN Tail(s) = 1 .. Len(s) - 1
         /\ \A k \in 1 .. Len(s) - 1 : Tail(s)[k] = s[k + 1]
  OBVIOUS

\* The elements of a sequence of which one is overwritten.
LEMMA UpdateElements ==
  ASSUME NEW S, NEW s \in Seq(S), NEW e \in S, NEW n \in 1 .. Len(s)
  PROVE  /\ Len([s EXCEPT ![n] = e]) = Len(s)
         /\ DOMAIN [s EXCEPT ![n] = e] = 1 .. Len(s)
         /\ \A k \in 1 .. Len(s) :
              [s EXCEPT ![n] = e][k] = IF k = n THEN e ELSE s[k]
  OBVIOUS

-----------------------------------------------------------------------------
(***************************************************************************)
(* The connect thread: m requests were made, of which the last n are in    *)
(* the queue q; d counts how often each was dialled.                       *)
(***************************************************************************)
DialOrder(d, m, q, n) ==
  /\ n <= m
  /\ \A k \in 1 .. n : q[k] = (m - n) + k
  /\ \A r \in 1 .. m : /\ r <= m - n => d[r] > 0
                       /\ r > (m - n) + 1 => d[r] = 0

\* connectTo() numbers the new request after all the others.
LEMMA OrderAppend ==
  ASSUME NEW d, NEW m \in Nat, NEW q, NEW n \in Nat, DialOrder(d, m, q, n),
         NEW e, \A k \in 1 .. m : e[k] = d[k], e[m + 1] = 0,
         NEW p, \A k \in 1 .. n : p[k] = q[k], p[n + 1] = m + 1
  PROVE  DialOrder(e, m + 1, p, n + 1)
  BY DEF DialOrder

\* Dialling the request at the front keeps the order.
LEMMA OrderDial ==
  ASSUME NEW d, NEW m \in Nat, NEW q, NEW n \in Nat \ {0},
         DialOrder(d, m, q, n),
         NEW e, e[q[1]] > 0, \A k \in 1 .. m : k # q[1] => e[k] = d[k]
  PROVE  DialOrder(e, m, q, n)
  BY DEF DialOrder

\* pop_front() of a request that was dialled keeps it, too.
LEMMA OrderTail ==
  ASSUME NEW d, NEW m \in Nat, NEW q, NEW n \in Nat \ {0},
         DialOrder(d, m, q, n), d[q[1]] > 0,
         NEW p, \A k \in 1 .. n - 1 : p[k] = q[k + 1]
  PROVE  DialOrder(d, m, p, n - 1)
  BY DEF DialOrder

Dialled ==
  DialOrder(dialled, Len(dialled), m_potential_peers, Len(m_potential_peers))

\* Dialled after a step, in terms of the new values.
LEMMA DialledNext ==
  DialOrder(dialled', Len(dialled'), m_potential_peers',
            Len(m_potential_peers'))
  => Dialled'
  BY DEF Dialled, DialOrder

\* That is what DialledInOrder says.
LEMMA DialledIsOrder ==
  ASSUME QueuesOK, Dialled
  PROVE  DialledInOrder
<1>1. /\ DOMAIN dialled = 1 .. Len(dialled)
      /\ DOMAIN m_potential_peers = 1 .. Len(m_potential_peers)
  BY DEF QueuesOK
<1> QED
  BY <1>1 DEF Dialled, DialOrder, DialledInOrder

\* From the first connect() of a round to its pop_front(), the request at the
\* front is one that was dialled.
FrontDialled ==
  pc["connect"] \in {"connect", "connected", "pop"} =>
    dialled[Head(m_potential_peers)] > 0

DialInv == Dialled /\ FrontDialled

\* A step of the connect thread keeps the order.
LEMMA ConnectDials ==
  ASSUME InvParts, DialInv, _connectThreadJob
  PROVE  DialInv'
<1> DEFINE f == Head(m_potential_peers)
           m == Len(dialled)
           n == Len(m_potential_peers)
<1>1. QueuesOK /\ PcOK /\ m \in Nat /\ n \in Nat
  BY DEF InvParts, TypeOK, QueuesOK
<1>2. m_potential_peers # <<>> =>
        n # 0 /\ f = m_potential_peers[1] /\ f \in 1 .. m
  BY <1>1, TailElements, HeadTyped DEF QueuesOK
<1>3. CASE ConnectFront
  <2>1. m_potential_peers # <<>>
    BY <1>3 DEF ConnectFront, InvParts, FrontExists
  <2> DEFINE c == dialled[f] + 1
  <2>2. f \in 1 .. m /\ c \in Nat /\ c > 0
    BY <1>1, <1>2, <2>1 DEF QueuesOK
  <2>3. dialled' = [dialled EXCEPT ![f] = c]
    BY <1>3 DEF ConnectFront
  <2> HIDE DEF c, f
  <2>4. /\ Len(dialled') = m
        /\ \A k \in 1 .. m : dialled'[k] = IF k = f THEN c ELSE dialled[k]
    BY <1>1, <2>2, <2>3, UpdateElements DEF QueuesOK
  <2>5. Dialled'
    <3>1. UNCHANGED m_potential_peers
      BY <1>3 DEF ConnectFront
    <3>2. /\ dialled'[m_potential_peers[1]] > 0
          /\ \A k \in 1 .. m :
               k # m_potential_peers[1] => dialled'[k] = dialled[k]
      BY <1>2, <2>1, <2>2, <2>4
    <3> HIDE DEF m, n
    <3>3. DialOrder(dialled', m, m_potential_peers, n)
      BY <1>1, <1>2, <2>1, <3>2, OrderDial DEF DialInv, Dialled, m, n
    <3> QED
      BY <2>4, <3>1, <3>3, DialledNext DEF m, n
  <2>6. dialled'[Head(m_potential_peers')] > 0
    BY <1>3, <2>2, <2>4 DEF ConnectFront, f
  <2> QED
    BY <2>5, <2>6 DEF DialInv, FrontDialled
<1>4. CASE ConnectPop
  <2>1. m_potential_peers # <<>> /\ dialled[f] > 0
    BY <1>4 DEF ConnectPop, InvParts, FrontExists, DialInv, FrontDialled
  <2>2. /\ Len(m_potential_peers') = n - 1
        /\ \A k \in 1 .. n - 1 :
             m_potential_peers'[k] = m_potential_peers[k + 1]
    BY <1>1, <1>4, <2>1, TailElements DEF ConnectPop, QueuesOK
  <2> HIDE DEF f
  <2>3. Dialled'
    BY <1>1, <1>2, <1>4, <2>1, <2>2, OrderTail, DialledNext
       DEF ConnectPop, DialInv, Dialled
  <2>4. pc'["connect"] = "while"
    BY <1>1, <1>4 DEF ConnectPop, Go, PcOK
  <2> QED
    BY <2>3, <2>4 DEF DialInv, FrontDialled
<1>5. CASE ~ConnectFront /\ ~ConnectPop
  <2>1. UNCHANGED <<dialled, m_potential_peers>>
    BY <1>5, ConnectFrame
  <2>2. pc'["connect"] \in {"connect", "connected", "pop"} =>
          pc["connect"] \in {"connect", "connected"}
    BY <1>1, <1>5 DEF PcOK, _connectThreadJob, ConnectWhile, ConnectSize,
       _pauseUntilQueueNotEmpty, ConnectRetry, ConnectFailed,
       ConnectSucceeded, ConnectCallback, Go, PauseTest, PauseBlock,
       GoAndNotify, Woken
  <2> QED
    BY <2>1, <2>2 DEF DialInv, Dialled, FrontDialled
<1> QED
  BY <1>3, <1>4, <1>5

\* connectTo() appends to the queue and to what is counted.
LEMMA ConnectToDials ==
  ASSUME InvParts, DialInv, NEW c \in Callers, connectTo(c)
  PROVE  DialInv'
<1> DEFINE m == Len(dialled)
           n == Len(m_potential_peers)
<1>1. QueuesOK /\ PcOK /\ m \in Nat /\ n \in Nat
  BY DEF InvParts, TypeOK, QueuesOK
<1>2. /\ Len(dialled') = m + 1
      /\ \A k \in 1 .. m : dialled'[k] = dialled[k]
      /\ dialled'[m + 1] = 0
  BY <1>1, AppendElements DEF connectTo, QueuesOK
<1>3. m_potential_peers \in Seq(Nat)
  BY <1>1, WidenSeq DEF QueuesOK
<1>4. /\ Len(m_potential_peers') = n + 1
      /\ \A k \in 1 .. n : m_potential_peers'[k] = m_potential_peers[k]
      /\ m_potential_peers'[n + 1] = m + 1
  BY <1>1, <1>2, <1>3, AppendElements DEF connectTo
<1>5. Dialled'
  BY <1>1, <1>2, <1>4, OrderAppend, DialledNext DEF DialInv, Dialled
<1>6. FrontDialled'
  <2> SUFFICES ASSUME pc'["connect"] \in {"connect", "connected", "pop"}
               PROVE  dialled'[Head(m_potential_peers')] > 0
    BY DEF FrontDialled
  <2>1. pc["connect"] = pc'["connect"]
    BY <1>1, CallersDistinct DEF connectTo, Started, PcOK
  <2>2. m_potential_peers # <<>> /\ dialled[Head(m_potential_peers)] > 0
    BY <2>1 DEF InvParts, FrontExists, DialInv, FrontDialled
  <2>3. n # 0 /\ Head(m_potential_peers) = m_potential_peers[1]
    BY <1>3, <2>2, TailElements
  <2>4. Head(m_potential_peers) \in 1 .. m
    BY <1>1, <2>2, HeadTyped DEF QueuesOK
  <2>5. Head(m_potential_peers') = m_potential_peers'[1]
    BY <1>1, <1>2, <1>3, AppendTyped, AppendNotEmpty, TailElements
       DEF connectTo
  <2> QED
    BY <1>1, <1>2, <1>4, <2>2, <2>3, <2>4, <2>5
<1> QED
  BY <1>5, <1>6 DEF DialInv

\* Every other step leaves the queue and the connect thread's round alone.
LEMMA OthersDial ==
  ASSUME DialInv, NEW t \in Threads, t # "connect", LockStep(t),
         UNCHANGED <<dialled, m_potential_peers>>
  PROVE  DialInv'
  BY DialledNext DEF DialInv, Dialled, FrontDialled, LockStep

\* Every step keeps the requests in order.
LEMMA NextDials == InvParts /\ DialInv /\ [Next]_vars => DialInv'
<1> SUFFICES ASSUME InvParts, DialInv, [Next]_vars PROVE DialInv'
  OBVIOUS
<1> USE DEF InvParts, TypeOK
<1>1. CASE _connectThreadJob
  BY <1>1, ConnectDials
<1>2. CASE _sendThreadJob
  BY <1>2, SendLockStep, SendFrame, OthersDial DEF sendUnchanged
<1>3. CASE _listenThreadJob
  BY <1>3, ListenLockStep, ListenFrame, OthersDial DEF listenUnchanged
<1>4. ASSUME NEW c \in Callers, Call(c) PROVE DialInv'
  BY <1>4, ConnectToDials, CallLockStep, CallersDistinct, CallFrame, OthersDial
<1>5. ASSUME NEW c \in Callers, Continue(c) PROVE DialInv'
  BY <1>5, ContinueLockStep, CallersDistinct, ContinueFrame, OthersDial
<1>6. ASSUME NEW w \in Workers, SpuriousWakeup(w) PROVE DialInv'
  <2>1. UNCHANGED <<dialled, m_potential_peers>>
    BY <1>6 DEF SpuriousWakeup
  <2>2. pc'["connect"] \in {pc["connect"], "pause"}
    BY <1>6 DEF SpuriousWakeup, Go, PcOK
  <2> QED
    BY <2>1, <2>2, DialledNext DEF DialInv, Dialled, FrontDialled
<1>7. CASE UNCHANGED vars
  BY <1>7, DialledNext DEF vars, DialInv, Dialled, FrontDialled
<1> QED
  BY <1>1, <1>2, <1>3, <1>4, <1>5, <1>6, <1>7 DEF Next

\* No request has been made of a new node.
LEMMA InitDials == Init => DialInv
  BY DEF Init, DialInv, Dialled, DialOrder, FrontDialled

\* Requests are dialled in the order of the connectTo() calls, none is
\* overtaken, and none leaves m_potential_peers without having been dialled,
\* whatever calls are made while the connect thread is in the middle of a round.
THEOREM AlwaysDialledInOrder == Spec => []DialledInOrder
<1>1. Inv /\ DialInv /\ [Next]_vars => DialInv'
  BY NextDials, InvIsItsParts
<1>2. Inv /\ DialInv => DialledInOrder
  BY DialledIsOrder DEF Inv, TypeOK, DialInv
<1> QED
  BY <1>1, <1>2, InitDials, InvAlways, PTL DEF Spec

-----------------------------------------------------------------------------
(***************************************************************************)
(* The send thread: of m buffers, o says what became of them; the last n   *)
(* are in the list q, and the first b (0 or 1) of these are being sent.    *)
(***************************************************************************)
SendOrder(o, m, q, n, b) ==
  /\ b <= n /\ n <= m
  /\ \A k \in 1 .. n : q[k].buf = (m - n) + k
  /\ \A r \in 1 .. m : o[r] = "queued" <=> r > (m - n) + b

\* sendData() numbers the new buffer after all the others.
LEMMA SendAppend ==
  ASSUME NEW o, NEW m \in Nat, NEW q, NEW n \in Nat, NEW b \in {0, 1},
         SendOrder(o, m, q, n, b),
         NEW e, \A k \in 1 .. m : e[k] = o[k], e[m + 1] = "queued",
         NEW p, \A k \in 1 .. n : p[k] = q[k], p[n + 1].buf = m + 1
  PROVE  SendOrder(e, m + 1, p, n + 1, b)
  BY DEF SendOrder

\* Recording what became of the first buffer marks that one and no other.
LEMMA SendRecord ==
  ASSUME NEW o, NEW m \in Nat, NEW q, NEW n \in Nat \ {0},
         SendOrder(o, m, q, n, 0),
         NEW e, e[q[1].buf] # "queued",
         \A k \in 1 .. m : k # q[1].buf => e[k] = o[k]
  PROVE  SendOrder(e, m, q, n, 1)
  BY DEF SendOrder

\* pop_front() takes the buffer away that was recorded.
LEMMA SendTail ==
  ASSUME NEW o, NEW m \in Nat, NEW q, NEW n \in Nat \ {0},
         SendOrder(o, m, q, n, 1),
         NEW p, \A k \in 1 .. n - 1 : p[k] = q[k + 1]
  PROVE  SendOrder(o, m, p, n - 1, 0)
  BY DEF SendOrder

Busy == IF pc["send"] \in {"sent", "onSend", "nopeer", "onSendError"}
        THEN 1 ELSE 0

SendInOrder ==
  SendOrder(outcome, Len(outcome), m_data_to_send, Len(m_data_to_send), Busy)

\* SendInOrder after a step, in terms of the new values.
LEMMA SendNext ==
  ASSUME NEW b, b = Busy',
         SendOrder(outcome', Len(outcome'), m_data_to_send',
                   Len(m_data_to_send'), b)
  PROVE  SendInOrder'
  BY DEF SendInOrder, SendOrder

\* That is what SentInOrder says.
LEMMA SentIsOrder ==
  ASSUME QueuesOK, SendInOrder
  PROVE  SentInOrder
<1>1. /\ DOMAIN outcome = 1 .. Len(outcome)
      /\ DOMAIN m_data_to_send = 1 .. Len(m_data_to_send)
  BY DEF QueuesOK
<1> QED
  BY <1>1 DEF SendInOrder, SendOrder, SentInOrder, Busy

\* Recording what became of the first buffer, from a state in which the send
\* thread was not yet busy with it.
LEMMA RecordKeepsOrder ==
  ASSUME QueuesOK, SendInOrder, Busy = 0, m_data_to_send # <<>>,
         NEW r \in Outcomes \ {"queued"}, Record(r)
  PROVE  /\ Len(outcome') = Len(outcome)
         /\ SendOrder(outcome', Len(outcome), m_data_to_send,
                      Len(m_data_to_send), 1)
<1> DEFINE b == curr_out_buffer.buf
           m == Len(outcome)
           n == Len(m_data_to_send)
<1>1. n \in Nat \ {0} /\ m \in Nat /\ b = m_data_to_send[1].buf
  BY TailElements DEF QueuesOK, curr_out_buffer
<1>2. b \in 1 .. m
  <2>1. curr_out_buffer \in Buffers
    BY HeadTyped DEF QueuesOK, curr_out_buffer
  <2> QED
    BY <2>1 DEF Buffers
<1>3. outcome' = [outcome EXCEPT ![b] = r]
  BY DEF Record
<1> HIDE DEF b
<1>4. /\ Len(outcome') = m
      /\ \A k \in 1 .. m : outcome'[k] = IF k = b THEN r ELSE outcome[k]
  BY <1>2, <1>3, UpdateElements DEF QueuesOK
<1>5. SendOrder(outcome, m, m_data_to_send, n, 0)
  BY DEF SendInOrder
<1> HIDE DEF m, n
<1>6. SendOrder(outcome', m, m_data_to_send, n, 1)
  BY <1>1, <1>2, <1>4, <1>5, SendRecord
<1> QED
  BY <1>4, <1>6 DEF m, n

\* pop_front() once it was recorded, now or earlier.
LEMMA PopKeepsOrder ==
  ASSUME QueuesOK, PcOK, m_data_to_send # <<>>, PopAndUnlock,
         Len(outcome') = Len(outcome),
         SendOrder(outcome', Len(outcome), m_data_to_send,
                   Len(m_data_to_send), 1)
  PROVE  SendInOrder'
<1> DEFINE m == Len(outcome)
           n == Len(m_data_to_send)
<1>1. m \in Nat /\ n \in Nat \ {0}
  BY TailElements DEF QueuesOK
<1>2. /\ Len(m_data_to_send') = n - 1
      /\ \A k \in 1 .. n - 1 : m_data_to_send'[k] = m_data_to_send[k + 1]
  BY TailElements DEF QueuesOK, PopAndUnlock
<1>3. SendOrder(outcome', m, m_data_to_send, n, 1)
  OBVIOUS
<1> HIDE DEF m, n
<1>4. SendOrder(outcome', m, m_data_to_send', n - 1, 0)
  BY <1>1, <1>2, <1>3, SendTail
<1>5. Busy' = 0
  BY DEF PopAndUnlock, Go, PcOK, Busy
<1> QED
  BY <1>2, <1>4, <1>5, SendNext DEF m, n

\* A step of the send thread keeps the buffers in order.
LEMMA SendKeepsOrder ==
  ASSUME InvParts, SendInOrder, _sendThreadJob
  PROVE  SendInOrder'
<1>1. QueuesOK /\ PcOK
  BY DEF InvParts, TypeOK
<1>2. SendLocked => Busy = 0
  BY DEF SendLocked, Busy
<1>3. CASE SendNoPeer
  <2>1. /\ Len(outcome') = Len(outcome)
        /\ SendOrder(outcome', Len(outcome), m_data_to_send,
                     Len(m_data_to_send), 1)
    BY <1>1, <1>2, <1>3, RecordKeepsOrder DEF SendNoPeer, Outcomes
  <2>2. Busy' = 1 /\ UNCHANGED m_data_to_send
    BY <1>1, <1>3 DEF SendNoPeer, Busy, Go, PcOK
  <2> QED
    BY <2>1, <2>2, SendNext
<1>4. CASE SendBytes
  <2>1. PICK r \in {"sent", "partial"} : Record(r)
    BY <1>4 DEF SendBytes
  <2>2. /\ Len(outcome') = Len(outcome)
        /\ SendOrder(outcome', Len(outcome), m_data_to_send,
                     Len(m_data_to_send), 1)
    BY <1>1, <1>2, <1>4, <2>1, RecordKeepsOrder
       DEF SendBytes, Sendable, Outcomes
  <2>3. Busy' = 1 /\ UNCHANGED m_data_to_send
    BY <1>1, <1>4 DEF SendBytes, Busy, Go, PcOK
  <2> QED
    BY <2>2, <2>3, SendNext
<1>5. CASE SendDropped
  BY <1>1, <1>2, <1>5, RecordKeepsOrder, PopKeepsOrder
     DEF SendDropped, Outcomes
<1>6. CASE SendFailed
  BY <1>1, <1>2, <1>6, RecordKeepsOrder, PopKeepsOrder
     DEF SendFailed, Sendable, Outcomes
<1>7. CASE SendFinished
  <2>1. m_data_to_send # <<>> /\ Busy = 1
    BY <1>7 DEF SendFinished, InvParts, FrontExists, Busy
  <2>2. SendOrder(outcome', Len(outcome), m_data_to_send,
                  Len(m_data_to_send), 1)
    BY <1>7, <2>1 DEF SendFinished, SendInOrder
  <2> QED
    BY <1>1, <1>7, <2>1, <2>2, PopKeepsOrder DEF SendFinished
<1>8. CASE /\ ~SendNoPeer /\ ~SendBytes /\ ~SendDropped /\ ~SendFailed
           /\ ~SendFinished
  <2>1. UNCHANGED sendVars
    BY <1>8, SendFrame
  <2>2. Busy' = Busy
    BY <1>1, <1>8 DEF PcOK, Busy, _sendThreadJob, SendWhile, SendPause,
       _pauseUntilDataToSendAvailable, SendNothing, SendSentCallback,
       SendErrorCallback, SendCallback, SendFinished, SendLocked, PauseTest,
       PauseBlock, Go
  <2> QED
    BY <2>1, <2>2, SendNext DEF SendInOrder
<1> QED
  BY <1>3, <1>4, <1>5, <1>6, <1>7, <1>8

\* sendData() appends to the list and to what is recorded.
LEMMA SendDataKeepsOrder ==
  ASSUME InvParts, SendInOrder, NEW c \in Callers, NEW id \in Ids,
         NEW len \in Lengths, sendData(c, id, len)
  PROVE  SendInOrder'
<1> DEFINE m == Len(outcome)
           n == Len(m_data_to_send)
           x == [buf |-> Len(outcome'), peer |-> id, len |-> len]
<1>1. QueuesOK /\ PcOK /\ m \in Nat /\ n \in Nat
  BY DEF InvParts, TypeOK, QueuesOK
<1>2. /\ Len(outcome') = m + 1
      /\ \A k \in 1 .. m : outcome'[k] = outcome[k]
      /\ outcome'[m + 1] = "queued"
  BY <1>1, AppendElements DEF sendData, QueuesOK, Outcomes
<1>3. m_data_to_send \in Seq(Buffers \cup {x})
  BY <1>1, WidenSeq DEF QueuesOK
<1>4. m_data_to_send' = Append(m_data_to_send, x) /\ x.buf = m + 1
  BY <1>2 DEF sendData
<1> HIDE DEF x
<1>5. /\ Len(m_data_to_send') = n + 1
      /\ \A k \in 1 .. n : m_data_to_send'[k] = m_data_to_send[k]
      /\ m_data_to_send'[n + 1] = x
  BY <1>3, <1>4, AppendElements
<1>6. Busy' = Busy
  BY <1>1, CallersDistinct DEF sendData, Started, PcOK, Busy, InvParts,
     FlagsHonest, Calls
<1>7. SendOrder(outcome, m, m_data_to_send, n, Busy) /\ Busy \in {0, 1}
  BY DEF SendInOrder, Busy
<1> HIDE DEF m, n
<1>8. SendOrder(outcome', m + 1, m_data_to_send', n + 1, Busy)
  <2>1. m_data_to_send'[n + 1].buf = m + 1
    BY <1>4, <1>5
  <2>2. m \in Nat /\ n \in Nat
    BY <1>1
  <2>3. PICK e, p, o, q :
          /\ e = outcome' /\ p = m_data_to_send'
          /\ o = outcome /\ q = m_data_to_send
    OBVIOUS
  <2>4. PICK b \in {0, 1} : b = Busy
    BY <1>7
  <2>5. /\ \A k \in 1 .. m : e[k] = o[k]
        /\ \A k \in 1 .. n : p[k] = q[k]
    BY <1>2, <1>5, <2>3
  <2>6. e[m + 1] = "queued" /\ p[n + 1].buf = m + 1
    BY <1>2, <2>1, <2>3
  <2>7. SendOrder(o, m, q, n, b)
    BY <1>7, <2>3, <2>4
  <2>8. SendOrder(e, m + 1, p, n + 1, b)
    BY <2>2, <2>5, <2>6, <2>7, SendAppend
  <2> QED
    BY <2>3, <2>4, <2>8
<1> QED
  BY <1>2, <1>5, <1>6, <1>8, SendNext DEF m, n

\* Every other step leaves the list and the send thread's buffer alone.
LEMMA OthersKeepOrder ==
  ASSUME SendInOrder, NEW t \in Threads, t # "send", LockStep(t),
         UNCHANGED sendVars
  PROVE  SendInOrder'
<1>1. Busy' = Busy
  BY DEF LockStep, Busy
<1> QED
  BY <1>1, SendNext DEF SendInOrder

\* Every step keeps the buffers in order.
LEMMA NextKeepsOrder == InvParts /\ SendInOrder /\ [Next]_vars => SendInOrder'
<1> SUFFICES ASSUME InvParts, SendInOrder, [Next]_vars PROVE SendInOrder'
  OBVIOUS
<1> USE DEF InvParts, TypeOK
<1>1. CASE _connectThreadJob
  BY <1>1, ConnectLockStep, ConnectFrame, OthersKeepOrder DEF connectUnchanged
<1>2. CASE _sendThreadJob
  BY <1>2, SendKeepsOrder
<1>3. CASE _listenThreadJob
  BY <1>3, ListenLockStep, ListenFrame, OthersKeepOrder DEF listenUnchanged
<1>4. ASSUME NEW c \in Callers, Call(c) PROVE SendInOrder'
  BY <1>4, SendDataKeepsOrder, CallLockStep, CallersDistinct, CallFrame,
     OthersKeepOrder
<1>5. ASSUME NEW c \in Callers, Continue(c) PROVE SendInOrder'
  BY <1>5, ContinueLockStep, CallersDistinct, ContinueFrame, OthersKeepOrder
<1>6. ASSUME NEW w \in Workers, SpuriousWakeup(w) PROVE SendInOrder'
  <2>1. UNCHANGED sendVars /\ Busy' = Busy
    BY <1>6 DEF SpuriousWakeup, Go, PcOK, Busy
  <2> QED
    BY <2>1, SendNext DEF SendInOrder
<1>7. CASE UNCHANGED vars
  <2>1. UNCHANGED sendVars /\ Busy' = Busy
    BY <1>7 DEF vars, Busy
  <2> QED
    BY <2>1, SendNext DEF SendInOrder
<1> QED
  BY <1>1, <1>2, <1>3, <1>4, <1>5, <1>6, <1>7 DEF Next

\* A new node has nothing to send.
LEMMA InitKeepsOrder == Init => SendInOrder
  BY DEF Init, SendInOrder, SendOrder, Busy

\* Every buffer that sendData() accepted is handled once and in the order of
\* the calls: what is in m_data_to_send is exactly what nothing has happened to
\* yet, but for the buffer the send thread is busy with.
THEOREM AlwaysSentInOrder == Spec => []SentInOrder
<1>1. Inv /\ SendInOrder /\ [Next]_vars => SendInOrder'
  BY NextKeepsOrder, InvIsItsParts
<1>2. Inv /\ SendInOrder => SentInOrder
  BY SentIsOrder DEF Inv, TypeOK
<1> QED
  BY <1>1, <1>2, InitKeepsOrder, InvAlways, PTL DEF Spec

=============================================================================
