-------------------------------- MODULE Socket --------------------------------
(***************************************************************************)
(* Socket objects (Socket.cpp, as built for Linux) and the descriptors the *)
(* kernel gives them.  An operation is one step, but for connect(), which  *)
(* sleeps between the two system calls it makes.  Addresses and payloads   *)
(* are left out: a descriptor has a state and a number of unread bytes.    *)
(***************************************************************************)
EXTENDS ISocket, Integers, FiniteSetsExt

CONSTANTS
  Objects,      \* addresses at which a Socket can be allocated
  Descriptors,  \* descriptors the process may have open
  Ports,        \* ports that listen() is called with
  Sizes,        \* values of setReceiveBufferSize()
  DefaultSize,  \* SPW_DEF_RECBUF_SIZE
  MaxAddresses, \* addresses that getaddrinfo() finds to listen at
  MaxBytes      \* bound on the unread bytes of a descriptor

ASSUME SocketAssumption ==
  /\ Objects \subseteq Nat \ {0} /\ Objects # {}
  /\ Descriptors \subseteq Nat
  /\ IsFiniteSet(Objects) /\ IsFiniteSet(Descriptors)
  /\ Ports \subseteq Nat
  /\ Sizes \subseteq Nat
  /\ DefaultSize \in Nat \ {0}
  /\ MaxAddresses \in Nat \ {0}
  /\ MaxBytes \in Nat \ {0}

VARIABLES
  objects,  \* the Sockets that are allocated
  sock,     \* their members
  kernel,   \* the state of each descriptor
  inbox,    \* the bytes that wait to be read from it
  blocking, \* the listening descriptors that setNonBlocking() failed on
  errno     \* the errno of the connect thread

kernelVars == <<kernel, inbox, blocking>>
socketVars == <<objects, sock, kernelVars, errno>>

\* Socket().  An error number is 0 or 1, for any other
NewSocket ==
  [m_socket_fd |-> -1, m_is_listener |-> FALSE, m_is_connected |-> FALSE,
   m_is_listening |-> FALSE, m_receive_buffer_size |-> DefaultSize,
   m_last_errno |-> 0]

KernelStates ==
  {"closed", "listening", "connecting", "established", "ended", "broken"}

\* There is one Socket and nothing is open
SocketInit(o) ==
  /\ objects = {o}
  /\ sock = [p \in Objects |-> NewSocket]
  /\ kernel = [d \in Descriptors |-> "closed"]
  /\ inbox = [d \in Descriptors |-> 0]
  /\ blocking = {}
  /\ errno = 0

fd(o) == sock[o].m_socket_fd

-----------------------------------------------------------------------------
(***************************************************************************)
(* The system calls.  socket() and accept() give the lowest descriptor     *)
(* that is free, -1 when there is none; close() of -1 only sets errno.     *)
(***************************************************************************)
LowestFree(free) == IF free = {} THEN -1 ELSE Min(free)
Free == {d \in Descriptors : kernel[d] = "closed"}

\* What is free once o has closed its own descriptor, and what socket() gives
\* o then
FreeAfterClose(o) == Free \cup ({fd(o)} \ {-1})
NextFd(o) == LowestFree(FreeAfterClose(o))

\* closeSocket(m_socket_fd), and a new descriptor unless state is "closed"
Reopen(o, state) ==
  /\ kernel' = [d \in Descriptors |->
                  IF d = NextFd(o) /\ state # "closed" THEN state
                  ELSE IF d = fd(o) THEN "closed" ELSE kernel[d]]
  /\ inbox' = [d \in Descriptors |-> IF d = fd(o) THEN 0 ELSE inbox[d]]
  /\ blocking' = blocking \ {fd(o)}

\* mutant: a descriptor of -1 is not closed
CloseErrno_guarded(d, e) == e

\* The errno after closeSocket(d), e being the one before: close() fails with
\* EBADF when there is nothing to close, and leaves errno alone otherwise
CloseErrno(d, e) == IF d = -1 THEN 1 ELSE e

Closed(s) ==
  [s EXCEPT !.m_is_connected = FALSE, !.m_is_listening = FALSE,
            !.m_is_listener = FALSE, !.m_socket_fd = -1]

Set(o, s) == sock' = [sock EXCEPT ![o] = s]

\* The errno after setErrno(): 0 again when the caller has read it
\* (getLastErrno()) for a message
Errno(reported) == IF reported THEN 0 ELSE 1

-----------------------------------------------------------------------------
(***************************************************************************)
(* The operations of Socket.                                               *)
(***************************************************************************)
\* new Socket()
Create(o) ==
  /\ o \in Objects \ objects
  /\ objects' = objects \cup {o}
  /\ Set(o, NewSocket)
  /\ UNCHANGED <<kernelVars, errno>>

\* mutant: only the flags are reset
close_flags_only(o) ==
  /\ Set(o, Closed(sock[o]))
  /\ UNCHANGED <<kernelVars, objects, errno>>

close(o) ==
  /\ Set(o, Closed(sock[o]))
  /\ Reopen(o, "closed")
  /\ UNCHANGED <<objects, errno>>

\* delete: the destructor closes the socket
Destroy(o) ==
  /\ objects' = objects \ {o}
  /\ Set(o, NewSocket)
  /\ Reopen(o, "closed")

(***************************************************************************)
(* listen(): nothing for port 0.  Otherwise each address is given a        *)
(* descriptor, which is closed again when bind() or ::listen() fails on    *)
(* it; the first that is made non-blocking ends the search.  When ::listen *)
(* succeeds and setNonBlocking() does not, the descriptor is left open     *)
(* (193-200 has no else) and the next address overwrites m_socket_fd.      *)
(*   stuck: the descriptors left like that                                 *)
(*   last:  m_socket_fd in the end, in stuck or -1 unless listen() succeeds *)
(***************************************************************************)
\* Descriptors are handed out from the lowest
Opened(o, opened) ==
  /\ opened \subseteq FreeAfterClose(o)
  /\ \A d \in opened, e \in FreeAfterClose(o) \ opened : d < e

ListenKernel(o, opened) ==
  [d \in Descriptors |->
     CASE d \in opened -> "listening"
       [] d = fd(o) /\ d \notin opened -> "closed"
       [] OTHER -> kernel[d]]

\* A failure keeps the errno of before when port is 0
ListenErrno(o, port, success, reported) ==
  CASE success -> 0
    [] ~success /\ port = 0 /\ ~reported -> sock[o].m_last_errno
    [] OTHER -> Errno(reported)

listen(o, port, stuck, last, reported) ==
  LET opened == stuck \cup ({last} \ {-1})
      success == last \notin stuck \cup {-1}
  IN  /\ port = 0 => opened = {}
      /\ Cardinality(stuck \ {last}) < MaxAddresses
      /\ Opened(o, opened)
      /\ last # -1 => \A d \in stuck : d <= last
      /\ Set(o, [Closed(sock[o]) EXCEPT
                   !.m_socket_fd = last,
                   !.m_is_listener = success, !.m_is_listening = success,
                   !.m_last_errno = ListenErrno(o, port, success, reported)])
      /\ kernel' = ListenKernel(o, opened)
      /\ inbox' = [d \in Descriptors |-> IF d = fd(o) THEN 0 ELSE inbox[d]]
      /\ blocking' = (blocking \ {fd(o)}) \cup stuck
      /\ UNCHANGED <<objects, errno>>

\* The failure of connect(), with d as m_socket_fd and e as errno: close()
\* runs before setErrno()
ConnectFailed(o, d, e) ==
  /\ errno' = CloseErrno(d, e)
  /\ Set(o, [Closed(sock[o]) EXCEPT !.m_last_errno = errno'])
  /\ Reopen(o, "closed")
  /\ UNCHANGED objects

\* connect() begins with a close().  There is no address, or no descriptor;
\* or setNonBlocking() or ::connect() fails on the descriptor there is.
\* getaddrinfo() may fail without an errno.
ConnectNotBegun(o) ==
  \/ \E e \in {CloseErrno(fd(o), errno), 1} : ConnectFailed(o, -1, e)
  \/ NextFd(o) # -1 /\ ConnectFailed(o, NextFd(o), 1)

\* connect() up to the answer of ::connect(), which is "established" or
\* "connecting" (EINPROGRESS)
ConnectBegun(o, state) ==
  /\ NextFd(o) # -1
  /\ Set(o, [Closed(sock[o]) EXCEPT
               !.m_socket_fd = NextFd(o),
               !.m_is_connected = (state = "established"),
               !.m_last_errno = IF state = "established" THEN 0 ELSE @])
  /\ Reopen(o, state)
  /\ errno' = IF state = "connecting" THEN 1 ELSE CloseErrno(fd(o), errno)
  /\ UNCHANGED objects

\* connect() after the sleep: SO_ERROR is 0, also while the kernel still
\* waits for the other side to answer
ConnectDone(o) ==
  /\ kernel[fd(o)] # "broken"
  /\ Set(o, [sock[o] EXCEPT !.m_is_connected = TRUE, !.m_last_errno = 0])
  /\ UNCHANGED <<objects, kernelVars, errno>>

\* Or SO_ERROR is the error, and errno still EINPROGRESS, or getsockopt() fails
ConnectNotDone(o) ==
  \/ kernel[fd(o)] = "broken" /\ ConnectFailed(o, fd(o), errno)
  \/ ConnectFailed(o, fd(o), 1)

\* accept() of a connection that waits; n is the new Socket
accept(o, n) ==
  /\ sock[o].m_is_listener
  /\ Free # {}
  /\ n \in Objects \ objects
  /\ objects' = objects \cup {n}
  /\ Set(n, [NewSocket EXCEPT !.m_socket_fd = LowestFree(Free),
                              !.m_is_connected = TRUE])
  /\ kernel' = [kernel EXCEPT ![LowestFree(Free)] = "established"]
  /\ UNCHANGED <<inbox, blocking, errno>>

\* accept() without one, or when ::accept() fails: it reads, and thereby
\* clears, the errno it has just set, whatever the errno is
AcceptFailed(o) ==
  /\ Set(o, [sock[o] EXCEPT !.m_last_errno = 0])
  /\ UNCHANGED <<objects, kernelVars, errno>>

\* recv(): what is left of the data comes first.  After a reset the error
\* is reported once, here or to send(); then recv() returns 0.
SystemAnswers(d) ==
  CASE inbox[d] > 0 -> {"OK"}
    [] kernel[d] = "ended" -> {"ERROR_PEER_DISCONNECTED"}
    [] kernel[d] = "broken" -> {"ERROR_SYSTEM", "ERROR_PEER_DISCONNECTED"}
    [] OTHER -> {"ERROR_NOTHING_RECEIVED"}

\* What receive() answers, in the order of its early returns
Answers(o) ==
  CASE sock[o].m_is_listener -> {"ERROR_IS_LISTENER"}
    [] ~sock[o].m_is_connected -> {"ERROR_NO_CONNECTION"}
    [] OTHER -> SystemAnswers(fd(o))

\* mutant: a buffer is always taken to be full
Read_full(o) == [inbox EXCEPT ![fd(o)] = @ - sock[o].m_receive_buffer_size]

\* recv() gives as much as there is and the buffer holds
Read(o) ==
  LET size == sock[o].m_receive_buffer_size
  IN  [inbox EXCEPT ![fd(o)] = IF @ < size THEN 0 ELSE @ - size]

\* mutant: the socket stays open after a system error
receive_open(o, res) ==
  /\ res \in Answers(o)
  /\ Set(o, [sock[o] EXCEPT !.m_is_connected = (res # "ERROR_SYSTEM")])
  /\ inbox' = IF res = "OK" THEN Read(o) ELSE inbox
  /\ UNCHANGED <<objects, kernel, blocking, errno>>

\* A system error closes the socket; the node reads its errno
receive(o, res) ==
  /\ res \in Answers(o)
  /\ IF res = "ERROR_SYSTEM"
     THEN /\ Set(o, [Closed(sock[o]) EXCEPT !.m_last_errno = Errno(TRUE)])
          /\ Reopen(o, "closed")
     ELSE /\ Set(o, [sock[o] EXCEPT !.m_last_errno = 0])
          /\ inbox' = IF res = "OK" THEN Read(o) ELSE inbox
          /\ UNCHANGED <<kernel, blocking>>
  /\ UNCHANGED <<objects, errno>>

\* How many of len bytes ::send() takes: none before the connection stands
\* or when its buffer is full, at least one otherwise
Taken(o, len) ==
  IF sock[o].m_is_connected /\ ~sock[o].m_is_listener
     /\ kernel[fd(o)] \in {"established", "ended"}
  THEN 0 .. len ELSE {0}

\* The errno send() leaves: without a connection it does nothing, and an
\* empty buffer is sent when the connection stands
SendErrno(o, len, bytes, reported) ==
  CASE ~sock[o].m_is_connected \/ sock[o].m_is_listener -> sock[o].m_last_errno
    [] bytes > 0 -> 0
    [] len = 0 /\ kernel[fd(o)] \in {"established", "ended"} -> 0
    [] OTHER -> Errno(reported)

send(o, len, bytes, reported) ==
  /\ bytes \in Taken(o, len)
  /\ Set(o, [sock[o] EXCEPT
               !.m_last_errno = SendErrno(o, len, bytes, reported)])
  /\ UNCHANGED <<objects, kernelVars, errno>>

setReceiveBufferSize(o, size) ==
  /\ Set(o, [sock[o] EXCEPT !.m_receive_buffer_size = size])
  /\ UNCHANGED <<objects, kernelVars, errno>>

\* peerIpAddress(), peerPort(), peerName(): nothing unless getpeername()
\* succeeds
peerIpAddress(o) ==
  IF sock[o].m_is_connected /\ ~sock[o].m_is_listener
     /\ kernel[fd(o)] \in {"established", "ended"}
  THEN "known" ELSE ""

-----------------------------------------------------------------------------
(***************************************************************************)
(* The network.                                                            *)
(***************************************************************************)
\* The other side answers the request to connect, or refuses it
Answered(d, state) ==
  /\ kernel[d] = "connecting"
  /\ state \in {"established", "broken"}
  /\ kernel' = [kernel EXCEPT ![d] = state]
  /\ UNCHANGED <<objects, sock, inbox, blocking, errno>>

Arrive(d) ==
  /\ kernel[d] = "established"
  /\ inbox[d] < MaxBytes
  /\ inbox' = [inbox EXCEPT ![d] = @ + 1]
  /\ UNCHANGED <<objects, sock, kernel, blocking, errno>>

\* The other side ends the connection, in order or with a reset
Lost(d, state) ==
  /\ kernel[d] \in {"established", "ended"}
  /\ state \in {"ended", "broken"} \ {kernel[d]}
  /\ kernel' = [kernel EXCEPT ![d] = state]
  /\ UNCHANGED <<objects, sock, inbox, blocking, errno>>

Network ==
  \E d \in Descriptors :
    \/ \E state \in {"established", "broken"} : Answered(d, state)
    \/ Arrive(d)
    \/ \E state \in {"ended", "broken"} : Lost(d, state)

=============================================================================
