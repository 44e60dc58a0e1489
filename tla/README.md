# simpwire: a verification project in TLA+

simpwire is a small asynchronous TCP library. An application creates a `TcpNode`, sets
callbacks, and calls `doListen()`, `connectTo()`, `sendData()` and `disconnectPeer()`;
three background threads of the node do the work. This project models the node's threads
and its interface step by step, and below them the sockets, descriptors and peer objects
the node owns; it checks both with TLC on small instances, and proves every safety
property the passing runs check, refinements included, with TLAPS for every value of the
constants. Line numbers without a file are those of `src/src/TcpNodePrivate.cpp`.

## 1. Inventory

| Component | State | Operations | Interacts with |
|---|---|---|---|
| `TcpNode` (`TcpNode.cpp`) | pointer to `TcpNodePrivate` | forwards every call | application, `TcpNodePrivate` |
| connect thread, `_connectThreadJob()` (518-607) | `m_potential_peers`, `queue_length`, `i`, timeout | dial `front()`, retry, enter the peer, `onConnect()`/`onConnectError()`, `pop_front()` | `m_peers`, listen thread (notified) |
| send thread, `_sendThreadJob()` (609-677) | `m_data_to_send`, `to_send_count` | send the first buffer, `onSend()`/`onSendError()`, `pop_front()` | `m_peers`, sockets |
| listen thread, `_listenThreadJob()` (281-505) | `m_listener`, four atomic flags, the loop over `m_peers` | open/close the listener, accept, receive, delete one peer per iteration, nine callbacks | everything |
| node interface | callbacks, flags, queues | `connectTo`, `doListen`, `stopListening`, `sendData`, `disconnectPeer`, `disconnectAll`, `setListener`, twelve setters, destructor | queues and condition variables |
| peer table, `PeerPrivate` | `m_peers`, `m_to_be_deleted`, `m_disconn`, `m_socket`, `m_connection_counter` | `set`/`setSocket`, `scheduleDelete`, `destroySocket`, `erase` | all threads |
| `Peer` handle | owned `PeerPrivate` copy | copy, move, assign | application |
| `Socket` / `ISocket` | descriptor, three flags, errno | `listen`, `connect`, `accept`, `receive`, `send`, `close` | kernel |
| demo, tests, common types | | | not part of the core |

The threads share two mutexes, `m_data_access` and `m_callback_access`, and three
condition variables. What is hard:

* the flags are atomics that are read and written without a mutex
  (286-287, 325, 340, 230-234, 509-511);
* the predicate of a wait is tested under the mutex but the destructor and
  `stopListening()` notify without it;
* callbacks run with `m_data_access` held (302, 318, 376, 424, 652) or with
  `m_callback_access` held (335, 567, 596), tested before an unlock and called
  after it;
* iterators into `m_peers` live across callbacks;
* the destructor stops the threads one after another while the others still run;
* sends are partial or fail, `connect()` is retried until a timeout, sockets
  break at any time;
* descriptors run out and are handed out again at once; errno is changed by `close()`
  and cleared by reading it; `connect()` sleeps between two system calls;
* a `Peer` owns a record by a raw pointer and outlives its connection.

What makes each component correct: the connect thread dials every request, in order; the
send thread handles every buffer once, in order; the listen thread removes what is
scheduled, follows the last `doListen()` and closes after `stopListening()`; the table
gives each connection one socket, one id and one ending and stays as it is while it is
iterated; the interface starts each thread once and the destructor joins them all; every
`Socket`, descriptor and record has one owner; a `Peer` never comes to name another
connection; and nobody deadlocks, or calls what is not there. `PROJECT.json` lists the
hazards line by line with the properties that cover them.

## 2. Modules

There are two models of the node. `TcpNode` has the threads, locks and flags; a socket
is no more than the answers its interface allows. `Connections` has the sockets,
descriptors and peer objects; a thread is no more than the sections it runs with
`m_data_access` held. Both extend `ISocket` and both implement `ConnectionTable`.

| Module | Models |
|---|---|
| `ISocket` | the answers `ISocket` allows and what the receive loop makes of them |
| `NodeState` | the members of `TcpNodePrivate`, the two mutexes, `wait()` and `notify_one()`, calling a callback, the peer table |
| `ConnectThread` | `_connectThreadJob()`, `_pauseUntilQueueNotEmpty()` |
| `SendThread` | `_sendThreadJob()`, `_pauseUntilDataToSendAvailable()` |
| `ListenThread` | `_listenThreadJob()`, `_pauseUntilPeersOrListenerAvailable()` |
| `NodeApi` | the calls of the application and the destructor |
| `ConnectionTable` | abstract: what the peer table promises |
| `TcpNode` | the composition, fairness, all properties |
| `MCTcpNode` | instances for TLC |
| `TcpNodeProofs` | the inductive invariant of the threads and its theorems |
| `QueueProofs` | proofs: the order of the two queues |
| `LifeCycleProofs` | proofs: the listener's port, the destructor, the end of the process |
| `TableProofs` | proofs: `TcpNode` implements `ConnectionTable`, and the table is fixed while it is iterated |
| `Socket` | `Socket.cpp` as built for Linux, and the kernel's descriptors |
| `Peer` | `Peer.cpp`, `PeerPrivate.cpp`: handles and the records they own |
| `Connections` | what `TcpNodePrivate` does with sockets and peers; their properties |
| `ConnectionsProofs` | proofs: descriptors, sockets, flags |
| `PeerProofs` | proofs: records, handles, and `Connections` implements `ConnectionTable` |

**Threads.** `pc[t]` says where thread `t` is. A step runs from one point at which
another thread can interfere to the next: taking a mutex, touching an unlocked
atomic, blocking on or notifying a condition variable, running a callback. A
section that nobody can observe in the middle is one step whose guard is that the
mutex is free (`DataFree`); a section with a callback or a second mutex inside owns
the mutex across steps (`LockData`). Labels are named after the point in the code:
`"sent"` waits for `m_callback_access` at 647, `"onSend"` runs `onSend()` at 652.

**Waiting.** `wait(lck, pred)` is three labels: `"pause"` (take the mutex and test),
`"block"` (still owning it), `"waiting"` (asleep, mutex released). `notify_one()`
moves a worker from `"waiting"` to `"pause"` and does nothing otherwise, so a lost
wakeup is a behaviour of the model. `SpuriousWakeup` lets a wait return by itself;
no fairness is assumed of it.

**Atomics.** The condition at 286-287 is one step: `m_listener_available` is written
by this thread only, and `m_changing_listener` is set by others but cleared by this
thread only, so reading the three one after another gives no more outcomes than
reading them at once. `m_listening_enabled` is read again at 325, a step of its own.

**Callbacks.** `m_callbacks` is the set of callbacks that are set. A callback returns
without calling the node. One that is reset between the test and the call throws
`std::bad_function_call` out of its thread: `terminated`. A process that has
terminated takes no more steps.

**Peers and sockets.** An entry of `m_peers` is its id; `m_to_be_deleted`, `m_disconn`
and `m_socket` hold the fields of its `PeerPrivate`. A socket is `"none"` before the
connection, then `"connected"`, `"closed"` (by a failed `receive()`), `"deleted"`.
Handles of the application are ids, those of connections that are gone and the id 0
of an invalid `Peer` included (`sendData_unknown`).

**Sockets' answers** are those of `ISocket`: `ListenResults` (closes first, refuses
port 0), `ReceiveResults` (no connection; nothing; data; end of stream; a system
error, which closes), `SendResults` (0 up to all bytes). `connect()` may succeed, fail
for good or be retried, up to `MaxTries` attempts, the number that uses up
`m_connect_timeout`. The listener is its port, 0 when closed. `TcpNode` allows more
than `Socket` ever answers (a retry of `connect()`, an error of `accept()`): it is written
against `ISocket`, whose other implementation is the mock the tests hand to
`TcpNodePrivate`. An application cannot supply one, `TcpNode.hpp` has no function for it.

**The end of the node.** After `disconnectAll()` and the deletion of the listener the
members are destroyed: `destructor_members` takes the entries of `m_peers` one by one
(`erase`: neither `~Peer` nor `~PeerPrivate` touches the socket) and ends at
`"destroyed"`. `Living` says that this has not begun.

**History.** `dialled` counts the attempts per request, `outcome` records what became of
each buffer, `starts` counts how often a thread was created for each worker; they only
serve the properties. A request is the number of its
`connectTo()` call, a buffer the number of its `sendData()` call.

**Bounds.** `MaxCalls[f]` bounds the calls to each function, `MaxConnections` the
connections the network ever yields, `CountModulus` stands for the 256 of `uint8_t`.
They are constants: the proofs hold for all of them.

### Sockets and peers (`Connections`)

**Sockets.** `objects` are the `Socket`s that exist, `sock[o]` their members (the listen
port and the sleep time left out), `kernel[d]` the state of descriptor `d`: `"closed"`,
`"listening"`, `"connecting"`, `"established"`, `"ended"` (the other side has closed) or
`"broken"` (reset or refused); `inbox[d]` counts unread bytes. `socket()` and `accept()`
give the lowest free descriptor, or -1. An errno is 0 or 1 (any other): `m_last_errno`
of a `Socket`, and `errno` of the connect thread, which `close()` sets when there is
nothing to close and leaves alone otherwise (`CloseErrno`), and which anything the
thread runs between two dials may change (`AnyErrno`). An operation is one step,
`connect()` two (`Dial`, `DialEnd`) because it sleeps (302) between `::connect()` and
`SO_ERROR`. Where the node reads an errno for a message, and so clears it, the operation
has the argument `reported`. `recv()` returns what is left first, then the end or, once,
the error; the error may have been consumed by a `send()`. A descriptor in
`"connecting"` answers `EAGAIN` and has no peer name. That is the kernel as `Socket.cpp`
uses it, marked external in the map.

**`listen()`** tries up to `MaxAddresses` addresses in one step. On each, `bind()` or
`::listen()` may fail, and the descriptor is closed again, or `setNonBlocking()` may, and
then it is not (`Socket.cpp:193` has no else branch): these are the descriptors `stuck`,
remembered in `blocking`. The next address overwrites `m_socket_fd`, so only the last of
them can still be closed.

**The node.** `m_listener`, the socket being dialled (`new_peer`, `dial`), and `m_peers`,
a function from ids to `PeerPrivate` records. `Listen`, `StopListening`, `Accept`,
`ReceiveFrom`, `Delete` are the listen thread's sections, `CreateSocket` to `Connected`
the connect thread's, `SendTo` the send thread's. Each is atomic here because it runs
with `m_data_access` held, or on a socket only the connect thread knows. That no section
which owns the mutex across steps is entered by another thread is `LocksProtect` of
`TcpNode`; a section that is one step there has the mutex being free as its guard, and
that the insertion of a peer (590) is such a section matters for
`TableFixedWhileIterated`. The flags that decide when to open
or close the listener are not repeated: it may be opened or closed at any time.

**Peers.** `m_private[h]` is the address of the record of handle `h`, `allocated` and
`heap` what is on the heap; a new record takes the lowest free address, so that
addresses are reused. `assign` is `operator=` and the copy constructor, self-assignment
included; `move` ends a variable and lets another take over. Port, host name and error
message go with the address, which is known or not.

## 3. Runs

The runs of the threads use `MCTcpNode`; calls not mentioned are not made. `Sockets`,
`Peers` and `EarlyConnect` use `Connections`.

| Run | Bounds | Shows |
|---|---|---|
| `Connect` | 2 `connectTo`, 2 connections, 2 tries, `disconnectPeer` | `TypeOK`, `FrontExists`, `DialledInOrder`, the node implements `ConnectionTable`, `TableFixedWhileIterated`, `ScheduledPeersRemoved`, `EveryRequestDialled`; no deadlock |
| `Send` | `doListen`, `stopListening`, 2 `sendData` of 2 bytes, `disconnectPeer`, modulus 2, no `onStoppedListening()` | `LocksProtect`, `IteratorsValid`, `SentInOrder`, `QueuedDataHandled`, `StopClosesListener`; no deadlock |
| `Listen` | 2 application threads, 2 `doListen`, `stopListening`, `setListener`, `disconnectAll`, a callback set, destructor | `ListensAtLastPort`, `PeersOwnSockets`, `ClosedSocketsScheduled`, `JoinedWhenDestroyed` |
| `Shutdown` | 2 application threads, 2 `connectTo`, `sendData`, a callback reset, destructor; three callbacks set | `JoinedWhenDestroyed`, `StartedOnce`, `NeverTerminates` |
| `Sockets` | 3 objects, 2 descriptors, 2 addresses, 2 connections, no handles | `TypeOK`, `DescriptorsOwned`, `SocketsOwned`, `FlagsAgree`, `NeverRedialled`, the connections implement `ConnectionTable`, `LostConnectionsRemoved` |
| `Peers` | 2 handles, 2 objects, 2 descriptors, 2 connections one after the other | `RecordsOwned`, `PeersNameConnections` |

Why they are enough: the connect loop needs two queued requests to repeat one;
the send thread needs as many buffers as the modulus for
the count to wrap; a peer must be scheduled by one thread while another
uses it, which one connection and one `disconnectPeer()` give; two connections let one
deletion wait for another. `Send` leaves `onStoppedListening()` unset because with
it the threads can deadlock (run `Deadlock`). In `Sockets` three objects are a listener,
a socket being dialled and a connection, or two connections; two descriptors are too few
for them, so every call that opens one also fails for want of one, and each descriptor is
reused. In `Peers` a handle outlives its connection and the next one gets the same
`Socket` address and descriptor; two variables are what copies and moves need. Two
addresses let `listen()` fail on one and go on to the other, and leave every descriptor
stuck. Two application threads are used in `Listen` and `Shutdown`, where the calls race
each other. In `Shutdown`, which checks invariants only, they are interchangeable
(`SYMMETRY`); elsewhere the threads are few, and ids, descriptors and addresses are
ordered. `JoinedWhenDestroyed` is checked twice: in `Shutdown` all three threads run, in
`Listen` there is a listener that is opened, changed and accepted from.

`Shutdown` reaches both ways to end the process that `NeverTerminates` names: a callback
that is reset between the test and the call, and a second listen thread (run
`StartedTwice` has only the latter). That there is no third is what it shows: a callback
that is not set is never called, and neither of the other threads is assigned to while it
runs. `StartedOnce` counts the threads created (`starts`), not the flags.

Deadlock is checked in all of them but `Shutdown` and `Listen`, where the system really
stops: after the destructor, or after the `std::terminate()` of two application threads
that start the listen thread at once. The runs of the next table ask one question each.

### Where the code and its comments disagree

Each of these runs checks one statement of a comment and TLC refutes it:

| Run | Statement | What happens |
|---|---|---|
| `DialledTwice` | the thread "tries to connect to all the remotes in the queue" (`TcpNodePrivate.hpp:104`) | the loop reads `front()` for every entry and pops once after it: with two requests queued the first is dialled twice |
| `LostDestructor` | "The pause will also end if constructor_called is true" (`:167`) | the destructor's notification falls between predicate and wait; `join()` hangs |
| `LostListen` | `doListen()` "will open a listen socket" (`TcpNode.hpp:117`) | `m_wakeup_listen_thread` is cleared (340) after the flags were read (286) |
| `Deadlock` | "calls onSend() for each one if successful" (`:118`) | 336 takes `m_data_access` with `m_callback_access` held, 647 the other way round |
| `EarlyConnect` | `onConnect()` is called "when this TcpNode successfully established a connection" (`TcpNode.hpp:278`) | `SO_ERROR` is 0 while the handshake is under way (`Socket.cpp:309-312`): the peer is entered without an address, and data sent at once fails and ends the connection, if `onSendError()` is set |
| `StartedTwice` | "checks whether listenThread is running. If not, it will start it" (`TcpNodePrivate.hpp:142`) | two application threads pass the unlocked test at 509 together and both create the thread; the second assignment to the running `std::thread` ends the process |

Further comments do not match and need no run to see it:

* `disconnectAll()`: "Close all peer socket fds" (`TcpNode.hpp:111`): it only schedules
  the peers, and in the destructor (118) the thread that would close their sockets was
  joined before; `destructor_members` erases them and leaves the sockets open.
* `stopListening()`: "Listen socket will be closed" (`TcpNode.hpp:127`): a descriptor on
  which `setNonBlocking()` failed (`Socket.cpp:193`) and which the next address overwrote
  listens for ever; it is one of those `DescriptorsOwned` names. The Windows branch
  (233-237) closes it.
* "or callbackSendError() if it fails" (`TcpNodePrivate.hpp:120`): when `send()` takes
  nothing (658-665) the peer is given up, if the callback is set, but the callback is not
  called (`SendFailed`). A buffer whose peer is scheduled for deletion leaves the queue
  without any callback (`SendDropped`), and a partial send counts as sent: `onSend()` is
  told the amount.
* "Error number and string will be added to body" (`TcpNodePrivate.hpp:183`): the dialling
  loop has read, and so cleared, the errno of the socket (550) before the message is made
  (568, 733): `DialFailed` comes before `DialReported`.
* "listenThread is already running when the first connection is established" (`:139`):
  `connectTo()` starts the connect thread first.
* `onListenError()` is for errors "while TcpNode is accepting connections"
  (`TcpNode.hpp:297`): `Socket::accept()` clears the errno that 380 looks at
  (`AcceptNothing`).
* `setReceiveBufferSize()` sets "the maximum length of the character vector that you get
  from the onReceive() callback" (`TcpNode.hpp:163`): it sets the size of the listener,
  which receives nothing; accepted and dialled sockets keep the default.
* `setConnectTimeout()` has no effect with `Socket`: a `connect()` that fails closes the
  socket before it reads errno, which is then either that of the call that failed or, when
  there was no descriptor (`getaddrinfo()` need not set errno), the `EBADF` of the close.
  It is never 0, and the dial is never repeated (`NeverRedialled`).

### Fairness

`FairSpec` adds strong fairness for each worker and for each call in progress: the
operating system runs every thread that can run, and a thread that waits for a mutex
that becomes free again and again gets it. The second part is what strong rather than
weak fairness says; the code gives cause for it, since the workers sleep 10 ms outside
their locks in every iteration (503, 552, 674). No fairness is assumed of the
application's next call or of spurious wakeups. The network may let nothing succeed:
`ConnectFailed`, `ListenNothingReceived` and so on are always possible.
`LostDestructor`, `LostListen` and `Deadlock` are found under this fairness, so they are
not threads that merely stop.

`FairSpec` of `Connections` has weak fairness for receiving from each connection and for
deleting some scheduled one: an iteration of the listen thread visits every peer and
deletes one. That the thread keeps iterating while there are peers is what
`ScheduledPeersRemoved` of `TcpNode` checks, without `onStoppedListening()`; a listen thread
that is caught in the deadlock of run `Deadlock` does not. The network owes nothing: a
dialled connection may never be answered, data may never come.

## 4. Proofs

Every invariant and action property of the passing runs, and both refinements, are
theorems for any constants. Each rests on an inductive invariant; the strengthenings
named below were checked by TLC on the runs' instances as well.

### The threads

The only assumption is `ConstantsAssumption` of `NodeState`: the bounds are natural
numbers (`MaxTries` and `CountModulus` not 0), callback names are known, and no
application thread is named like a worker.

| Module | Theorem | Says |
|---|---|---|
| `TcpNodeProofs` | `TypeCorrect` | `Spec => []TypeOK` |
| | `LocksAlwaysProtect` | a thread is in a section that `m_data_access` protects exactly when it owns it |
| | `SocketsAlwaysOwned`, `ClosedAlwaysScheduled` | while the node lives the sockets that exist are those of the peers in `m_peers`, and a closed one is scheduled for deletion |
| | `IteratorsAlwaysValid`, `FrontAlwaysExists` | no iterator is used after the element is gone, no empty queue is popped |
| | `AlwaysStartedOnce` | the connect and the send thread are created at most once, whoever calls (the listen thread is not: run `StartedTwice`) |
| `QueueProofs` | `AlwaysDialledInOrder`, `AlwaysSentInOrder` | requests and buffers are handled in the order of the calls, none is skipped or overtaken |
| `LifeCycleProofs` | `AlwaysListensAtLastPort` | a settled node listens at the port asked for last |
| | `AlwaysJoinedWhenDestroyed` | no worker runs when the destructor comes to the members |
| | `TwoWaysToTerminate` | the process ends only through a callback that was reset or a second listen thread |
| `TableProofs` | `NodeImplementsTable` | the node implements `ConnectionTable` |
| | `AlwaysFixedWhileIterated` | action property: nothing enters or leaves `m_peers` while it is iterated |

**`Inv` (`TcpNodeProofs`).** None of its properties is inductive alone, so they are
proved together, with conjuncts that are no property of their own: `SocketsMatchCounter`
(sockets exist for exactly the ids handed out, so a new peer does not overwrite one),
`FlagsHonest` (a worker whose flag is clear does not run, until the destructor is
called), `StartsCounted` (a worker that is off was never created, and the connect and
the send thread not more than once), `StarterMarked` (a call about to create the listen
thread has set its flag) and `DestructorInv` (the destructor's thread is the only one
inside the node, and a worker whose flag it has cleared and that it is not just stopping
has ended). They need each other: typing a `pop_front()` needs `FrontExists`; the send
thread's iterator survives `ListenDelete` because `LocksProtect` says the listen thread
then owns the mutex, so the send thread is not between `find()` and `pop_front()`;
`LocksProtect` survives the start of a worker because `FlagsHonest` says it was not
running; `m_peers` is destroyed, and the sockets with it left behind, when
`DestructorInv` says nobody else is left. The layout: typing of program counters, per
thread; frame lemmas (what each thread can change at all) and typing of the rest;
`LockStep`, what a step may do to a mutex and to the other threads, shown of every step;
what the operations on the table preserve; then one lemma per kind of step that puts
these together, and `NextInv`. The other modules use the frame lemmas, `LockStep` and
`Inv`.

**Queues.** The order of a queue is stated over plain functions and numbers
(`DialOrder`, `SendOrder`: of `m` buffers the last `n` are in the list, and of these the
first `Busy` is being handled), so that what an append, a recording and a `pop_front()`
do to it are lemmas of arithmetic. `DialInv` adds to `DialledInOrder` that the request at
the front has been dialled once the loop is past its first attempt: otherwise
`pop_front()` could drop an undialled one.

**Life cycle.** `ListensAtLastPort` needs that a listener just opened is at
`m_portnumber` while its callback runs (`OpenedAtPort`). It is stated for a node that
lives: the destructor deletes the listener and leaves the flags as they were.
`JoinedWhenDestroyed` is part of what `DestructorInv` says. The `EndInv` of
`TwoWaysToTerminate` says that a callback found to be set is still set at the call, unless
the application resets one; and by `StartsCounted` a listen thread that is not off has
been counted, so that creating another makes `starts["listen"]` more than 1.

**Refinement.** `RefInv` adds that only ids that were handed out are in the table or
scheduled, and that a peer the receive loop has yet to visit is not scheduled, which
holds because the loop owns `m_data_access` across its callbacks. With it every step is
`Open`, `Close`, `Remove` or a stutter; the destruction of `m_peers` is a `Remove` of each
entry, since `disconnectAll()` has scheduled them all. `AlwaysFixedWhileIterated` follows
from `Inv` and `LockStep`: whoever iterates owns the mutex, and a step that changes
`m_peers` needs it free, or is the owner's own deletion.

### Sockets and peers

Assumptions: `SocketAssumption` (there is an address for a `Socket`; addresses,
descriptors, ports and sizes are numbers, addresses not 0; addresses and descriptors are
finitely many; a buffer holds something, and `listen()` has an address to try),
`PeerAssumption` (handles are finitely many, and there are at least as many addresses
for records) and `ConnectionsAssumption`. They say no more than that memory and
descriptors are finite and a null pointer is no object.

| Module | Theorem | Says |
|---|---|---|
| `ConnectionsProofs` | `AlwaysDescriptorsOwned` | no two `Socket`s share a descriptor, and an open one has a `Socket` or was left listening by `listen()` |
| | `AlwaysSocketsOwned` | every `Socket` has exactly one owner |
| | `AlwaysFlagsAgree` | flags and descriptor agree; a connection is connected or scheduled |
| | `AlwaysNeverRedialled` | action property: whatever failed, errno is set and the dial is not repeated |
| `PeerProofs` | `AlwaysTypeOK` | `Spec => []TypeOK` |
| | `AlwaysRecordsOwned` | every record has exactly one `Peer` |
| | `AlwaysPeersNameConnections` | a `Peer` names one connection for ever |
| | `ConnectionsImplementTable` | the connections implement `ConnectionTable` |

**`NodeInv` (`ConnectionsProofs`)** is the three properties, types, and

* `DialOK`: the socket being dialled exists exactly while `dial` is not `"off"`, has no
  descriptor before and after a failed attempt, is connected when it
  is done, and has an errno when it failed. That it has one is shown of each way
  `connect()` can fail: with a descriptor the call that failed has set errno, and while
  `connect()` sleeps errno is still `EINPROGRESS`; without one `close()` sets it. This is
  `NeverRedialled`;
* `TableOK`: an entry has its own id, at most the counter, is valid and has a socket.

Every operation is first shown to be a `SockStep(K, o, f)`: the sockets `K` and their
descriptors stay, `o` may give up descriptor `f` and get a free one, and free ones may be
left `blocking`. From that alone
`StepKeepsOwners` and `KeptAgrees` give ownership and flags of all sockets but `o`; what
is left of each operation is `o` itself and its role. That a descriptor or address
handed out is free is `NextFdFree` and `NewObjectFree`.

**`PeerInv` (`PeerProofs`)** adds `HandlesInv` and `NamesInv`. That a copy finds a free
address although the heap is as large as the number of handles is a pigeonhole argument
(`RoomForRecord`): the address of the record it replaces is free again. For names, two
facts suffice: after a step the record of a handle is empty, one some handle had before,
or a copy of an entry (`FromSource`); and the table never gives an id another socket or
address (`TableKeepsNames`). The refinement follows from `NodeInv`, step by step as in
`TableProofs`.

### Only model-checked

The liveness properties (`ScheduledPeersRemoved`, `EveryRequestDialled`,
`QueuedDataHandled`, `StopClosesListener`, `LostConnectionsRemoved`) and the absence of
deadlock: fairness and `ENABLED` are out of the prover's reach. And the refuted
statements, which are refuted by a behaviour.

## 5. Not modelled

* Calls of the node from within a callback. A callback that runs with `m_data_access`
  held and calls a function that takes it blocks for ever; planned.
* The Windows branch of `Socket.cpp`.
* `accept()` ignoring that `setNonBlocking()` failed (`Socket.cpp:384`): `recv()` would
  block the listen thread with `m_data_access` held. In `listen()` and `connect()` that
  failure is modelled.
* The destructor in `Connections`: what it leaves open shows in `TcpNode`.
* Assigning from a moved-from `Peer`, which dereferences a null pointer (`Peer.cpp:50`).
* Contents of buffers, addresses, names and messages: nothing depends on them.
* `setConnectTimeout()`, `setSleepTime()`, `setSocketInterfaceCreateFunction()` and the
  getters: they change or read values the model abstracts.
* A second node in the same process: `m_connection_counter` is static, so the ids of one
  node may have gaps; nothing else is shared.
* Calls after or during the destructor: a use of a destroyed object, which the
  application must not make.
* The demo and the tests.

## 6. Plan

1. (done) the node: threads, interface, table, runs, inductive invariant.
2. (done) `Socket`, `Peer` and their composition in `Connections`.
3. Calls from within callbacks, and a log of the callbacks the application sees: order
   of `onConnect()`, `onReceive()` and the ending of each peer.
4. (done) Proofs of all safety properties and of both refinements of `ConnectionTable`.
5. Proofs about what step 3 adds, and the action properties the liveness arguments rest
   on (what a waiting thread's wakeup condition can lose and what it cannot).
