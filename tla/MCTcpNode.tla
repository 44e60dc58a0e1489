------------------------------ MODULE MCTcpNode -------------------------------
(***************************************************************************)
(* Instances of TcpNode for TLC: one application thread or two, and a      *)
(* bound on the calls it makes to each function.                           *)
(***************************************************************************)
EXTENDS TcpNode, TLC

Bound(bounds) ==
  [f \in ApiFunctions |-> IF f \in DOMAIN bounds THEN bounds[f] ELSE 0]

\* The application threads are interchangeable
Symmetry == Permutations(Callers)

AllCallbacks == CallbackNames
NoStoppedListening == CallbackNames \ {"StoppedListening"}
SomeCallbacks == {"Sent", "PeerDisconnected", "NewPeerConnected"}

ConnectCalls == Bound([connectTo |-> 2, disconnectPeer |-> 1])
SendCalls ==
  Bound([doListen |-> 1, stopListening |-> 1, sendData |-> 2,
         disconnectPeer |-> 1])
ListenCalls ==
  Bound([doListen |-> 2, stopListening |-> 1, setListener |-> 1,
         disconnectAll |-> 1, onCallback |-> 1, destructor |-> 1])
ShutdownCalls ==
  Bound([connectTo |-> 2, sendData |-> 1, clearCallback |-> 1,
         destructor |-> 1])
ConnectTwice == Bound([connectTo |-> 2])
ConnectAndDestroy == Bound([connectTo |-> 1, destructor |-> 1])
ConnectAndListen == Bound([connectTo |-> 1, doListen |-> 1])
ListenAndSend ==
  Bound([doListen |-> 1, stopListening |-> 1, sendData |-> 1])

=============================================================================
