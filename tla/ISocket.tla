------------------------------- MODULE ISocket --------------------------------
(***************************************************************************)
(* The answers that the interface ISocket allows, and what the node makes  *)
(* of those that end a connection.  TcpNode handles every one of them,     *)
(* whoever implements the interface; Socket says when it gives which.      *)
(***************************************************************************)
EXTENDS Naturals

\* The pointer to no object
nullptr == 0

\* enum class ReceiveResult
ReceiveResult ==
  {"OK", "ERROR_NO_CONNECTION", "ERROR_PEER_DISCONNECTED",
   "ERROR_IS_LISTENER", "ERROR_NOTHING_RECEIVED", "ERROR_SYSTEM"}

\* receive(): a socket that is not connected is not read
ReceiveResults(connected) ==
  IF connected THEN ReceiveResult \ {"ERROR_NO_CONNECTION"}
               ELSE {"ERROR_NO_CONNECTION"}

\* send(): how many of len bytes the kernel took; none without a connection
SendResults(connected, len) == IF connected THEN 0 .. len ELSE {0}

\* listen(): the port the socket says it listens at afterwards, 0 for none.  It
\* closes the socket, refuses port 0, and opens it again at port or fails.
ListenResults(port) == IF port = 0 THEN {0} ELSE {0, port}

\* enum DisconnectType
DisconnectType ==
  {"PEER_DISCONNECTED_THEMSELF", "PEER_WAS_DISCONNECTED",
   "PEER_WAS_DISCONNECTED_DUE_TO_ERROR"}

\* mutant: the end of the connection is taken for a lack of data
ReceiveErrors_without_end ==
  [ERROR_NO_CONNECTION |-> "PEER_WAS_DISCONNECTED_DUE_TO_ERROR",
   ERROR_IS_LISTENER |-> "PEER_WAS_DISCONNECTED_DUE_TO_ERROR",
   ERROR_SYSTEM |-> "PEER_WAS_DISCONNECTED_DUE_TO_ERROR"]

\* The switch over the result of receive()
ReceiveErrors ==
  [ERROR_NO_CONNECTION |-> "PEER_WAS_DISCONNECTED_DUE_TO_ERROR",
   ERROR_IS_LISTENER |-> "PEER_WAS_DISCONNECTED_DUE_TO_ERROR",
   ERROR_SYSTEM |-> "PEER_WAS_DISCONNECTED_DUE_TO_ERROR",
   ERROR_PEER_DISCONNECTED |-> "PEER_DISCONNECTED_THEMSELF"]

=============================================================================
