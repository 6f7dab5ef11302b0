----------------------------- MODULE Transport ------------------------------
(***************************************************************************)
(* Framed TCP connections (transport.cpp).  Every client process of the    *)
(* coordinator, an agent or a controller, opens one control connection, so *)
(* a connection is named by its client.  A connection is a pair of ordered *)
(* frame queues; either end may be closed, by close() or by the death of   *)
(* the process.                                                            *)
(*                                                                         *)
(* Abstractions.  A frame is its message type and the fields the receivers *)
(* tell apart; frames arrive whole, uncorrupted and in order.  Once the    *)
(* peer has closed, a send may still succeed (its bytes go nowhere) or     *)
(* fail, and a receive may still find the frames that were under way or    *)
(* fail at once.  close() takes effect while another thread is blocked in  *)
(* a call on the socket, as closesocket() does.                            *)
(***************************************************************************)
EXTENDS Integers, Sequences

CONSTANTS
  Agent,      \* cluster agent processes
  Controller  \* controller processes

\* A process is either an agent or a controller.
ASSUME Peers == Agent \cap Controller = {}

Client == Agent \cup Controller

VARIABLES
  up,           \* Client -> frames on their way to the coordinator
  down,         \* Client -> frames on their way to the client
  client_open,  \* the connections whose client end is open
  server_open,  \* the connections whose server end is open
  listening     \* the coordinator's listener is open

transport == <<up, down, client_open, server_open, listening>>

\* A frame of a type with no field set; receivers read the fields of its type only.
Frame(type) == [type |-> type, request |-> "NONE", operation |-> 0, replica |-> 0,
                source |-> 0, incarnation |-> 0, outcome |-> "NONE", peer |-> "NONE"]

\* TcpConnection::connect: the connection waits in the listener's backlog until accepted.
connect(x, first_frames) ==
  /\ listening
  /\ client_open' = client_open \cup {x} /\ server_open' = server_open \cup {x}
  /\ up' = [up EXCEPT ![x] = first_frames]

\* send_frame at the client end.  Clients answer a failed send as they answer a failed
\* receive, and every send is followed by a receive, so the receive stands for both.
client_sends(x, frame) ==
  /\ x \in client_open
  /\ up' = IF x \in server_open THEN [up EXCEPT ![x] = Append(@, frame)] ELSE up

\* send_frame at the server end; sent: what it returned.
server_sends(x, frame, sent) ==
  /\ IF sent THEN x \in server_open ELSE x \notin client_open \cap server_open
  /\ down' = IF sent /\ x \in client_open THEN [down EXCEPT ![x] = Append(@, frame)] ELSE down

\* receive_frame takes the oldest frame, or fails once either end is closed.
client_receives(x) == /\ x \in client_open /\ down[x] # << >>
                      /\ down' = [down EXCEPT ![x] = Tail(@)]

server_receives(x) == /\ x \in server_open /\ up[x] # << >>
                      /\ up' = [up EXCEPT ![x] = Tail(@)]

receive_fails(x) == x \notin client_open \cap server_open

\* close() at either end; frames nobody can read any more are forgotten.
client_closes(x) == /\ client_open' = client_open \ {x}
                    /\ down' = [down EXCEPT ![x] = << >>]

server_closes(X) == /\ server_open' = server_open \ X
                    /\ up' = [x \in Client |-> IF x \in X THEN << >> ELSE up[x]]
=============================================================================
