---------------------------- MODULE ClusterAgent ----------------------------
(***************************************************************************)
(* The cluster agent (cluster_agent.cpp): registration, the control loop   *)
(* that executes transfer intents inline, the pull from the source agent's *)
(* data port, and the report of its outcome.  An agent process is one boot *)
(* of its cluster: it registers once and never reconnects.                 *)
(*                                                                         *)
(* Abstractions.  The bytes an agent stores for a replica are MATCH, the   *)
(* bytes the state's digest is computed from, or MISMATCH, any others.  A  *)
(* pull is its first chunk and its last.  The source's data threads answer *)
(* as long as its process lives; the limit on data connections, the        *)
(* payload bounds and the length check only add reasons for a pull to      *)
(* fail.  The coordinator sends no SHUTDOWN, HEARTBEAT or HOST_STATE over  *)
(* a control connection, so those branches of serve() are not reached.     *)
(***************************************************************************)
EXTENDS Transport

CONSTANT MaxAckFrames   \* kMaxFrames of await_acknowledgement

ASSUME AckFrames == MaxAckFrames \in Nat \ {0}

VARIABLES
  agent,        \* Agent -> where its control loop is
  incarnation,  \* Agent -> the incarnation its registration was given
  transfer,     \* Agent -> the locals of handle_transfer_intent
  store         \* Agent -> replica -> the bytes it holds (ReplicaStore)

agent_vars == <<agent, incarnation, transfer, store>>

\* No transfer is being executed.
NoTransfer == [intent |-> Frame("NONE"), bytes |-> "NONE", attempt |-> 0]

\* The states in which the control loop and the data port are served.
Serving == {"serve", "pull", "receive", "await_result", "await_verify"}

AgentType ==
  /\ agent \in [Agent -> {"off", "hello", "evidence", "exited"} \cup Serving]
  /\ \A a \in Agent : transfer[a].attempt < MaxAckFrames /\ incarnation[a] \in Nat

\* The control loop goes on at pc with the locals t.
Continue(a, pc, t) == /\ agent' = [agent EXCEPT ![a] = pc]
                      /\ transfer' = [transfer EXCEPT ![a] = t]

\* A report about the transfer the agent executes.
Report(a, type, outcome) ==
  [Frame(type) EXCEPT !.operation = transfer[a].intent.operation,
                      !.replica = transfer[a].intent.replica,
                      !.incarnation = incarnation[a], !.outcome = outcome]

-----------------------------------------------------------------------------
(* The process *)

\* start: the data listener, then the connection and HELLO.
start(a) ==
  /\ agent[a] = "off"
  /\ connect(a, <<Frame("HELLO")>>)
  /\ Continue(a, "hello", NoTransfer)
  /\ UNCHANGED <<down, listening, incarnation, store>>

\* The process ends: start() or serve() returned, or it was killed.  Its bytes are gone.
ends(a) ==
  /\ client_closes(a)
  /\ Continue(a, "exited", NoTransfer)
  /\ store' = [store EXCEPT ![a] = << >>]
  /\ UNCHANGED <<up, server_open, listening, incarnation>>

kill(a) == agent[a] \notin {"off", "exited"} /\ ends(a)

\* connect_and_register expects the HELLO_ACK and then the EVIDENCE_ACK, and gives up on
\* any other frame, a transfer intent included.
hello_acked(a) ==
  /\ agent[a] = "hello" /\ client_receives(a) /\ Head(down[a]).type = "HELLO_ACK"
  /\ incarnation' = [incarnation EXCEPT ![a] = Head(down[a]).incarnation]
  /\ client_sends(a, [Frame("EVIDENCE") EXCEPT !.incarnation = Head(down[a]).incarnation])
  /\ Continue(a, "evidence", NoTransfer)
  /\ UNCHANGED <<client_open, server_open, listening, store>>

evidence_acked(a) ==
  /\ agent[a] = "evidence" /\ client_receives(a) /\ Head(down[a]).type = "EVIDENCE_ACK"
  /\ Continue(a, "serve", NoTransfer)
  /\ UNCHANGED <<up, client_open, server_open, listening, incarnation, store>>

registration_fails(a) ==
  /\ agent[a] \in {"hello", "evidence"}
  /\ \/ receive_fails(a)
     \/ /\ down[a] # << >>
        /\ Head(down[a]).type # (IF agent[a] = "hello" THEN "HELLO_ACK" ELSE "EVIDENCE_ACK")
  /\ ends(a)

\* serve: an intent is acknowledged and then executed; other frames are skipped.
take_intent(a) ==
  /\ agent[a] = "serve" /\ client_receives(a) /\ Head(down[a]).type = "TRANSFER_INTENT"
  /\ client_sends(a, Frame("TRANSFER_INTENT_ACK"))
  /\ Continue(a, "pull", [NoTransfer EXCEPT !.intent = Head(down[a])])
  /\ UNCHANGED <<client_open, server_open, listening, incarnation, store>>

skip_frame(a) ==
  /\ agent[a] = "serve" /\ client_receives(a) /\ Head(down[a]).type # "TRANSFER_INTENT"
  /\ UNCHANGED <<up, client_open, server_open, listening, agent_vars>>

\* Faulty variant: the control loop tries again when the link is closed.
KeepsServing(a) == agent[a] = "exited" /\ ends(a)

\* serve returns when the link is closed.
link_closed(a) == agent[a] = "serve" /\ receive_fails(a) /\ ends(a)

\* HOST_STATE on the data port: a controller hands the agent the bytes of a replica.
host_state(a, q, bytes) ==
  /\ agent[a] \in Serving
  /\ store' = [store EXCEPT ![a] = [p \in DOMAIN @ \cup {q} |-> IF p = q THEN bytes ELSE @[p]]]
  /\ UNCHANGED <<transport, agent, incarnation, transfer>>

-----------------------------------------------------------------------------
(* handle_transfer_intent *)

\* The bytes the source process holds for the replica to be copied, as a set of at most one.
SourceBytes(a) ==
  LET i == transfer[a].intent IN {store[i.peer][q] : q \in DOMAIN store[i.peer] \cap {i.source}}

\* pull_from_peer: the first chunk arrives and progress is reported, unacknowledged.
first_chunk(a) ==
  /\ agent[a] = "pull"
  /\ \E bytes \in SourceBytes(a) : Continue(a, "receive", [transfer[a] EXCEPT !.bytes = bytes])
  /\ client_sends(a, Report(a, "TRANSFER_PROGRESS", "NONE"))
  /\ UNCHANGED <<down, client_open, server_open, listening, incarnation, store>>

\* The source is gone or does not host the bytes, or progress could not be sent: the
\* failure is reported, unacknowledged.
pull_fails(a) ==
  /\ \/ agent[a] \in {"pull", "receive"} /\ SourceBytes(a) = {}
     \/ agent[a] = "pull" /\ receive_fails(a)
  /\ client_sends(a, Report(a, "TRANSFER_RESULT", "FAILED"))
  /\ Continue(a, "serve", NoTransfer)
  /\ UNCHANGED <<down, client_open, server_open, listening, incarnation, store>>

\* Faulty variant: the result is reported and the bytes are not stored.
PutNothing(a, bytes) == store

\* ReplicaStore::put under the destination replica.
put(a, bytes) ==
  LET r == transfer[a].intent.replica IN
  [store EXCEPT ![a] = [p \in DOMAIN @ \cup {r} |-> IF p = r THEN bytes ELSE @[p]]]

\* The last chunk: the source's bytes may have been replaced since the first, which leaves
\* a mixture.  The bytes are stored before the result is reported.
last_chunk(a) ==
  /\ agent[a] = "receive"
  /\ \E bytes \in {transfer[a].bytes}
                  \cup {"MISMATCH" : b \in SourceBytes(a) \ {transfer[a].bytes}} :
       /\ store' = put(a, bytes)
       /\ client_sends(a, Report(a, "TRANSFER_RESULT", bytes))
       /\ Continue(a, "await_result", [transfer[a] EXCEPT !.bytes = bytes])
  /\ UNCHANGED <<down, client_open, server_open, listening, incarnation>>

\* await_acknowledgement finds a result acknowledged, this one or an earlier one, and the
\* measurement is reported for verification.
result_acked(a) ==
  /\ agent[a] = "await_result" /\ client_receives(a)
  /\ Head(down[a]).type = "TRANSFER_RESULT_ACK"
  /\ client_sends(a, Report(a, "VERIFY_RESULT", transfer[a].bytes))
  /\ Continue(a, "await_verify", [transfer[a] EXCEPT !.attempt = 0])
  /\ UNCHANGED <<client_open, server_open, listening, incarnation, store>>

verify_acked(a) ==
  /\ agent[a] = "await_verify" /\ client_receives(a)
  /\ Head(down[a]).type = "VERIFY_RESULT_ACK"
  /\ Continue(a, "serve", NoTransfer)
  /\ UNCHANGED <<up, client_open, server_open, listening, incarnation, store>>

\* Faulty variant: the agent gives up at the first frame that is not the acknowledgement.
GivesUpAtOnce(a) ==
  /\ agent[a] \in {"await_result", "await_verify"} /\ client_receives(a)
  /\ Head(down[a]).type # (IF agent[a] = "await_result" THEN "TRANSFER_RESULT_ACK"
                           ELSE "VERIFY_RESULT_ACK")
  /\ Continue(a, "serve", NoTransfer)
  /\ UNCHANGED <<up, client_open, server_open, listening, incarnation, store>>

\* Any other frame is dropped, a transfer intent included; after kMaxFrames of them the
\* agent gives up waiting.
drop_frame(a) ==
  /\ agent[a] \in {"await_result", "await_verify"} /\ client_receives(a)
  /\ Head(down[a]).type # (IF agent[a] = "await_result" THEN "TRANSFER_RESULT_ACK"
                           ELSE "VERIFY_RESULT_ACK")
  /\ IF transfer[a].attempt + 1 = MaxAckFrames THEN Continue(a, "serve", NoTransfer)
     ELSE Continue(a, agent[a], [transfer[a] EXCEPT !.attempt = @ + 1])
  /\ UNCHANGED <<up, client_open, server_open, listening, incarnation, store>>

await_fails(a) ==
  /\ agent[a] \in {"await_result", "await_verify"} /\ receive_fails(a)
  /\ Continue(a, "serve", NoTransfer)
  /\ UNCHANGED <<transport, incarnation, store>>

\* One step of the agent's own thread.
AgentStep(a) ==
  \/ hello_acked(a) \/ evidence_acked(a) \/ registration_fails(a)
  \/ take_intent(a) \/ skip_frame(a) \/ link_closed(a)
  \/ first_chunk(a) \/ pull_fails(a) \/ last_chunk(a)
  \/ result_acked(a) \/ verify_acked(a) \/ drop_frame(a) \/ await_fails(a)
=============================================================================
