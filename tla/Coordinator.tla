---------------------------- MODULE Coordinator -----------------------------
(***************************************************************************)
(* The coordinator server (coordinator.cpp): the accept loop, one worker   *)
(* thread per connection, the map of agent sessions, waiting for an        *)
(* operation, and shutdown.  Every worker runs the handlers of the fabric  *)
(* it shares with the others, so a step of a worker is a step of Fabric or *)
(* a refusal that changes nothing.                                         *)
(*                                                                         *)
(* A handler is cut where another thread can come between: after a fabric  *)
(* call, around each send, between the check of a waiter and its sleep     *)
(* (notify_all does not take the mutex), between the answer and the check  *)
(* of shutdown_requested.                                                  *)
(*                                                                         *)
(* Abstractions.  Clients speak the protocol: no malformed frame, no       *)
(* unknown operation, and no agent that expects a past epoch, so a HELLO   *)
(* is accepted.  A report names the replica its intent named.  The         *)
(* publications of policies and of compatibility descriptors, which are    *)
(* data here, the bodies of responses, the session's host and port, and    *)
(* `stopping`, which nothing reads, are left out.                          *)
(***************************************************************************)
EXTENDS Fabric, Transport

CONSTANTS
  ClusterOf,   \* Agent -> the cluster it is configured for
  BootId,      \* the worker boot identities a registration may name
  ProcessId    \* Agent -> its process id, which is the boot identity it registers with

\* Process ids are the operating system's: nothing makes those of two processes differ, on
\* two hosts, in two containers, or when one is started after the other has died.
ASSUME Configured == ClusterOf \in [Agent -> Cluster] /\ ProcessId \in [Agent -> BootId]

VARIABLES
  worker,              \* Client -> where the worker thread of its connection is
  work,                \* Client -> the frame its worker handles or is about to send
  target,              \* Client -> the session its worker sends a transfer intent to
  registered,          \* the sessions with is_agent that were not released
  agents,              \* Cluster -> the agent session transfers are sent to
  boots,               \* Cluster -> the worker_boot_id of its record
  shutdown_requested,
  serving              \* serve(): "accept", "join" or "returned"

coordinator == <<worker, work, target, registered, agents, boots, shutdown_requested, serving>>

CoordinatorType ==
  /\ worker \in [Client -> {"none", "first", "hello", "hello_ack", "agent", "acknowledge",
                            "control", "lookup", "intent", "check", "sleep", "asleep",
                            "respond", "answered", "leave", "done"}]
  /\ registered \subseteq Agent
  /\ \A x \in Client : worker[x] \in {"hello_ack", "agent", "acknowledge"} => x \in registered
  /\ DOMAIN agents \subseteq Cluster /\ \A c \in DOMAIN agents : ClusterOf[agents[c]] = c
  /\ shutdown_requested \in BOOLEAN /\ serving \in {"accept", "join", "returned"}

Goto(x, pc) == worker' = [worker EXCEPT ![x] = pc]
Hold(x, frame) == work' = [work EXCEPT ![x] = frame]

\* The handler returns and its locals are gone.
Forget(x) == Hold(x, Frame("NONE")) /\ target' = [target EXCEPT ![x] = x]

\* notify_all wakes every waiter that sleeps now.
Notify(x, pc) ==
  worker' = [y \in Client |-> IF y = x THEN pc
                              ELSE IF worker[y] = "asleep" THEN "check" ELSE worker[y]]

\* A call to the fabric: applied, or refused without an effect.
Attempt(A) == A \/ (~ENABLED A /\ UNCHANGED vars)

-----------------------------------------------------------------------------
(* Connections *)

\* serve: the accept loop starts a worker for the connection.
accept(x) ==
  /\ serving = "accept" /\ listening
  /\ worker[x] = "none" /\ x \in server_open
  /\ Goto(x, "first")
  /\ UNCHANGED <<vars, transport, work, target, registered, agents, boots, shutdown_requested,
                 serving>>

\* serve: the listener is closed, then every worker is joined.
accept_ends ==
  /\ serving = "accept" /\ ~listening
  /\ serving' = "join"
  /\ UNCHANGED <<vars, transport, worker, work, target, registered, agents, boots,
                 shutdown_requested>>

\* The process exits when serve returns and every connection it still held is closed.
serve_returns ==
  /\ serving = "join" /\ \A x \in Client : worker[x] \in {"none", "done"}
  /\ serving' = "returned"
  /\ server_closes(Client)
  /\ UNCHANGED <<vars, down, client_open, listening, worker, work, target, registered, agents, boots,
                 shutdown_requested>>

\* handle_connection ends, for the reason it noted or because a receive failed: an agent's
\* cluster loses its entry of the map, whichever session it holds by now, and the session
\* is closed and released.
leave(x) ==
  /\ \/ worker[x] = "leave"
     \/ worker[x] \in {"first", "agent", "control"} /\ receive_fails(x)
  /\ agents' = IF x \in registered
               THEN [c \in DOMAIN agents \ {ClusterOf[x]} |-> agents[c]] ELSE agents
  /\ registered' = registered \ {x}
  /\ server_closes({x})
  /\ Goto(x, "done")
  /\ UNCHANGED <<vars, down, client_open, listening, work, target, boots, shutdown_requested,
                 serving>>

-----------------------------------------------------------------------------
(* Agents *)

\* register_cluster of a registration that names boot b: it starts an incarnation if it is
\* forced to, or if the record of the cluster names another boot.
registers(c, b, force) ==
  /\ register_cluster(c, force \/ boots[c] # b)
  /\ boots' = [boots EXCEPT ![c] = b]

\* Faulty variant: another process is taken for the same boot.
HelloOfSameBoot(x) ==
  /\ worker[x] = "first" /\ server_receives(x) /\ Head(up[x]).type = "HELLO"
  /\ register_cluster(ClusterOf[x], FALSE)
  /\ boots' = [boots EXCEPT ![ClusterOf[x]] = ProcessId[x]]
  /\ Hold(x, [Frame("HELLO_ACK") EXCEPT !.incarnation = clusters'[ClusterOf[x]].incarnation])
  /\ Goto(x, "hello")
  /\ UNCHANGED <<down, client_open, server_open, listening, target, registered, agents,
                 shutdown_requested, serving>>

\* handle_agent_hello registers the cluster with the fabric: a process with another id is
\* another boot, and one with the same id is taken for the process that registered before.
hello(x) ==
  /\ worker[x] = "first" /\ server_receives(x) /\ Head(up[x]).type = "HELLO"
  /\ registers(ClusterOf[x], ProcessId[x], FALSE)
  /\ Hold(x, [Frame("HELLO_ACK") EXCEPT !.incarnation = clusters'[ClusterOf[x]].incarnation])
  /\ Goto(x, "hello")
  /\ UNCHANGED <<down, client_open, server_open, listening, target, registered, agents,
                 shutdown_requested, serving>>

\* Faulty variant: is_agent is not set.
EnterUnmarked(x) ==
  /\ worker[x] = "hello"
  /\ agents' = Put(agents, ClusterOf[x], x)
  /\ Goto(x, "hello_ack")
  /\ UNCHANGED <<vars, transport, work, target, registered, boots, shutdown_requested, serving>>

\* The session becomes the one transfers of its cluster are sent to.
enter_session(x) ==
  /\ worker[x] = "hello"
  /\ registered' = registered \cup {x}
  /\ agents' = Put(agents, ClusterOf[x], x)
  /\ Goto(x, "hello_ack")
  /\ UNCHANGED <<vars, transport, work, target, boots, shutdown_requested, serving>>

\* A registration whose acknowledgement cannot be sent ends the worker and releases nothing.
hello_ack(x) ==
  /\ worker[x] = "hello_ack"
  /\ \E sent \in BOOLEAN : /\ server_sends(x, work[x], sent)
                           /\ Goto(x, IF sent THEN "agent" ELSE "done")
  /\ Forget(x)
  /\ UNCHANGED <<vars, up, client_open, server_open, listening, registered, agents, boots,
                 shutdown_requested, serving>>

AckOf(type) == CASE type = "EVIDENCE"          -> "EVIDENCE_ACK"
                 [] type = "TRANSFER_PROGRESS" -> "TRANSFER_PROGRESS_ACK"
                 [] type = "TRANSFER_RESULT"   -> "TRANSFER_RESULT_ACK"
                 [] type = "VERIFY_RESULT"     -> "VERIFY_RESULT_ACK"

\* Faulty variant: the incarnation a report names is not compared.
AnyReporter(frame) == frame.replica \in DOMAIN replicas

\* guard_replica: the report names the incarnation its replica is bound to.
names_host(frame) == /\ frame.replica \in DOMAIN replicas
                     /\ replicas[frame.replica].incarnation = frame.incarnation

\* The mutation a report asks for.
reported(x, f) ==
  CASE f.type = "EVIDENCE" ->
         /\ clusters[ClusterOf[x]].incarnation = f.incarnation
         /\ publish_cluster_evidence(ClusterOf[x])
    [] f.type = "TRANSFER_PROGRESS" ->
         names_host(f) /\ record_transfer_progress(f.replica, f.operation, FALSE)
    [] f.type = "TRANSFER_RESULT" /\ f.outcome = "FAILED" ->
         names_host(f) /\ record_transfer_progress(f.replica, f.operation, TRUE)
    [] f.type = "TRANSFER_RESULT" /\ f.outcome # "FAILED" ->
         names_host(f) /\ record_transfer_completion(f.replica, f.operation, f.outcome)
    [] f.type = "VERIFY_RESULT" ->
         /\ names_host(f)
         /\ \E compatibility \in CompatibilityInput :
              verify_replica(f.replica, f.operation, f.outcome, compatibility)

\* handle_agent_frame up to the reply; an acknowledgement needs none.
handle_agent_frame(x) ==
  /\ worker[x] = "agent" /\ server_receives(x)
  /\ LET f == Head(up[x]) IN
     IF f.type = "TRANSFER_INTENT_ACK" THEN UNCHANGED <<vars, worker, work>>
     ELSE /\ Attempt(reported(x, f))
          /\ Hold(x, Frame(AckOf(f.type)))
          /\ Goto(x, "acknowledge")
  /\ UNCHANGED <<down, client_open, server_open, listening, target, registered, agents, boots,
                 shutdown_requested, serving>>

\* The reply, then the waiters are notified; a reply that cannot be sent ends the session
\* before they are.
acknowledge(x) ==
  /\ worker[x] = "acknowledge"
  /\ \/ server_sends(x, work[x], TRUE) /\ Notify(x, "agent")
     \/ server_sends(x, work[x], FALSE) /\ Goto(x, "leave")
  /\ Forget(x)
  /\ UNCHANGED <<vars, up, client_open, server_open, listening, registered, agents, boots,
                 shutdown_requested, serving>>

-----------------------------------------------------------------------------
(* Controllers *)

StateRequests == {"REGISTER_STATE", "COMMIT_STATE"}
ReplicaRequests == {"REGISTER_REPLICA", "TRANSFER_COMPLETION", "VERIFY_REPLICA", "COMMIT_REPLICA"}
OperationRequests == {"COMMIT_OPERATION", "CANCEL_OPERATION"}
ClusterRequests == {"MARK_CLUSTER_UNREACHABLE", "RETIRE_CLUSTER", "REVALIDATE_REPLICA"}
Mutations == StateRequests \cup ReplicaRequests \cup OperationRequests \cup ClusterRequests
             \cup {"REINCARNATE_CLUSTER"}

Authorizations == {"AUTHORIZE_REPLICATION", "AUTHORIZE_MIGRATION"}

Queries == {"STATUS", "QUERY_STATE", "LIST_CLUSTERS", "QUERY_REPLICA", "LIST_REPLICAS",
            "QUERY_OPERATION", "LIST_OPERATIONS", "QUERY_AUTHORIZATION", "EVALUATE_REUSE",
            "RECONCILE_REPLICA_SET", "PLAN_REPLICATION", "EXPLAIN_REPLICA_SET"}

\* The mutation a control request asks for; the arguments it does not name are any.
state_request(f) ==
  \E k \in StateKey :
    IF f.request = "REGISTER_STATE" THEN \E spec \in SpecInput : register_state(k, spec)
    ELSE commit_state_generation(k)

replica_request(f) ==
  LET r == f.replica IN
  CASE f.request = "REGISTER_REPLICA" ->
         \E k \in StateKey, c \in Cluster, l \in {"RESERVED", "TRANSFERRING"} :
           register_replica(r, k, c, l)
    [] f.request = "TRANSFER_COMPLETION" ->
         \E digest \in DigestInput : record_transfer_completion(r, f.operation, digest)
    [] f.request = "VERIFY_REPLICA" ->
         \E digest \in DigestInput, compatibility \in CompatibilityInput :
           verify_replica(r, f.operation, digest, compatibility)
    [] f.request = "COMMIT_REPLICA" ->
         \E make_owner, strict \in BOOLEAN : commit_replica(r, make_owner, strict)

operation_request(f) ==
  IF f.request = "CANCEL_OPERATION" THEN cancel_operation(f.operation)
  ELSE \E retire \in BOOLEAN : commit_operation(f.operation, retire)

cluster_request(f) ==
  CASE f.request = "MARK_CLUSTER_UNREACHABLE" -> \E c \in Cluster : mark_cluster_unreachable(c)
    [] f.request = "RETIRE_CLUSTER" -> \E c \in Cluster : retire_cluster(c)
    [] f.request = "REVALIDATE_REPLICA" ->
         \E compatible \in BOOLEAN : revalidate_replica(f.replica, compatible)

\* A registration passed on as the controller wrote it: any boot, forced or not.
reincarnate_request == \E c \in Cluster, b \in BootId, force \in BOOLEAN : registers(c, b, force)

control_mutation(f) ==
  CASE f.request \in StateRequests     -> state_request(f) /\ UNCHANGED boots
    [] f.request \in ReplicaRequests   -> replica_request(f) /\ UNCHANGED boots
    [] f.request \in OperationRequests -> operation_request(f) /\ UNCHANGED boots
    [] f.request \in ClusterRequests   -> cluster_request(f) /\ UNCHANGED boots
    [] f.request = "REINCARNATE_CLUSTER" -> reincarnate_request

\* The worker takes a control request off its connection.
takes_request(x) ==
  /\ worker[x] \in {"first", "control"} /\ server_receives(x)
  /\ Head(up[x]).type = "CONTROL_REQUEST"
  /\ UNCHANGED <<down, client_open, server_open, listening, registered, agents, serving>>

\* dispatch: of the mutations, only the commit and the cancellation of an operation
\* notify the waiters, and only when they succeed.
dispatch_mutation(x) ==
  /\ takes_request(x) /\ Head(up[x]).request \in Mutations
  /\ LET f == Head(up[x]) IN
     \/ /\ control_mutation(f)
        /\ IF f.request \in OperationRequests
           THEN Notify(x, "respond") ELSE Goto(x, "respond")
     \/ ~ENABLED control_mutation(f) /\ UNCHANGED <<vars, boots>> /\ Goto(x, "respond")
  /\ UNCHANGED <<work, target, shutdown_requested>>

\* dispatch: the queries read the plane.
dispatch_query(x) ==
  /\ takes_request(x) /\ Head(up[x]).request \in Queries
  /\ Goto(x, "respond")
  /\ UNCHANGED <<vars, work, target, boots, shutdown_requested>>

\* dispatch: shutdown is only noted here; the worker acts on it after its answer.
dispatch_shutdown(x) ==
  /\ takes_request(x) /\ Head(up[x]).request = "SHUTDOWN"
  /\ shutdown_requested' = TRUE
  /\ Goto(x, "respond")
  /\ UNCHANGED <<vars, work, target, boots>>

dispatch_await(x) ==
  /\ takes_request(x) /\ Head(up[x]).request = "AWAIT_OPERATION"
  /\ Hold(x, Head(up[x]))
  /\ Goto(x, "check")
  /\ UNCHANGED <<vars, target, boots, shutdown_requested>>

\* dispatch: the authorization is durable before any agent hears of it.
dispatch_authorize(x) ==
  /\ takes_request(x) /\ Head(up[x]).request \in Authorizations
  /\ LET f == Head(up[x])
         authorize(o, r, k, source, c) ==
           IF f.request = "AUTHORIZE_REPLICATION" THEN authorize_replication(o, r, k, source, c)
           ELSE \E retire \in BOOLEAN : authorize_migration(o, r, k, retire, source, c)
         Granted(o, r) == \E k \in StateKey, source \in ReplicaId, c \in Cluster :
                            authorize(o, r, k, source, c)
     IN \/ \E o \in OperationId, r \in ReplicaId :
             /\ Granted(o, r)
             /\ Hold(x, [Frame("TRANSFER_INTENT") EXCEPT !.operation = o, !.replica = r])
             /\ Goto(x, "lookup")
        \/ /\ ~ENABLED \E o \in OperationId, r \in ReplicaId : Granted(o, r)
           /\ Goto(x, "respond") /\ UNCHANGED <<vars, work>>
  /\ UNCHANGED <<target, boots, shutdown_requested>>

\* The sessions of both clusters are looked up; without them the operation stays in flight
\* and the controller is told that an agent is not connected.
lookup_sessions(x) ==
  /\ worker[x] = "lookup"
  /\ LET op == operations[work[x].operation]
         source == replicas[op.source].cluster
         destination == replicas[op.destination].cluster
     IN IF {source, destination} \subseteq DOMAIN agents
        THEN /\ target' = [target EXCEPT ![x] = agents[destination]]
             /\ Hold(x, [work[x] EXCEPT !.source = op.source, !.peer = agents[source]])
             /\ Goto(x, "intent")
        ELSE Goto(x, "respond") /\ UNCHANGED <<work, target>>
  /\ UNCHANGED <<vars, transport, registered, agents, boots, shutdown_requested, serving>>

\* The intent goes to the session that was found, closed or replaced as it may be by now;
\* the controller learns of a failure but the operation stays in flight.
send_intent(x) ==
  /\ worker[x] = "intent"
  /\ \E sent \in BOOLEAN : server_sends(target[x], work[x], sent)
  /\ Goto(x, "respond")
  /\ UNCHANGED <<vars, up, client_open, server_open, listening, work, target, registered,
                 agents, boots, shutdown_requested, serving>>

Settled(o) == \/ o \notin DOMAIN operations
              \/ operations[o].state = "PREPARED" \/ OperationIsTerminal(operations[o])

\* AWAIT_OPERATION checks the operation under the mutex and goes to sleep ...
await_check(x) ==
  /\ worker[x] = "check"
  /\ Goto(x, IF Settled(work[x].operation) THEN "respond" ELSE "sleep")
  /\ UNCHANGED <<vars, transport, work, target, registered, agents, boots, shutdown_requested,
                 serving>>

\* ... but notify_all is called without it, so a notification may come in between.
await_sleep(x) ==
  /\ worker[x] = "sleep"
  /\ Goto(x, "asleep")
  /\ UNCHANGED <<vars, transport, work, target, registered, agents, boots, shutdown_requested,
                 serving>>

respond(x) ==
  /\ worker[x] = "respond"
  /\ \E sent \in BOOLEAN : /\ server_sends(x, Frame("CONTROL_RESPONSE"), sent)
                           /\ Goto(x, IF sent THEN "answered" ELSE "leave")
  /\ Forget(x)
  /\ UNCHANGED <<vars, up, client_open, server_open, listening, registered, agents, boots,
                 shutdown_requested, serving>>

\* Faulty variant: every session is closed.
StopEverySession == {y \in Client : worker[y] \notin {"none", "done"}}

\* Faulty variant: no session is closed.
StopNoSession == {}

\* The sessions request_stop closes: a controller's is left to its own worker.
stopped_sessions == registered

\* After an answer: request_stop closes the listener, with the connections nobody has
\* accepted, and the agents' sessions.
after_answer(x) ==
  /\ worker[x] = "answered"
  /\ IF shutdown_requested
     THEN /\ listening' = FALSE
          /\ server_closes(stopped_sessions \cup {y \in Client : worker[y] = "none"})
          /\ Goto(x, "leave")
     ELSE Goto(x, "control") /\ UNCHANGED <<up, server_open, listening>>
  /\ UNCHANGED <<vars, down, client_open, work, target, registered, agents, boots,
                 shutdown_requested, serving>>

\* One step of the worker of connection x.
WorkerStep(x) ==
  \/ leave(x)
  \/ hello(x) \/ enter_session(x) \/ hello_ack(x) \/ handle_agent_frame(x) \/ acknowledge(x)
  \/ dispatch_mutation(x) \/ dispatch_query(x) \/ dispatch_shutdown(x) \/ dispatch_await(x)
  \/ dispatch_authorize(x) \/ lookup_sessions(x) \/ send_intent(x)
  \/ await_check(x) \/ await_sleep(x) \/ respond(x) \/ after_answer(x)
=============================================================================
