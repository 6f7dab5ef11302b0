----------------------------- MODULE Deployment -----------------------------
(***************************************************************************)
(* A coordinator, its cluster agents and its controllers as processes that *)
(* share nothing but their connections.  A controller (CoordinatorClient)  *)
(* has one request outstanding at a time; an agent may be killed at any    *)
(* moment and another process started for the same cluster.                *)
(***************************************************************************)
EXTENDS Coordinator, ClusterAgent

CONSTANTS
  Hosting,   \* <<agent, replica, bytes>> a controller may hand to a data port
  MaxFaults  \* bound on the agents killed and the bytes replaced

\* Agents measure digests that match and digests that do not, and controllers hand over
\* bytes of either kind.
ASSUME Measured == /\ {"MATCH", "MISMATCH"} \subseteq DigestInput
                   /\ Hosting \subseteq Agent \X ReplicaId \X {"MATCH", "MISMATCH"}

VARIABLES
  caller,    \* Controller -> where its client is: "idle", "waiting" or "closed"
  script,    \* Controller -> the requests it may still send: a sequence of sets of frames
  faults     \* agents killed and bytes replaced so far

controller_vars == <<caller, script, faults>>

all_vars == <<vars, transport, coordinator, agent_vars, controller_vars>>

\* The agents of booted serve, each holding the given bytes, the controllers with a script
\* have connected, and the agents of startable may be started.
ProcessesInit(booted, scripts, startable, bytes) ==
  LET connected == DOMAIN scripts IN
  /\ up = [x \in Client |-> << >>] /\ down = [x \in Client |-> << >>]
  /\ client_open = booted \cup connected /\ server_open = booted \cup connected
  /\ listening = TRUE
  /\ worker = [x \in Client |-> IF x \in booted THEN "agent"
                                ELSE IF x \in connected THEN "first" ELSE "none"]
  /\ work = [x \in Client |-> Frame("NONE")] /\ target = [x \in Client |-> x]
  /\ registered = booted
  /\ agents = [c \in {ClusterOf[a] : a \in booted} |-> CHOOSE a \in booted : ClusterOf[a] = c]
  /\ boots \in [Cluster -> BootId] /\ \A a \in booted : boots[ClusterOf[a]] = ProcessId[a]
  /\ shutdown_requested = FALSE /\ serving = "accept"
  /\ agent = [a \in Agent |-> IF a \in booted THEN "serve"
                              ELSE IF a \in startable THEN "off" ELSE "exited"]
  /\ incarnation = [a \in Agent |-> IF a \in booted THEN 1 ELSE 0]
  /\ transfer = [a \in Agent |-> NoTransfer]
  /\ store = bytes
  /\ caller = [k \in Controller |-> IF k \in connected THEN "idle" ELSE "closed"]
  /\ script = [k \in Controller |-> IF k \in connected THEN scripts[k] ELSE << >>]

\* The requests a controller may send, and the bytes an agent may hold.
ControlRequest ==
  [type: {"CONTROL_REQUEST"},
   request: Mutations \cup Authorizations \cup Queries \cup {"AWAIT_OPERATION", "SHUTDOWN"},
   operation: NamedOperation, replica: ReplicaId \cup {0},
   source: {0}, incarnation: {0}, outcome: {"NONE"}, peer: {"NONE"}]
Bytes == {"MATCH", "MISMATCH"}

\* The processes start with any agents booted, any scripts and any bytes.
ProcessesStart ==
  \E booted, startable \in SUBSET Agent, connected \in SUBSET Controller :
    \E scripts \in [connected -> Seq(SUBSET ControlRequest)],
       bytes \in [Agent -> UNION {[S -> Bytes] : S \in SUBSET ReplicaId}] :
      ProcessesInit(booted, scripts, startable, bytes)

\* CoordinatorClient::call sends the request and then receives the response.
send_request(k) ==
  /\ caller[k] = "idle" /\ script[k] # << >>
  /\ \E f \in Head(script[k]) : client_sends(k, f)
  /\ caller' = [caller EXCEPT ![k] = "waiting"]
  /\ script' = [script EXCEPT ![k] = Tail(@)]
  /\ UNCHANGED <<down, client_open, server_open, listening, faults>>

receive_response(k) ==
  /\ caller[k] = "waiting" /\ client_receives(k)
  /\ caller' = [caller EXCEPT ![k] = "idle"]
  /\ UNCHANGED <<up, client_open, server_open, listening, script, faults>>

\* The client object is destroyed, after its calls or when one of them failed.
disconnect(k) ==
  /\ \/ caller[k] = "idle" /\ (script[k] = << >> \/ receive_fails(k))
     \/ caller[k] = "waiting" /\ receive_fails(k)
  /\ client_closes(k)
  /\ caller' = [caller EXCEPT ![k] = "closed"]
  /\ UNCHANGED <<up, server_open, listening, script, faults>>

-----------------------------------------------------------------------------
(* Steps of the processes *)

ServerStep(x) == (accept(x) \/ WorkerStep(x)) /\ UNCHANGED <<agent_vars, controller_vars>>
ServeStep == (accept_ends \/ serve_returns) /\ UNCHANGED <<agent_vars, controller_vars>>
AgentRuns(a) == AgentStep(a) /\ UNCHANGED <<vars, coordinator, controller_vars>>
ControllerRuns(k) == /\ receive_response(k) \/ disconnect(k)
                     /\ UNCHANGED <<vars, coordinator, agent_vars>>

\* What happens to the processes from outside.
Outside ==
  \/ \E a \in Agent : start(a) /\ UNCHANGED <<vars, coordinator, controller_vars>>
  \/ /\ faults < MaxFaults /\ faults' = faults + 1
     /\ (\E a \in Agent : kill(a)) \/ (\E h \in Hosting : host_state(h[1], h[2], h[3]))
     /\ UNCHANGED <<vars, coordinator, caller, script>>
  \/ \E k \in Controller : send_request(k) /\ UNCHANGED <<vars, coordinator, agent_vars>>

DeploymentNext ==
  \/ \E x \in Client : ServerStep(x)
  \/ ServeStep
  \/ \E a \in Agent : AgentRuns(a)
  \/ \E k \in Controller : ControllerRuns(k)
  \/ Outside

\* The threads of the coordinator, of the agents and of the controllers are scheduled.
\* Nothing makes a process start, call or die.
Fairness ==
  /\ \A x \in Client : WF_all_vars(ServerStep(x))
  /\ WF_all_vars(ServeStep)
  /\ \A a \in Agent : WF_all_vars(AgentRuns(a))
  /\ \A k \in Controller : WF_all_vars(ControllerRuns(k))

-----------------------------------------------------------------------------
(* Properties *)

\* The plane, the sessions and the agents keep their types: in particular the map of agents
\* holds sessions of the cluster they are filed under, and every session that is served as
\* an agent's is marked as one (is_agent), so that request_stop finds it.
DeploymentType == TypeOK /\ CoordinatorType /\ AgentType /\ boots \in [Cluster -> BootId]

\* No other process of its cluster was given the incarnation agent a has.
SoleHolder(a) ==
  \A b \in Agent \ {a} : ClusterOf[b] = ClusterOf[a] => incarnation[b] # incarnation[a]

\* What the plane says of a transferred copy is true of the bytes: while the agent process
\* the copy is bound to lives, it stores under that replica the bytes of the state, from the
\* completion of the transfer on, whatever was lost, refused, repeated or replaced at the
\* source on the way.  A process with the id of an earlier one is taken for it and inherits
\* its copies with an empty store, so the claim is about incarnations one process has.
RecordedBytesAreStored ==
  \A r \in DOMAIN replicas, a \in Agent :
    (/\ replicas[r].operation # 0
     /\ replicas[r].lifecycle \in {"TRANSFERRED", "PREPARED", "AUTHORITATIVE"}
     /\ ClusterOf[a] = replicas[r].cluster /\ incarnation[a] = replicas[r].incarnation
     /\ agent[a] \in Serving /\ SoleHolder(a))
      => r \in DOMAIN store[a] /\ store[a][r] = "MATCH"

\* An incarnation is given to one process id: a process that replaces another of its cluster,
\* and has an id of its own, is given an incarnation of its own, also while the other still
\* runs and when controllers reincarnate the cluster in between; and no process has one that
\* the plane has not given out.
IncarnationsAreDistinct ==
  /\ \A a, b \in Agent :
       (/\ agent[a] \in Serving /\ agent[b] \in Serving
        /\ ClusterOf[a] = ClusterOf[b] /\ incarnation[a] = incarnation[b])
         => ProcessId[a] = ProcessId[b]
  /\ \A a \in Agent : agent[a] \in Serving =>
       /\ ClusterOf[a] \in DOMAIN clusters
       /\ incarnation[a] \in 1 .. clusters[ClusterOf[a]].incarnation

\* "Every cluster agent process start mints a fresh ClusterIncarnationId" (README.md): no two
\* processes of a cluster are ever given the same one.
EveryStartMintsAnIncarnation == \A a \in Agent : incarnation[a] # 0 => SoleHolder(a)

\* A report changes a replica or an operation only if it comes from the process that holds
\* the cluster's current incarnation, also when an intent for the new incarnation was sent
\* over the session of the old one.
FencedAgentChangesNothing ==
  [][\A a \in Agent :
       (/\ worker[a] = "agent" /\ worker'[a] = "acknowledge"
        /\ <<replicas, operations>>' # <<replicas, operations>>)
         => /\ clusters[ClusterOf[a]].incarnation = incarnation[a]
            /\ clusters[ClusterOf[a]].live_authority]_all_vars

\* The connection of a controller whose request is being handled is never closed under it,
\* by a shutdown that another controller asked for or by anything else, so the answer,
\* a shutdown acknowledgement included, can be written.
HandledRequestsStayConnected ==
  \A k \in Controller :
    worker[k] \in {"lookup", "intent", "check", "sleep", "asleep", "respond"} => k \in server_open

\* An agent whose control connection was closed at the other end exits, wherever it was in
\* a transfer: it never happens that from some point on some agent is left without one.
LinkLossEndsAgent ==
  []<>(\A a \in Agent : a \notin server_open => agent[a] \in {"off", "exited"})

\* The next frame ends the wait of an agent for an acknowledgement: it is another one, and
\* the last the wait admits.
WaitOverrun(a) ==
  /\ agent[a] \in {"await_result", "await_verify"} /\ down[a] # << >>
  /\ Head(down[a]).type # (IF agent[a] = "await_result" THEN "TRANSFER_RESULT_ACK"
                           ELSE "VERIFY_RESULT_ACK")
  /\ transfer[a].attempt + 1 = MaxAckFrames

\* The outcome of a transfer an agent has taken up reaches the plane: the destination is
\* verified, failed, corrupt or given up, unless the connection is lost, the agent fenced, or
\* other frames, the intents of other operations, fill the wait for an acknowledgement.
TransferIsReported ==
  LET Executes(a, o) == agent[a] = "pull" /\ transfer[a].intent.operation = o
      Destination(o) == replicas[operations[o].destination]
      Hosts(a, o) == /\ ClusterOf[a] = Destination(o).cluster
                     /\ incarnation[a] = Destination(o).incarnation
      Unsettled(o) == /\ HostIsLive(Destination(o))
                      /\ Destination(o).lifecycle \in {"RESERVED", "TRANSFERRING", "TRANSFERRED"}
  IN \A o \in OperationId :
       (o \in DOMAIN operations /\ \E a \in Agent : Executes(a, o) /\ Hosts(a, o)) ~>
         (o \in DOMAIN operations /\ Unsettled(o) =>
            \E a \in Agent : /\ Hosts(a, o)
                             /\ WaitOverrun(a) \/ a \notin client_open \cap server_open)

\* An agent that connected before the listener was closed is not registered yet: request_stop
\* closes the sessions of registered agents only, so it leaves this one open.
LateRegistration ==
  ~listening /\ \E a \in Agent : worker[a] \in {"first", "hello"} /\ a \in server_open

\* A shutdown ends with the return of serve(), unless a controller keeps the worker of its
\* connection waiting, for its next request or for an operation to settle, or an agent was
\* registering when the sessions were closed.
ShutdownCompletes ==
  \/ <>LateRegistration
  \/ ~listening ~> \/ serving = "returned"
                   \/ \E k \in Controller : worker[k] \in {"first", "control", "asleep"}
=============================================================================
