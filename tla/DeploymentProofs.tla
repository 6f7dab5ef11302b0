-------------------------- MODULE DeploymentProofs --------------------------
(***************************************************************************)
(* The processes of a deployment, for every value of the constants: what   *)
(* is known of the frames under way, of what every worker holds and of     *)
(* what every agent executes, and which steps of the fabric they ask for.  *)
(* What a request is refused for (ENABLED) never matters here: a refusal   *)
(* changes nothing.                                                        *)
(*                                                                         *)
(* The invariant follows a transfer through the queues: an intent is only  *)
(* ever addressed to a session of the cluster that hosts its replica, so   *)
(* every report is about a replica of the reporter's own cluster.  Every   *)
(* step of a process is a step of the fabric or leaves the plane alone,    *)
(* and keeps the invariant as long as replicas stay on their clusters and  *)
(* operations keep their destinations.                                     *)
(***************************************************************************)
EXTENDS Deployment, TLAPS

\* An entry of a map has the type of its entries, and its key that of the keys.
LEMMA MapEntry ==
  ASSUME NEW K, NEW V, NEW f, IsMap(f, K, V), NEW k \in DOMAIN f
  PROVE  f[k] \in V /\ k \in K
BY Zenon DEF IsMap

-----------------------------------------------------------------------------
(* Queues *)

\* The frames of a queue.
Frames(s) == {s[i] : i \in DOMAIN s}

\* Sending adds one frame to a queue.
LEMMA FramesAppend ==
  ASSUME NEW S, NEW s \in Seq(S), NEW f \in S
  PROVE  /\ Append(s, f) \in Seq(S)
         /\ Frames(Append(s, f)) = Frames(s) \cup {f}
<1>1. /\ Append(s, f) \in Seq(S) /\ DOMAIN s = 1 .. Len(s) /\ Len(s) \in Nat
      /\ DOMAIN Append(s, f) = 1 .. Len(s) + 1
      /\ \A i \in 1 .. Len(s) : Append(s, f)[i] = s[i]
      /\ Append(s, f)[Len(s) + 1] = f
  OBVIOUS
<1>2. \A i \in 1 .. Len(s) + 1 : i \in 1 .. Len(s) \/ i = Len(s) + 1
  BY <1>1
<1>3. \A i \in 1 .. Len(s) : i \in 1 .. Len(s) + 1
  BY <1>1
<1>4. Len(s) + 1 \in 1 .. Len(s) + 1
  BY <1>1
<1> QED  BY <1>1, <1>2, <1>3, <1>4, Zenon DEF Frames

\* Receiving takes the oldest frame and leaves a part of the others.
LEMMA FramesTail ==
  ASSUME NEW S, NEW s \in Seq(S), s # << >>
  PROVE  /\ Tail(s) \in Seq(S) /\ Frames(Tail(s)) \subseteq Frames(s)
         /\ Head(s) \in Frames(s) /\ Head(s) \in S
<1>1. /\ Tail(s) \in Seq(S) /\ DOMAIN s = 1 .. Len(s) /\ Len(s) \in Nat /\ Len(s) # 0
      /\ DOMAIN Tail(s) = 1 .. Len(s) - 1
      /\ \A i \in 1 .. Len(s) - 1 : Tail(s)[i] = s[i + 1]
      /\ Head(s) = s[1] /\ \A i \in 1 .. Len(s) : s[i] \in S
  OBVIOUS
<1>2. /\ \A i \in 1 .. Len(s) - 1 : i + 1 \in 1 .. Len(s)
      /\ 1 \in 1 .. Len(s)
  BY <1>1
<1> QED  BY <1>1, <1>2 DEF Frames

\* An empty queue holds no frame.
LEMMA FramesEmpty ==
  ASSUME NEW S
  PROVE  << >> \in Seq(S) /\ Frames(<< >>) = {}
BY DEF Frames

\* Every frame of a queue has the type of its frames.
LEMMA FramesTyped ==
  ASSUME NEW S, NEW s \in Seq(S), NEW f \in Frames(s)
  PROVE  f \in S
BY DEF Frames

\* A fresh queue holds its first frame.
LEMMA FramesFirst ==
  ASSUME NEW S, NEW f \in S
  PROVE  <<f>> \in Seq(S) /\ Frames(<<f>>) = {f}
<1>1. <<f>> \in Seq(S) /\ DOMAIN <<f>> = {1} /\ <<f>>[1] = f
  OBVIOUS
<1> QED  BY <1>1, Zenon DEF Frames

-----------------------------------------------------------------------------
(* The inductive invariant *)

NamedReplica == ReplicaId \cup {0}

FrameType == {"NONE", "HELLO", "HELLO_ACK", "EVIDENCE", "EVIDENCE_ACK", "TRANSFER_INTENT",
              "TRANSFER_INTENT_ACK", "TRANSFER_PROGRESS", "TRANSFER_PROGRESS_ACK",
              "TRANSFER_RESULT", "TRANSFER_RESULT_ACK", "VERIFY_RESULT", "VERIFY_RESULT_ACK",
              "CONTROL_REQUEST", "CONTROL_RESPONSE"}
RequestType == Mutations \cup Authorizations \cup Queries
                 \cup {"AWAIT_OPERATION", "SHUTDOWN", "NONE"}
Outcome == Bytes \cup {"FAILED", "NONE"}

FrameRecord == [type: FrameType, request: RequestType, operation: NamedOperation,
                replica: NamedReplica, source: NamedReplica, incarnation: Nat,
                outcome: Outcome, peer: Agent \cup {"NONE"}]

TransferRecord == [intent: FrameRecord, bytes: Bytes \cup {"NONE"}, attempt: Nat]

\* The agent is of the cluster that hosts the replica.
Routed(a, r) == r \in DOMAIN replicas /\ replicas[r].cluster = ClusterOf[a]

\* The intent is for the agent's cluster and names the process to pull from.
Intended(a, f) == Routed(a, f.replica) /\ f.peer \in Agent

Unregistered == {"off", "hello", "evidence"}
Transferring == {"pull", "receive", "await_result", "await_verify"}

\* An agent executes transfers into its own cluster, of bytes it received.
AgentInv ==
  /\ AgentType
  /\ incarnation \in [Agent -> Nat] /\ transfer \in [Agent -> TransferRecord]
  /\ DOMAIN store = Agent /\ \A a \in Agent : IsMap(store[a], ReplicaId, Bytes)
  /\ \A a \in Agent :
       /\ agent[a] \in Transferring => Intended(a, transfer[a].intent)
       /\ agent[a] \in Transferring \ {"pull"} => transfer[a].bytes \in Bytes

ControlStates == {"control", "lookup", "intent", "check", "sleep", "asleep", "respond",
                  "answered"}
SessionStates == {"hello", "hello_ack", "agent", "acknowledge"}

\* What a worker holds belongs to the handler it is in, and an intent it is about to send is
\* addressed to a session of the cluster that hosts the destination.
WorkerInv(x) ==
  /\ x \in Agent => worker[x] \notin ControlStates
  /\ x \in Controller => worker[x] \notin SessionStates
  /\ worker[x] \in SessionStates => work[x].type # "TRANSFER_INTENT"
  /\ worker[x] = "lookup" =>
       /\ work[x].operation \in DOMAIN operations
       /\ operations[work[x].operation].destination = work[x].replica
  /\ worker[x] = "intent" => target[x] \in Agent /\ Intended(target[x], work[x])

CoordinatorInv ==
  /\ CoordinatorType /\ HandledRequestsStayConnected
  /\ \A x \in Client : WorkerInv(x)
  /\ work \in [Client -> FrameRecord] /\ target \in [Client -> Client]
  /\ IsMap(agents, Cluster, Agent)

\* A report comes from a registered agent, names the incarnation it was given and concerns a
\* replica of its cluster.
IsReport(a, f) ==
  /\ \/ f.type = "TRANSFER_PROGRESS"
     \/ f.type = "TRANSFER_RESULT" /\ f.outcome \in Bytes \cup {"FAILED"}
     \/ f.type = "VERIFY_RESULT" /\ f.outcome \in Bytes
  /\ f.incarnation = incarnation[a]
  /\ Routed(a, f.replica)
  /\ agent[a] \notin Unregistered

\* The frames the coordinator may receive over the connection, and an agent over its own.
UpFrame(x, f) ==
  /\ x \in Controller => f.type = "CONTROL_REQUEST"
  /\ x \in Agent => \/ f.type = "HELLO" /\ worker[x] \in {"none", "first"}
                    \/ f.type \in {"EVIDENCE", "TRANSFER_INTENT_ACK"}
                    \/ IsReport(x, f)

DownFrame(a, f) == f.type = "TRANSFER_INTENT" => Intended(a, f)

\* Only the first frame of a connection is a HELLO.
HelloFirst(s) == s # << >> => \A f \in Frames(Tail(s)) : f.type # "HELLO"

QueueInv ==
  /\ up \in [Client -> Seq(FrameRecord)] /\ down \in [Client -> Seq(FrameRecord)]
  /\ script \in [Controller -> Seq(SUBSET ControlRequest)]
  /\ \A x \in Client : HelloFirst(up[x]) /\ \A f \in Frames(up[x]) : UpFrame(x, f)
  /\ \A a \in Agent : \A f \in Frames(down[a]) : DownFrame(a, f)
  /\ \A a \in Agent : agent[a] = "off" => worker[a] = "none" /\ a \notin server_open

\* The destination of every operation is a replica.
DestinationsKnown == \A o \in DOMAIN operations : operations[o].destination \in DOMAIN replicas

ProcessInv == /\ TypeOK /\ DestinationsKnown /\ boots \in [Cluster -> BootId]
              /\ CoordinatorInv /\ AgentInv /\ QueueInv

-----------------------------------------------------------------------------
(* Sending and receiving *)

\* Every frame that is sent is a frame.
LEMMA FrameTyped ==
  ASSUME NEW type \in FrameType
  PROVE  Frame(type) \in FrameRecord /\ Frame(type).type = type
<1>1. /\ 0 \in NamedOperation /\ 0 \in NamedReplica
      /\ "NONE" \in RequestType /\ "NONE" \in Outcome
  BY Zenon DEF NamedOperation, NamedReplica, RequestType, Outcome
<1> QED  BY <1>1, Zenon DEF Frame, FrameRecord

\* What a step does to the frames under way to the coordinator: over the connection of x
\* those of F may be added, none of them a HELLO behind another frame.
UpStep(x, F) ==
  /\ up' \in [Client -> Seq(FrameRecord)]
  /\ \A y \in Client : HelloFirst(up'[y])
  /\ \A y \in Client \ {x} : Frames(up'[y]) \subseteq Frames(up[y])
  /\ Frames(up'[x]) \subseteq Frames(up[x]) \cup F

DownStep(x, F) ==
  /\ down' \in [Client -> Seq(FrameRecord)]
  /\ \A y \in Client \ {x} : Frames(down'[y]) \subseteq Frames(down[y])
  /\ Frames(down'[x]) \subseteq Frames(down[x]) \cup F

\* Frames under way that nobody touches stay as they are.
LEMMA UpUnchanged ==
  ASSUME QueueInv, NEW x \in Client, UNCHANGED up
  PROVE  UpStep(x, {})
BY Zenon DEF QueueInv, UpStep

\* So do the frames under way to the clients.
LEMMA DownUnchanged ==
  ASSUME QueueInv, NEW x \in Client, UNCHANGED down
  PROVE  DownStep(x, {})
BY Zenon DEF QueueInv, DownStep

\* A queue that grows by another frame than a HELLO still has its HELLO first.
LEMMA HelloAppend ==
  ASSUME NEW s \in Seq(FrameRecord), NEW f \in FrameRecord, HelloFirst(s), f.type # "HELLO"
  PROVE  HelloFirst(Append(s, f))
<1>1. CASE s = << >>
  <2>1. Tail(Append(s, f)) = << >>
    BY <1>1
  <2> QED  BY <2>1, FramesEmpty, Zenon DEF HelloFirst
<1>2. CASE s # << >>
  <2>1. Tail(Append(s, f)) = Append(Tail(s), f) /\ Tail(s) \in Seq(FrameRecord)
    BY <1>2
  <2>2. \A t \in Seq(FrameRecord) : Frames(Append(t, f)) = Frames(t) \cup {f}
    BY FramesAppend
  <2>3. Frames(Tail(Append(s, f))) = Frames(Tail(s)) \cup {f}
    BY <2>1, <2>2, Zenon
  <2> QED  BY <1>2, <2>3, Zenon DEF HelloFirst
<1> QED  BY <1>1, <1>2, Zenon

\* Once its first frame is received, a queue holds no HELLO.
LEMMA HelloTail ==
  ASSUME NEW s \in Seq(FrameRecord), s # << >>, HelloFirst(s)
  PROVE  HelloFirst(Tail(s)) /\ \A f \in Frames(Tail(s)) : f.type # "HELLO"
<1>1. \A f \in Frames(Tail(s)) : f.type # "HELLO"
  BY Zenon DEF HelloFirst
<1>2. CASE Tail(s) # << >>
  <2>1. Frames(Tail(Tail(s))) \subseteq Frames(Tail(s))
    BY <1>2, FramesTail, Zenon
  <2> QED  BY <1>1, <2>1, Zenon DEF HelloFirst
<1> QED  BY <1>1, <1>2, Zenon DEF HelloFirst

\* A client that sends adds its frame, or none when the other end is closed.
LEMMA ClientSends ==
  ASSUME QueueInv, NEW x \in Client, NEW f \in FrameRecord, f.type # "HELLO",
         client_sends(x, f)
  PROVE  UpStep(x, {f})
<1>1. CASE x \in server_open
  <2>1. up[x] \in Seq(FrameRecord) /\ HelloFirst(up[x])
    BY Zenon DEF QueueInv
  <2>2. /\ Append(up[x], f) \in Seq(FrameRecord) /\ HelloFirst(Append(up[x], f))
        /\ Frames(Append(up[x], f)) = Frames(up[x]) \cup {f}
    BY <2>1, FramesAppend, HelloAppend
  <2>3. up' = [up EXCEPT ![x] = Append(up[x], f)]
    BY <1>1, Zenon DEF client_sends
  <2> QED  BY <2>2, <2>3, Zenon DEF QueueInv, UpStep
<1>2. CASE x \notin server_open
  BY <1>2, Zenon DEF client_sends, QueueInv, UpStep
<1> QED  BY <1>1, <1>2, Zenon

\* So does a worker.
LEMMA ServerSends ==
  ASSUME QueueInv, NEW x \in Client, NEW f \in FrameRecord, NEW sent \in BOOLEAN,
         server_sends(x, f, sent)
  PROVE  DownStep(x, {f})
<1>1. CASE sent /\ x \in client_open
  <2>1. down[x] \in Seq(FrameRecord)
    BY Zenon DEF QueueInv
  <2>2. /\ Append(down[x], f) \in Seq(FrameRecord)
        /\ Frames(Append(down[x], f)) = Frames(down[x]) \cup {f}
    BY <2>1, FramesAppend
  <2>3. down' = [down EXCEPT ![x] = Append(down[x], f)]
    BY <1>1, Zenon DEF server_sends
  <2> QED  BY <2>2, <2>3, Zenon DEF QueueInv, DownStep
<1>2. CASE ~(sent /\ x \in client_open)
  BY <1>2, Zenon DEF server_sends, QueueInv, DownStep
<1> QED  BY <1>1, <1>2, Zenon

\* A received frame was under way, and no HELLO is left behind it.
LEMMA ServerReceives ==
  ASSUME QueueInv, NEW x \in Client, server_receives(x)
  PROVE  /\ UpStep(x, {}) /\ \A f \in Frames(up'[x]) : f.type # "HELLO"
         /\ Head(up[x]) \in FrameRecord /\ UpFrame(x, Head(up[x]))
<1>1. /\ up[x] \in Seq(FrameRecord) /\ HelloFirst(up[x]) /\ up[x] # << >>
      /\ up' = [up EXCEPT ![x] = Tail(up[x])]
  BY Zenon DEF QueueInv, server_receives
<1>2. /\ Tail(up[x]) \in Seq(FrameRecord) /\ Frames(Tail(up[x])) \subseteq Frames(up[x])
      /\ Head(up[x]) \in Frames(up[x]) /\ Head(up[x]) \in FrameRecord
  BY <1>1, FramesTail, Zenon
<1>3. HelloFirst(Tail(up[x])) /\ \A f \in Frames(Tail(up[x])) : f.type # "HELLO"
  BY <1>1, HelloTail, Zenon
<1>4. UpStep(x, {})
  BY <1>1, <1>2, <1>3, Zenon DEF QueueInv, UpStep
<1>5. up'[x] = Tail(up[x])
  BY <1>1, Zenon DEF QueueInv
<1> QED  BY <1>2, <1>3, <1>4, <1>5, Zenon DEF QueueInv

\* A client receives a frame that was under way.
LEMMA ClientReceives ==
  ASSUME QueueInv, NEW x \in Client, client_receives(x)
  PROVE  /\ DownStep(x, {}) /\ Head(down[x]) \in FrameRecord
         /\ x \in Agent => DownFrame(x, Head(down[x]))
<1>1. /\ down[x] \in Seq(FrameRecord) /\ down[x] # << >>
      /\ down' = [down EXCEPT ![x] = Tail(down[x])]
  BY Zenon DEF QueueInv, client_receives
<1>2. /\ Tail(down[x]) \in Seq(FrameRecord) /\ Frames(Tail(down[x])) \subseteq Frames(down[x])
      /\ Head(down[x]) \in Frames(down[x]) /\ Head(down[x]) \in FrameRecord
  BY <1>1, FramesTail, Zenon
<1>3. DownStep(x, {})
  BY <1>1, <1>2, Zenon DEF QueueInv, DownStep
<1> QED  BY <1>2, <1>3, Zenon DEF QueueInv

\* A closed connection has no frame under way.
LEMMA ClientCloses ==
  ASSUME QueueInv, NEW x \in Client, client_closes(x)
  PROVE  DownStep(x, {})
<1>1. << >> \in Seq(FrameRecord) /\ Frames(<< >>) = {}
  BY FramesEmpty, Zenon
<1> QED  BY <1>1, Zenon DEF client_closes, QueueInv, DownStep

\* Nor has one that the coordinator closed.
LEMMA ServerCloses ==
  ASSUME QueueInv, NEW x \in Client, NEW X, server_closes(X)
  PROVE  UpStep(x, {})
<1>1. << >> \in Seq(FrameRecord) /\ Frames(<< >>) = {} /\ HelloFirst(<< >>)
  BY FramesEmpty, Zenon DEF HelloFirst
<1> QED  BY <1>1, Zenon DEF server_closes, QueueInv, UpStep

\* The oldest frame of a queue is one of its frames.
LEMMA HeadIsUnderWay ==
  ASSUME QueueInv, NEW x \in Client
  PROVE  /\ up[x] # << >> => Head(up[x]) \in Frames(up[x])
         /\ down[x] # << >> => Head(down[x]) \in Frames(down[x])
<1>1. up[x] \in Seq(FrameRecord) /\ down[x] \in Seq(FrameRecord)
  BY Zenon DEF QueueInv
<1> QED  BY <1>1, FramesTail, Zenon

-----------------------------------------------------------------------------
(* Workers *)

WorkerState == {"none", "first", "leave", "done"} \cup ControlStates \cup SessionStates

\* The worker of x goes on at pc; the others stay where they are, or are woken.
Moves(x, pc) ==
  /\ worker' \in [Client -> WorkerState] /\ worker'[x] = pc
  /\ \A y \in Client \ {x} :
       worker'[y] = worker[y] \/ (worker[y] = "asleep" /\ worker'[y] = "check")

\* The other workers keep what they hold.
Holds(x) ==
  /\ work' \in [Client -> FrameRecord] /\ target' \in [Client -> Client]
  /\ \A y \in Client \ {x} : work'[y] = work[y] /\ target'[y] = target[y]

\* A worker that goes on, with or without a notification, moves only itself.
LEMMA GotoMoves ==
  ASSUME CoordinatorInv, NEW x \in Client, NEW pc \in WorkerState, Goto(x, pc) \/ Notify(x, pc)
  PROVE  Moves(x, pc)
<1>1. worker \in [Client -> WorkerState]
  BY Zenon DEF CoordinatorInv, CoordinatorType, WorkerState, ControlStates, SessionStates
<1>2. "check" \in WorkerState
  BY Zenon DEF WorkerState, ControlStates
<1> QED  BY <1>1, <1>2, Zenon DEF Goto, Notify, Moves

\* A worker that takes a frame in hand leaves what the others hold.
LEMMA HoldHolds ==
  ASSUME CoordinatorInv, NEW x \in Client, NEW f \in FrameRecord, NEW t \in Client,
         UNCHANGED work \/ Hold(x, f),
         UNCHANGED target \/ target' = [target EXCEPT ![x] = t]
  PROVE  Holds(x)
BY DEF CoordinatorInv, Hold, Holds

\* So does one that returns from its handler.
LEMMA ForgetHolds ==
  ASSUME CoordinatorInv, NEW x \in Client, Forget(x)
  PROVE  Holds(x) /\ work'[x] = Frame("NONE")
<1>1. Frame("NONE") \in FrameRecord
  BY FrameTyped, Zenon DEF FrameType
<1>2. Hold(x, Frame("NONE")) /\ target' = [target EXCEPT ![x] = x]
  BY Zenon DEF Forget
<1> QED  BY <1>1, <1>2, HoldHolds, Zenon DEF Hold, CoordinatorInv

-----------------------------------------------------------------------------
(* Agents and controllers *)

\* Between transfers an agent holds none.
LEMMA NoTransferTyped ==
  NoTransfer \in TransferRecord /\ NoTransfer.attempt = 0 /\ 0 < MaxAckFrames
<1>1. Frame("NONE") \in FrameRecord
  BY FrameTyped, Zenon DEF FrameType
<1> QED  BY <1>1, AckFrames DEF NoTransfer, TransferRecord

\* What an agent reports is a report.
LEMMA ReportTyped ==
  ASSUME AgentInv, NEW a \in Agent, agent[a] \in Transferring,
         NEW type \in FrameType, NEW outcome \in Outcome
  PROVE  LET f == Report(a, type, outcome) IN
         /\ f \in FrameRecord /\ f.type = type /\ f.outcome = outcome
         /\ f.incarnation = incarnation[a] /\ Routed(a, f.replica)
<1>1. /\ transfer[a].intent \in FrameRecord /\ incarnation[a] \in Nat
      /\ Routed(a, transfer[a].intent.replica)
  BY Zenon DEF AgentInv, TransferRecord, Intended
<1>2. Frame(type) \in FrameRecord /\ Frame(type).type = type
  BY FrameTyped, Zenon
<1> QED  BY <1>1, <1>2, Zenon DEF Report, FrameRecord

\* The bytes a source holds are bytes.
LEMMA SourceBytesTyped ==
  ASSUME AgentInv, NEW a \in Agent, agent[a] \in Transferring
  PROVE  SourceBytes(a) \subseteq Bytes
<1>1. transfer[a].intent.peer \in Agent
  BY Zenon DEF AgentInv, Intended
<1> QED  BY <1>1, Zenon DEF SourceBytes, AgentInv, IsMap

\* A controller's request is one of the requests there are.
LEMMA ControlRequestTyped ==
  ASSUME NEW f \in ControlRequest
  PROVE  f \in FrameRecord /\ f.type = "CONTROL_REQUEST"
<1>1. /\ {"NONE"} \subseteq Outcome /\ {"CONTROL_REQUEST"} \subseteq FrameType
      /\ Mutations \cup Authorizations \cup Queries \cup {"AWAIT_OPERATION", "SHUTDOWN"}
           \subseteq RequestType
  BY Zenon DEF Outcome, FrameType, RequestType
<1> QED  BY <1>1 DEF ControlRequest, FrameRecord, NamedReplica

-----------------------------------------------------------------------------
(* Steps of the fabric *)

\* A registration is a step of the fabric, whatever boot it names.
LEMMA RegistrationIsStep ==
  ASSUME NEW c \in Cluster, NEW b, NEW force \in BOOLEAN, registers(c, b, force)
  PROVE  Next
<1>1. (force \/ boots[c] # b) \in BOOLEAN
  OBVIOUS
<1> QED  BY <1>1, Zenon DEF registers, Next, ClusterStep

\* What a control request asks for is a mutation of the fabric.
LEMMA RequestIsStep ==
  ASSUME TypeOK, NEW f, f.operation \in NamedOperation, f.request \in Mutations,
         control_mutation(f)
  PROVE  Next
<1>1. DOMAIN replicas \subseteq ReplicaId /\ DOMAIN operations \subseteq OperationId
  BY Zenon DEF TypeOK, IsMap
<1>2. CASE f.request \in StateRequests
  <2>1. state_request(f)
    BY <1>2, Zenon DEF control_mutation, StateRequests, ReplicaRequests, OperationRequests,
                ClusterRequests
  <2> QED  BY <2>1, Zenon DEF state_request, Next, StateStep
<1>3. CASE f.request \in ReplicaRequests
  <2> DEFINE r == f.replica
  <2>1. replica_request(f)
    BY <1>3, Zenon DEF control_mutation, StateRequests, ReplicaRequests, OperationRequests,
                ClusterRequests
  <2>2. CASE f.request = "REGISTER_REPLICA"
    <3>1. \E k \in StateKey, c \in Cluster, l \in {"RESERVED", "TRANSFERRING"} :
            register_replica(r, k, c, l)
      BY <2>1, <2>2, Zenon DEF replica_request
    <3>2. r \in ReplicaId
      BY <3>1, Zenon DEF register_replica, Minted
    <3> QED  BY <3>1, <3>2, Zenon DEF Next, ReplicaStep
  <2>3. CASE f.request = "TRANSFER_COMPLETION"
    <3>1. \E digest \in DigestInput : record_transfer_completion(r, f.operation, digest)
      BY <2>1, <2>3, Zenon DEF replica_request
    <3>2. r \in ReplicaId
      BY <1>1, <3>1, Zenon DEF record_transfer_completion, guard_replica
    <3> QED  BY <3>1, <3>2, Zenon DEF Next, ReplicaStep
  <2>4. CASE f.request = "VERIFY_REPLICA"
    <3>1. \E digest \in DigestInput, compatibility \in CompatibilityInput :
            verify_replica(r, f.operation, digest, compatibility)
      BY <2>1, <2>4, Zenon DEF replica_request
    <3>2. r \in ReplicaId
      BY <1>1, <3>1, Zenon DEF verify_replica, guard_replica
    <3> QED  BY <3>1, <3>2, Zenon DEF Next, ReplicaStep
  <2>5. CASE f.request = "COMMIT_REPLICA"
    <3>1. \E make_owner, strict \in BOOLEAN : commit_replica(r, make_owner, strict)
      BY <2>1, <2>5, Zenon DEF replica_request
    <3>2. r \in ReplicaId
      BY <1>1, <3>1, Zenon DEF commit_replica
    <3> QED  BY <3>1, <3>2, Zenon DEF Next, ReplicaStep
  <2> QED  BY <1>3, <2>2, <2>3, <2>4, <2>5, Zenon DEF ReplicaRequests
<1>4. CASE f.request \in OperationRequests
  <2>1. operation_request(f)
    BY <1>4, Zenon DEF control_mutation, StateRequests, ReplicaRequests, OperationRequests,
                ClusterRequests
  <2>2. CASE f.request = "CANCEL_OPERATION"
    <3>1. cancel_operation(f.operation) /\ f.operation \in OperationId
      BY <1>1, <2>1, <2>2, Zenon DEF operation_request, cancel_operation
    <3> QED  BY <3>1, Zenon DEF Next, OperationStep
  <2>3. CASE f.request # "CANCEL_OPERATION"
    <3>1. \E retire \in BOOLEAN : commit_operation(f.operation, retire)
      BY <2>1, <2>3, Zenon DEF operation_request
    <3>2. f.operation \in OperationId
      BY <1>1, <3>1, Zenon DEF commit_operation
    <3> QED  BY <3>1, <3>2, Zenon DEF Next, OperationStep
  <2> QED  BY <2>2, <2>3, Zenon
<1>5. CASE f.request \in ClusterRequests
  <2>1. cluster_request(f)
    BY <1>5, Zenon DEF control_mutation, StateRequests, ReplicaRequests, OperationRequests,
                ClusterRequests
  <2>2. CASE f.request = "MARK_CLUSTER_UNREACHABLE"
    BY <2>1, <2>2, Zenon DEF cluster_request, Next, ClusterStep
  <2>3. CASE f.request = "RETIRE_CLUSTER"
    BY <2>1, <2>3, Zenon DEF cluster_request, Next, ClusterStep
  <2>5. CASE f.request = "REVALIDATE_REPLICA"
    <3>1. \E compatible \in BOOLEAN : revalidate_replica(f.replica, compatible)
      BY <2>1, <2>5, Zenon DEF cluster_request
    <3>2. f.replica \in ReplicaId
      BY <1>1, <3>1, Zenon DEF revalidate_replica
    <3> QED  BY <3>1, <3>2, Zenon DEF Next, ReplicaStep
  <2> QED  BY <1>5, <2>2, <2>3, <2>5, Zenon DEF ClusterRequests
<1>6. CASE f.request = "REINCARNATE_CLUSTER"
  <2>1. reincarnate_request
    BY <1>6, Zenon DEF control_mutation, StateRequests, ReplicaRequests, OperationRequests,
                ClusterRequests
  <2> QED  BY <2>1, RegistrationIsStep, Zenon DEF reincarnate_request
<1> QED  BY <1>2, <1>3, <1>4, <1>5, <1>6, Zenon DEF Mutations

\* So is what an agent reports, and it is about the replica the report names.
LEMMA ReportIsStep ==
  ASSUME TypeOK, NEW a \in Agent, NEW f, f.operation \in NamedOperation, UpFrame(a, f),
         f.type \notin {"HELLO", "TRANSFER_INTENT_ACK"}, reported(a, f)
  PROVE  /\ Next
         /\ \/ f.type = "EVIDENCE" /\ publish_cluster_evidence(ClusterOf[a])
            \/ IsReport(a, f) /\ names_host(f) /\ guard_replica(f.replica)
<1>1. DOMAIN replicas \subseteq ReplicaId /\ ClusterOf[a] \in Cluster
  BY Configured, Zenon DEF TypeOK, IsMap
<1>2. f.type = "EVIDENCE" \/ IsReport(a, f)
  BY Zenon DEF UpFrame
<1>3. CASE f.type = "EVIDENCE"
  <2>1. publish_cluster_evidence(ClusterOf[a])
    BY <1>3, Zenon DEF reported
  <2> QED  BY <1>1, <1>3, <2>1, Zenon DEF Next, ClusterStep
<1>4. CASE f.type = "TRANSFER_PROGRESS"
  <2>1. names_host(f) /\ record_transfer_progress(f.replica, f.operation, FALSE)
    BY <1>4, Zenon DEF reported
  <2>2. guard_replica(f.replica) /\ f.replica \in ReplicaId
    BY <1>1, <2>1, Zenon DEF record_transfer_progress, guard_replica
  <2> QED  BY <1>2, <1>4, <2>1, <2>2, Zenon DEF Next, ReplicaStep
<1>5. CASE f.type = "TRANSFER_RESULT" /\ f.outcome = "FAILED"
  <2>1. names_host(f) /\ record_transfer_progress(f.replica, f.operation, TRUE)
    BY <1>5, Zenon DEF reported
  <2>2. guard_replica(f.replica) /\ f.replica \in ReplicaId
    BY <1>1, <2>1, Zenon DEF record_transfer_progress, guard_replica
  <2> QED  BY <1>2, <1>5, <2>1, <2>2, Zenon DEF Next, ReplicaStep
<1>6. CASE f.type = "TRANSFER_RESULT" /\ f.outcome # "FAILED"
  <2>1. names_host(f) /\ record_transfer_completion(f.replica, f.operation, f.outcome)
    BY <1>6, Zenon DEF reported
  <2>2. guard_replica(f.replica) /\ f.replica \in ReplicaId
    BY <1>1, <2>1, Zenon DEF record_transfer_completion, guard_replica
  <2>3. f.outcome \in DigestInput
    BY <1>2, <1>6, Measured, Zenon DEF IsReport, Bytes
  <2> QED  BY <1>2, <1>6, <2>1, <2>2, <2>3, Zenon DEF Next, ReplicaStep
<1>7. CASE f.type = "VERIFY_RESULT"
  <2>1. names_host(f)
    BY <1>7, Zenon DEF reported
  <2>2. \E compatibility \in CompatibilityInput :
          verify_replica(f.replica, f.operation, f.outcome, compatibility)
    BY <1>7, Zenon DEF reported
  <2>3. guard_replica(f.replica) /\ f.replica \in ReplicaId
    BY <1>1, <2>2, Zenon DEF verify_replica, guard_replica
  <2>4. f.outcome \in DigestInput
    BY <1>2, <1>7, Measured, Zenon DEF IsReport, Bytes
  <2> QED  BY <1>2, <1>7, <2>1, <2>2, <2>3, <2>4, Zenon DEF Next, ReplicaStep
<1> QED  BY <1>2, <1>3, <1>4, <1>5, <1>6, <1>7, Zenon DEF IsReport

\* Only an agent says HELLO, and the cluster it is configured for is registered.
LEMMA HelloIsStep ==
  ASSUME ProcessInv, NEW x \in Client, hello(x)
  PROVE  Next /\ x \in Agent
<1>1. UpFrame(x, Head(up[x])) /\ Head(up[x]).type = "HELLO"
  BY ServerReceives, Zenon DEF ProcessInv, hello
<1>2. x \in Agent
  BY <1>1, Zenon DEF UpFrame, Client
<1>3. registers(ClusterOf[x], ProcessId[x], FALSE) /\ ClusterOf[x] \in Cluster
  BY <1>2, Configured, Zenon DEF hello
<1> QED  BY <1>2, <1>3, RegistrationIsStep, Zenon

\* A frame an agent's session receives is an acknowledgement, or a report that is applied
\* or refused.
LEMMA AgentFrameIsStep ==
  ASSUME ProcessInv, NEW x \in Client, handle_agent_frame(x)
  PROVE  LET f == Head(up[x]) IN
         /\ x \in Agent /\ f \in FrameRecord /\ UpFrame(x, f) /\ f.type # "HELLO"
         /\ \/ f.type = "TRANSFER_INTENT_ACK" /\ UNCHANGED <<vars, worker, work>>
            \/ /\ f.type # "TRANSFER_INTENT_ACK"
               /\ UNCHANGED vars \/ (reported(x, f) /\ Next)
               /\ Hold(x, Frame(AckOf(f.type))) /\ Goto(x, "acknowledge")
<1> DEFINE f == Head(up[x])
<1>1. worker[x] = "agent" /\ server_receives(x)
  BY Zenon DEF handle_agent_frame
<1>2. f \in FrameRecord /\ UpFrame(x, f)
  BY <1>1, ServerReceives, Zenon DEF ProcessInv
<1>3. x \in Agent
  BY <1>1, Zenon DEF ProcessInv, CoordinatorInv, WorkerInv, Client, SessionStates
<1>4. f.type # "HELLO"
  BY <1>1, <1>2, <1>3, Zenon DEF UpFrame, IsReport
<1>5. CASE f.type = "TRANSFER_INTENT_ACK"
  <2>1. UNCHANGED <<vars, worker, work>>
    BY <1>5, Zenon DEF handle_agent_frame
  <2> QED  BY <1>2, <1>3, <1>4, <1>5, <2>1, Zenon
<1>6. CASE f.type # "TRANSFER_INTENT_ACK"
  <2>1. /\ reported(x, f) \/ UNCHANGED vars
        /\ Hold(x, Frame(AckOf(f.type))) /\ Goto(x, "acknowledge")
    BY <1>6, Zenon DEF handle_agent_frame, Attempt
  <2>2. reported(x, f) => Next
    <3>1. f.operation \in NamedOperation /\ TypeOK
      BY <1>2, Zenon DEF FrameRecord, ProcessInv
    <3> QED  BY <1>2, <1>3, <1>4, <1>6, <3>1, ReportIsStep, Zenon
  <2> QED  BY <1>2, <1>3, <1>4, <1>6, <2>1, <2>2, Zenon
<1> QED  BY <1>5, <1>6, Zenon

\* A control request is applied or refused.
LEMMA MutationIsStep ==
  ASSUME ProcessInv, NEW x \in Client, dispatch_mutation(x)
  PROVE  [Next]_vars /\ (Goto(x, "respond") \/ Notify(x, "respond"))
<1>1. server_receives(x) /\ Head(up[x]).request \in Mutations
  BY Zenon DEF dispatch_mutation, takes_request
<1>2. /\ control_mutation(Head(up[x])) \/ UNCHANGED vars
      /\ Goto(x, "respond") \/ Notify(x, "respond")
  BY Zenon DEF dispatch_mutation
<1>3. Head(up[x]).operation \in NamedOperation /\ TypeOK
  BY <1>1, ServerReceives, Zenon DEF ProcessInv, FrameRecord
<1> QED  BY <1>1, <1>2, <1>3, RequestIsStep, Zenon

-----------------------------------------------------------------------------
(* What a step of the plane keeps *)

\* What a step of the plane leaves of the routing of transfers: a replica stays on its
\* cluster and an operation keeps its destination.
RoutesKept ==
  /\ \A a \in Agent, r \in NamedReplica : Routed(a, r) => Routed(a, r)'
  /\ \A o \in DOMAIN operations :
       o \in DOMAIN operations' /\ operations'[o].destination = operations[o].destination

\* So does a step that leaves the plane alone.
LEMMA PlaneUnchanged ==
  ASSUME UNCHANGED vars
  PROVE  RoutesKept
BY Zenon DEF vars, RoutesKept, Routed

-----------------------------------------------------------------------------
(* What a step of one process leaves of the others *)

\* The frames a step adds over one connection are as they should be.
UpFits(x, F) == UpStep(x, F) /\ \A f \in F : UpFrame(x, f)'
DownFits(y, G) == DownStep(y, G) /\ (y \in Agent => \A f \in G : DownFrame(y, f)')

\* An agent that registered keeps its incarnation, and one that has not started has no
\* connection.
PeersKept ==
  /\ script' \in [Controller -> Seq(SUBSET ControlRequest)]
  /\ \A a \in Agent : agent[a] \notin Unregistered =>
       agent'[a] \notin Unregistered /\ incarnation'[a] = incarnation[a]
  /\ \A a \in Agent : agent'[a] = "off" => worker'[a] = "none" /\ a \notin server_open'

\* A worker that leaves its first frame behind leaves no HELLO.
FirstKept ==
  \A z \in Client : worker[z] \in {"none", "first"} =>
    \/ worker'[z] \in {"none", "first"}
    \/ \A f \in Frames(up'[z]) : f.type # "HELLO"

\* Frames under way stay what they were, and the new ones are as they should be.
LEMMA QueueStep ==
  ASSUME QueueInv, RoutesKept, NEW x \in Client, NEW F, UpFits(x, F),
         NEW y \in Client, NEW G, DownFits(y, G), PeersKept, FirstKept
  PROVE  QueueInv'
<1> USE DEF UpFits, DownFits, PeersKept, FirstKept
<1>1. /\ up \in [Client -> Seq(FrameRecord)] /\ down \in [Client -> Seq(FrameRecord)]
      /\ up' \in [Client -> Seq(FrameRecord)] /\ down' \in [Client -> Seq(FrameRecord)]
      /\ \A z \in Client : HelloFirst(up'[z])
  BY Zenon DEF QueueInv, UpStep, DownStep
<1>2. ASSUME NEW z \in Client, NEW f \in Frames(up'[z])
      PROVE  UpFrame(z, f)'
  <2>1. CASE f \in Frames(up[z])
    <3>1. UpFrame(z, f) /\ f.replica \in NamedReplica
      <4>1. f \in FrameRecord
        BY <1>1, <2>1, FramesTyped, Zenon
      <4> QED  BY <1>1, <2>1, <4>1, Zenon DEF QueueInv, FrameRecord
    <3>2. z \in Agent /\ IsReport(z, f) => IsReport(z, f)'
      BY <3>1, Zenon DEF IsReport, RoutesKept
    <3> QED  BY <1>2, <3>1, <3>2, Zenon DEF UpFrame
  <2>2. CASE f \notin Frames(up[z])
    BY <1>2, <2>2, Zenon DEF UpStep
  <2> QED  BY <2>1, <2>2, Zenon
<1>3. ASSUME NEW a \in Agent, NEW f \in Frames(down'[a])
      PROVE  DownFrame(a, f)'
  <2>1. CASE f \in Frames(down[a])
    <3>1. a \in Client
      BY Zenon DEF Client
    <3>2. DownFrame(a, f) /\ f.replica \in NamedReplica
      <4>1. f \in FrameRecord
        BY <1>1, <2>1, <3>1, FramesTyped, Zenon
      <4> QED  BY <1>1, <2>1, <3>1, <4>1, Zenon DEF QueueInv, FrameRecord
    <3> QED  BY <3>2, Zenon DEF DownFrame, Intended, RoutesKept
  <2>2. CASE f \notin Frames(down[a])
    BY <1>3, <2>2, Zenon DEF DownStep, Client
  <2> QED  BY <2>1, <2>2, Zenon
<1> QED  BY <1>1, <1>2, <1>3, Zenon DEF QueueInv

\* An agent's transfer stays addressed to it while the plane or the coordinator moves.
LEMMA AgentKept ==
  ASSUME AgentInv, RoutesKept, UNCHANGED agent_vars
  PROVE  AgentInv'
<1>1. \A a \in Agent : transfer[a].intent.replica \in NamedReplica
  BY Zenon DEF AgentInv, TransferRecord, FrameRecord
<1>2. \A a \in Agent : Intended(a, transfer[a].intent) => Intended(a, transfer[a].intent)'
  BY <1>1, Zenon DEF Intended, RoutesKept, agent_vars
<1> QED  BY <1>2, Zenon DEF AgentInv, AgentType, agent_vars

Handling == {"lookup", "intent", "check", "sleep", "asleep", "respond"}

\* The step of one worker keeps the coordinator's invariant if it does so at that worker.
LEMMA CoordinatorStep ==
  ASSUME CoordinatorInv, RoutesKept, NEW x \in Client, NEW pc, Moves(x, pc), Holds(x),
         WorkerInv(x)',
         registered' \subseteq Agent, registered \ {x} \subseteq registered',
         pc \in {"hello_ack", "agent", "acknowledge"} => x \in registered',
         IsMap(agents', Cluster, Agent), \A c \in DOMAIN agents' : ClusterOf[agents'[c]] = c,
         shutdown_requested' \in BOOLEAN, serving' \in {"accept", "join", "returned"},
         \A k \in Controller \ {x} : worker[k] \in Handling /\ k \in server_open =>
                                       k \in server_open',
         x \in Controller /\ pc \in Handling => x \in server_open'
  PROVE  CoordinatorInv'
<1>1. CoordinatorType'
  BY Zenon DEF CoordinatorInv, CoordinatorType, Moves, WorkerState, ControlStates,
         SessionStates, IsMap
<1>2. ASSUME NEW y \in Client \ {x}
      PROVE  WorkerInv(y)'
  <2>1. WorkerInv(y) /\ work[y] \in FrameRecord /\ target[y] \in Client
    BY Zenon DEF CoordinatorInv
  <2>2. /\ work[y].replica \in NamedReplica
        /\ work'[y] = work[y] /\ target'[y] = target[y]
    BY <2>1, Zenon DEF Holds, FrameRecord
  <2>3. target[y] \in Agent /\ Intended(target[y], work[y]) => Intended(target[y], work[y])'
    BY <2>2, Zenon DEF Intended, RoutesKept
  <2>4. CASE worker'[y] = worker[y]
    BY <2>1, <2>2, <2>3, <2>4, Zenon DEF WorkerInv, RoutesKept
  <2>5. CASE worker[y] = "asleep" /\ worker'[y] = "check"
    BY <2>1, <2>5, Zenon DEF WorkerInv, ControlStates, SessionStates
  <2> QED  BY <2>4, <2>5, Zenon DEF Moves
<1>3. HandledRequestsStayConnected'
  BY Zenon DEF CoordinatorInv, HandledRequestsStayConnected, Moves, Handling, Client
<1>4. \A y \in Client : WorkerInv(y)'
  BY <1>2, Zenon
<1> QED  BY <1>1, <1>3, <1>4, Zenon DEF CoordinatorInv, Holds

\* A step of an agent or of a controller leaves the coordinator as it was.
LEMMA CoordinatorKept ==
  ASSUME CoordinatorInv, UNCHANGED <<vars, coordinator>>, server_open \subseteq server_open'
  PROVE  CoordinatorInv'
<1>1. CoordinatorType' /\ HandledRequestsStayConnected'
  BY Zenon DEF CoordinatorInv, CoordinatorType, HandledRequestsStayConnected, coordinator
<1>2. ASSUME NEW y \in Client
      PROVE  WorkerInv(y)'
  BY Zenon DEF CoordinatorInv, WorkerInv, Intended, Routed, coordinator, vars
<1> QED  BY <1>1, <1>2, Zenon DEF CoordinatorInv, coordinator

\* The worker serves an accepted connection, and does not leave a HELLO behind.
LeavesHello(x, pc) ==
  /\ worker[x] # "none" \/ x \in server_open
  /\ worker[x] \in {"none", "first"} =>
       pc \in {"none", "first"} \/ \A f \in Frames(up'[x]) : f.type # "HELLO"

\* A step of one worker keeps what is known of the frames under way.
LEMMA WorkerQueueStep ==
  ASSUME ProcessInv, RoutesKept, UNCHANGED <<agent_vars, controller_vars>>,
         NEW x \in Client, NEW pc, Moves(x, pc), LeavesHello(x, pc), UpStep(x, {}),
         NEW y \in Client, NEW G, DownFits(y, G), server_open' \subseteq server_open
  PROVE  QueueInv'
<1>1. QueueInv /\ script' = script /\ agent' = agent /\ incarnation' = incarnation
  BY Zenon DEF ProcessInv, agent_vars, controller_vars
<1>2. PeersKept
  BY <1>1, Zenon DEF PeersKept, LeavesHello, QueueInv, Moves, Client
<1>3. FirstKept
  BY Zenon DEF FirstKept, LeavesHello, Moves
<1>4. UpFits(x, {})
  BY Zenon DEF UpFits
<1> QED  BY <1>1, <1>2, <1>3, <1>4, QueueStep, Zenon

-----------------------------------------------------------------------------
(* Steps of the coordinator that move the plane *)

\* An authorization that is granted is of the operation and the destination the intent names.
LEMMA AuthorizationIsStep ==
  ASSUME ProcessInv, NEW x \in Client, dispatch_authorize(x)
  PROVE  \/ UNCHANGED <<vars, work>> /\ Goto(x, "respond")
         \/ /\ Next /\ Goto(x, "lookup")
            /\ \E o \in OperationId, r \in ReplicaId :
                 /\ o \in DOMAIN operations' /\ operations'[o].destination = r
                 /\ Hold(x, [Frame("TRANSFER_INTENT") EXCEPT !.operation = o, !.replica = r])
<1> DEFINE f == Head(up[x])
           authorize(o, r, k, source, c) ==
             IF f.request = "AUTHORIZE_REPLICATION" THEN authorize_replication(o, r, k, source, c)
             ELSE \E retire \in BOOLEAN : authorize_migration(o, r, k, retire, source, c)
<1>1. ASSUME NEW o \in OperationId, NEW r \in ReplicaId,
             \E k \in StateKey, source \in ReplicaId, c \in Cluster : authorize(o, r, k, source, c)
      PROVE  Next /\ o \in DOMAIN operations' /\ operations'[o].destination = r
  <2>1. PICK k \in StateKey, source \in ReplicaId, c \in Cluster : authorize(o, r, k, source, c)
    BY <1>1, Zenon
  <2>2. \/ authorize_replication(o, r, k, source, c)
        \/ \E retire \in BOOLEAN : authorize_migration(o, r, k, retire, source, c)
    BY <2>1, Zenon
  <2>3. Next
    BY <2>2, Zenon DEF Next, OperationStep
  <2>4. o \in DOMAIN operations' /\ operations'[o].destination = r
    <3>1. \E kind, destructive : authorize_transaction(o, r, k, kind, destructive, source, c)
      BY <2>2, Zenon DEF authorize_replication, authorize_migration
    <3> QED  BY <3>1 DEF authorize_transaction, Put
  <2> QED  BY <2>3, <2>4, Zenon
<1>2. \/ \E o \in OperationId, r \in ReplicaId :
           /\ \E k \in StateKey, source \in ReplicaId, c \in Cluster : authorize(o, r, k, source, c)
           /\ Hold(x, [Frame("TRANSFER_INTENT") EXCEPT !.operation = o, !.replica = r])
           /\ Goto(x, "lookup")
      \/ Goto(x, "respond") /\ UNCHANGED <<vars, work>>
  BY Zenon DEF dispatch_authorize
<1> HIDE DEF authorize
<1> QED  BY <1>1, <1>2, Zenon

\* Whatever a worker does, the plane takes a step of the fabric or none.
LEMMA WorkerPlane ==
  ASSUME ProcessInv, NEW x \in Client, accept(x) \/ WorkerStep(x)
  PROVE  [Next]_vars
<1>1. CASE hello(x)
  BY <1>1, HelloIsStep, Zenon
<1>2. CASE handle_agent_frame(x)
  BY <1>2, AgentFrameIsStep, Zenon
<1>3. CASE dispatch_mutation(x)
  BY <1>3, MutationIsStep, Zenon
<1>4. CASE dispatch_authorize(x)
  BY <1>4, AuthorizationIsStep, Zenon
<1>5. CASE accept(x) \/ leave(x) \/ enter_session(x) \/ hello_ack(x) \/ acknowledge(x)
  BY <1>5, Zenon DEF accept, leave, enter_session, hello_ack, acknowledge
<1>6. CASE dispatch_query(x) \/ dispatch_shutdown(x) \/ dispatch_await(x)
  BY <1>6, Zenon DEF dispatch_query, dispatch_shutdown, dispatch_await
<1>7. CASE lookup_sessions(x) \/ send_intent(x) \/ await_check(x) \/ await_sleep(x)
             \/ respond(x) \/ after_answer(x)
  BY <1>7, Zenon DEF lookup_sessions, send_intent, await_check, await_sleep, respond, after_answer
<1> QED  BY <1>1, <1>2, <1>3, <1>4, <1>5, <1>6, <1>7, Zenon DEF WorkerStep

\* The boot a cluster's record names changes with a registration only.
LEMMA BootsMove ==
  ASSUME NEW x \in Client, accept(x) \/ WorkerStep(x)
  PROVE  \/ UNCHANGED boots
         \/ hello(x)
         \/ dispatch_mutation(x) /\ reincarnate_request
<1>1. CASE dispatch_mutation(x)
  <2>1. control_mutation(Head(up[x])) \/ UNCHANGED boots
    BY <1>1, Zenon DEF dispatch_mutation
  <2>2. control_mutation(Head(up[x])) /\ Head(up[x]).request \in Mutations =>
          UNCHANGED boots \/ reincarnate_request
    BY Zenon DEF control_mutation, Mutations
  <2>3. Head(up[x]).request \in Mutations
    BY <1>1, Zenon DEF dispatch_mutation
  <2> QED  BY <1>1, <2>1, <2>2, <2>3, Zenon
<1>2. CASE accept(x) \/ leave(x) \/ enter_session(x) \/ hello_ack(x) \/ acknowledge(x)
  BY <1>2, Zenon DEF accept, leave, enter_session, hello_ack, acknowledge
<1>3. CASE handle_agent_frame(x) \/ dispatch_authorize(x)
  BY <1>3, Zenon DEF handle_agent_frame, dispatch_authorize
<1>4. CASE dispatch_query(x) \/ dispatch_shutdown(x) \/ dispatch_await(x)
  BY <1>4, Zenon DEF dispatch_query, dispatch_shutdown, dispatch_await
<1>5. CASE lookup_sessions(x) \/ send_intent(x) \/ await_check(x) \/ await_sleep(x)
             \/ respond(x) \/ after_answer(x)
  BY <1>5, Zenon DEF lookup_sessions, send_intent, await_check, await_sleep, respond, after_answer
<1> QED  BY <1>1, <1>2, <1>3, <1>4, <1>5, Zenon DEF WorkerStep

-----------------------------------------------------------------------------
(* Steps of the workers *)

\* The worker goes on with an agent only in a session, and handles a request only while its
\* controller is connected.
Proceeds(x, pc) ==
  /\ pc \in {"hello_ack", "agent", "acknowledge"} => x \in registered
  /\ x \in Controller /\ pc \in Handling => x \in server_open
  /\ LeavesHello(x, pc)

\* The step of a worker that leaves the sessions alone keeps the invariant if what it does at
\* its own connection is as it should be.
LEMMA WorkerKeeps ==
  ASSUME ProcessInv, RoutesKept, UNCHANGED <<agent_vars, controller_vars>>,
         NEW x \in Client, NEW pc, Moves(x, pc), Holds(x), WorkerInv(x)',
         UNCHANGED <<registered, agents, serving, server_open>>,
         shutdown_requested' \in BOOLEAN,
         Proceeds(x, pc), UpStep(x, {}), NEW y \in Client, NEW G, DownFits(y, G)
  PROVE  CoordinatorInv' /\ QueueInv'
<1>1. CoordinatorInv'
  BY CoordinatorStep, Zenon DEF ProcessInv, CoordinatorInv, CoordinatorType, Proceeds
<1>2. QueueInv'
  BY WorkerQueueStep, Zenon DEF Proceeds
<1> QED  BY <1>1, <1>2, Zenon

\* A connection that is accepted has not been served.
LEMMA AcceptKeeps ==
  ASSUME ProcessInv, RoutesKept, UNCHANGED <<agent_vars, controller_vars>>,
         NEW x \in Client, accept(x)
  PROVE  CoordinatorInv' /\ QueueInv'
<1> USE DEF ProcessInv
<1>1. Moves(x, "first") /\ Holds(x)
  BY GotoMoves, HoldHolds, Zenon DEF accept, WorkerState, CoordinatorInv
<1>2. WorkerInv(x)'
  BY <1>1, Zenon DEF WorkerInv, Moves, ControlStates, SessionStates
<1>3. UpStep(x, {}) /\ DownFits(x, {})
  BY UpUnchanged, DownUnchanged, Zenon DEF accept, transport, DownFits
<1>4. /\ UNCHANGED <<registered, agents, serving, server_open>> /\ x \in server_open
      /\ shutdown_requested' \in BOOLEAN
  BY Zenon DEF accept, transport, CoordinatorInv, CoordinatorType
<1>5. Proceeds(x, "first")
  BY <1>4, Zenon DEF Proceeds, LeavesHello, Handling
<1> QED  BY <1>1, <1>2, <1>3, <1>4, <1>5, WorkerKeeps, Zenon

\* The worker of a registered agent holds the acknowledgement with its incarnation.
LEMMA HelloKeeps ==
  ASSUME ProcessInv, RoutesKept, UNCHANGED <<agent_vars, controller_vars>>, TypeOK',
         NEW x \in Client, hello(x)
  PROVE  CoordinatorInv' /\ QueueInv'
<1> DEFINE ack == [Frame("HELLO_ACK") EXCEPT !.incarnation = clusters'[ClusterOf[x]].incarnation]
<1> USE DEF ProcessInv
<1>1. x \in Agent /\ ClusterOf[x] \in Cluster
  BY HelloIsStep, Configured, Zenon
<1>2. ack \in FrameRecord /\ ack.type = "HELLO_ACK"
  <2>1. clusters'[ClusterOf[x]].incarnation \in Nat
    <3>1. IsMap(clusters', Cluster, ClusterRecord)
      BY Zenon DEF TypeOK
    <3>2. ClusterOf[x] \in DOMAIN clusters'
      BY Zenon DEF hello, registers, register_cluster, Put
    <3> QED  BY <3>1, <3>2, Zenon DEF ClusterRecord, IsMap
  <2>2. Frame("HELLO_ACK") \in FrameRecord /\ Frame("HELLO_ACK").type = "HELLO_ACK"
    BY FrameTyped, Zenon DEF FrameType
  <2> QED  BY <2>1, <2>2, Zenon DEF FrameRecord
<1>3. Hold(x, ack) /\ Goto(x, "hello") /\ server_receives(x) /\ UNCHANGED target
  BY Zenon DEF hello
<1>4. Moves(x, "hello") /\ Holds(x) /\ work'[x] = ack
  <2> HIDE DEF ack
  <2>1. Moves(x, "hello")
    BY <1>3, GotoMoves, Zenon DEF WorkerState, SessionStates
  <2>2. Holds(x)
    BY <1>2, <1>3, HoldHolds, Zenon
  <2>3. work'[x] = ack
    BY <1>3, Zenon DEF Hold, CoordinatorInv
  <2> QED  BY <2>1, <2>2, <2>3, Zenon
<1>5. WorkerInv(x)'
  <2> HIDE DEF ack
  <2> QED  BY <1>1, <1>2, <1>4, Peers, Zenon DEF WorkerInv, Moves, ControlStates, SessionStates
<1>6. /\ UpStep(x, {}) /\ \A f \in Frames(up'[x]) : f.type # "HELLO"
      /\ DownFits(x, {})
  BY <1>3, ServerReceives, DownUnchanged, Zenon DEF hello, DownFits
<1>7. /\ UNCHANGED <<registered, agents, serving, server_open>> /\ worker[x] = "first"
      /\ shutdown_requested' \in BOOLEAN
  BY Zenon DEF hello, CoordinatorInv, CoordinatorType
<1>8. Proceeds(x, "hello")
  BY <1>6, <1>7, Zenon DEF Proceeds, LeavesHello, Handling
<1> QED  BY <1>4, <1>5, <1>6, <1>7, <1>8, WorkerKeeps, Zenon

\* The session is entered in the map under the cluster it is configured for.
LEMMA EnterKeeps ==
  ASSUME ProcessInv, RoutesKept, UNCHANGED <<agent_vars, controller_vars>>,
         NEW x \in Client, enter_session(x)
  PROVE  CoordinatorInv' /\ QueueInv'
<1> USE DEF ProcessInv
<1>1. worker[x] = "hello" /\ x \in Agent /\ ClusterOf[x] \in Cluster
  BY Configured, Zenon DEF enter_session, CoordinatorInv, WorkerInv, SessionStates, Client
<1>2. Moves(x, "hello_ack") /\ Holds(x) /\ work'[x] = work[x]
  BY GotoMoves, HoldHolds, Zenon DEF enter_session, WorkerState, SessionStates, CoordinatorInv
<1>3. WorkerInv(x)'
  BY <1>1, <1>2, Peers, Zenon DEF WorkerInv, Moves, ControlStates, SessionStates, CoordinatorInv
<1>4. UpStep(x, {}) /\ DownFits(x, {}) /\ server_open' = server_open
  BY UpUnchanged, DownUnchanged, Zenon DEF enter_session, transport, DownFits
<1>5. /\ registered' = registered \cup {x} /\ agents' = Put(agents, ClusterOf[x], x)
      /\ UNCHANGED <<shutdown_requested, serving>>
  BY Zenon DEF enter_session
<1>6. IsMap(agents', Cluster, Agent) /\ \A c \in DOMAIN agents' : ClusterOf[agents'[c]] = c
  BY <1>1, <1>5, Zenon DEF CoordinatorInv, CoordinatorType, IsMap, Put
<1>7. CoordinatorInv'
  BY <1>1, <1>2, <1>3, <1>4, <1>5, <1>6, CoordinatorStep, Zenon
     DEF CoordinatorInv, CoordinatorType, Handling
<1>8. QueueInv'
  BY <1>1, <1>2, <1>4, WorkerQueueStep, Zenon DEF LeavesHello
<1> QED  BY <1>7, <1>8, Zenon

\* The acknowledgement goes to the agent that said HELLO.
LEMMA HelloAckKeeps ==
  ASSUME ProcessInv, RoutesKept, UNCHANGED <<agent_vars, controller_vars>>,
         NEW x \in Client, hello_ack(x)
  PROVE  CoordinatorInv' /\ QueueInv'
<1> USE DEF ProcessInv
<1>1. PICK sent \in BOOLEAN : /\ server_sends(x, work[x], sent)
                              /\ Goto(x, IF sent THEN "agent" ELSE "done")
  BY Zenon DEF hello_ack
<1> DEFINE pc == IF sent THEN "agent" ELSE "done"
<1>2. /\ worker[x] = "hello_ack" /\ x \in registered /\ x \in Agent
      /\ work[x] \in FrameRecord /\ work[x].type # "TRANSFER_INTENT"
  BY Zenon DEF hello_ack, CoordinatorInv, CoordinatorType, WorkerInv, SessionStates
<1>3. pc \in {"agent", "done"} /\ pc \in WorkerState
  BY Zenon DEF WorkerState, SessionStates
<1>4. Moves(x, pc) /\ Holds(x) /\ work'[x] = Frame("NONE")
  BY <1>1, <1>3, GotoMoves, ForgetHolds, Zenon DEF hello_ack
<1>5. WorkerInv(x)'
  <2>1. Frame("NONE").type = "NONE"
    BY FrameTyped, Zenon DEF FrameType
  <2> QED  BY <1>2, <1>3, <1>4, <2>1, Peers, Zenon DEF WorkerInv, Moves, ControlStates, SessionStates
<1>6. UpStep(x, {}) /\ DownFits(x, {work[x]})
  <2>1. UpStep(x, {}) /\ DownStep(x, {work[x]})
    BY <1>1, <1>2, ServerSends, UpUnchanged, Zenon DEF hello_ack
  <2> QED  BY <1>2, <2>1, Zenon DEF DownFits, DownFrame
<1>7. Proceeds(x, pc)
  BY <1>2, <1>3, Zenon DEF Proceeds, LeavesHello, Handling
<1>8. /\ UNCHANGED <<registered, agents, serving, server_open>>
      /\ shutdown_requested' \in BOOLEAN
  BY Zenon DEF hello_ack, CoordinatorInv, CoordinatorType
<1> HIDE DEF pc
<1> QED  BY <1>4, <1>5, <1>6, <1>7, <1>8, WorkerKeeps, Zenon

\* The reply to a frame of an agent is a reply.
LEMMA AckTyped ==
  ASSUME NEW a \in Agent, NEW f, UpFrame(a, f),
         f.type \notin {"HELLO", "TRANSFER_INTENT_ACK"}
  PROVE  AckOf(f.type) \in FrameType \ {"TRANSFER_INTENT"}
<1>1. f.type \in {"EVIDENCE", "TRANSFER_PROGRESS", "TRANSFER_RESULT", "VERIFY_RESULT"}
  BY Zenon DEF UpFrame, IsReport
<1> QED  BY <1>1, Zenon DEF AckOf, FrameType

\* A session's worker goes on with the reply in hand, or waits for the next frame.
LEMMA AgentFrameKeeps ==
  ASSUME ProcessInv, RoutesKept, UNCHANGED <<agent_vars, controller_vars>>,
         NEW x \in Client, handle_agent_frame(x)
  PROVE  CoordinatorInv' /\ QueueInv'
<1> DEFINE f == Head(up[x])
           ack == Frame(AckOf(f.type))
<1> USE DEF ProcessInv
<1>1. worker[x] = "agent" /\ server_receives(x) /\ x \in registered /\ WorkerInv(x)
  BY Zenon DEF handle_agent_frame, CoordinatorInv, CoordinatorType
<1>2. UpStep(x, {}) /\ DownFits(x, {})
  BY <1>1, ServerReceives, DownUnchanged, Zenon DEF handle_agent_frame, DownFits
<1>3. /\ UNCHANGED <<registered, agents, serving, server_open, target>>
      /\ shutdown_requested' \in BOOLEAN
  BY Zenon DEF handle_agent_frame, CoordinatorInv, CoordinatorType
<1>4. x \in Agent /\ UpFrame(x, f) /\ f.type # "HELLO"
  BY AgentFrameIsStep, Zenon
<1>5. \A pc \in {"agent", "acknowledge"} : Proceeds(x, pc)
  BY <1>1, Zenon DEF Proceeds, LeavesHello, Handling
<1>6. CASE UNCHANGED <<worker, work>>
  <2>1. Moves(x, "agent") /\ Holds(x) /\ work'[x] = work[x]
    BY <1>1, <1>3, <1>6, Zenon DEF Moves, Holds, CoordinatorInv, CoordinatorType, WorkerState,
                            ControlStates, SessionStates
  <2>2. WorkerInv(x)'
    BY <1>1, <2>1, Zenon DEF WorkerInv, Moves, SessionStates
  <2> QED  BY <1>2, <1>3, <1>5, <2>1, <2>2, WorkerKeeps, Zenon
<1>7. CASE f.type # "TRANSFER_INTENT_ACK" /\ Hold(x, ack) /\ Goto(x, "acknowledge")
  <2>1. ack \in FrameRecord /\ ack.type # "TRANSFER_INTENT"
    BY <1>4, <1>7, AckTyped, FrameTyped, Zenon
  <2> HIDE DEF ack
  <2>2. Moves(x, "acknowledge")
    BY <1>7, GotoMoves, Zenon DEF WorkerState, SessionStates
  <2>3. Holds(x) /\ work'[x] = ack
    BY <1>3, <1>7, <2>1, HoldHolds, Zenon DEF Hold, CoordinatorInv
  <2>4. WorkerInv(x)'
    BY <1>4, <2>1, <2>2, <2>3, Peers, Zenon DEF WorkerInv, Moves, ControlStates, SessionStates
  <2> QED  BY <1>2, <1>3, <1>5, <2>2, <2>3, <2>4, WorkerKeeps, Zenon
<1> QED  BY <1>6, <1>7, AgentFrameIsStep, Zenon

\* The reply is sent, or the session ends.
LEMMA AcknowledgeKeeps ==
  ASSUME ProcessInv, RoutesKept, UNCHANGED <<agent_vars, controller_vars>>,
         NEW x \in Client, acknowledge(x)
  PROVE  CoordinatorInv' /\ QueueInv'
<1> USE DEF ProcessInv
<1>1. PICK sent \in BOOLEAN, pc \in {"agent", "leave"} :
        server_sends(x, work[x], sent) /\ (Goto(x, pc) \/ Notify(x, pc))
  BY Zenon DEF acknowledge
<1>2. /\ worker[x] = "acknowledge" /\ x \in registered /\ x \in Agent
      /\ work[x] \in FrameRecord /\ work[x].type # "TRANSFER_INTENT"
  BY Zenon DEF acknowledge, CoordinatorInv, CoordinatorType, WorkerInv, SessionStates
<1>3. Moves(x, pc) /\ Holds(x) /\ work'[x] = Frame("NONE")
  BY <1>1, GotoMoves, ForgetHolds, Zenon DEF acknowledge, WorkerState, SessionStates
<1>4. WorkerInv(x)'
  <2>1. Frame("NONE").type = "NONE"
    BY FrameTyped, Zenon DEF FrameType
  <2> QED  BY <1>2, <1>3, <2>1, Peers, Zenon DEF WorkerInv, Moves, ControlStates, SessionStates
<1>5. UpStep(x, {}) /\ DownFits(x, {work[x]})
  <2>1. UpStep(x, {}) /\ DownStep(x, {work[x]})
    BY <1>1, <1>2, ServerSends, UpUnchanged, Zenon DEF acknowledge
  <2> QED  BY <1>2, <2>1, Zenon DEF DownFits, DownFrame
<1>6. Proceeds(x, pc)
  BY <1>2, Zenon DEF Proceeds, LeavesHello, Handling
<1>7. /\ UNCHANGED <<registered, agents, serving, server_open>>
      /\ shutdown_requested' \in BOOLEAN
  BY Zenon DEF acknowledge, CoordinatorInv, CoordinatorType
<1> QED  BY <1>3, <1>4, <1>5, <1>6, <1>7, WorkerKeeps, Zenon

\* The worker of a controller that takes up a request goes on with the request in hand.
LEMMA DispatchKeeps ==
  ASSUME ProcessInv, RoutesKept, UNCHANGED <<agent_vars, controller_vars>>,
         NEW x \in Client, takes_request(x),
         NEW pc \in {"respond", "check"}, Goto(x, pc) \/ Notify(x, pc),
         UNCHANGED work \/ Hold(x, Head(up[x])), UNCHANGED target,
         shutdown_requested' \in BOOLEAN
  PROVE  CoordinatorInv' /\ QueueInv'
<1> USE DEF ProcessInv
<1>1. /\ worker[x] \in {"first", "control"} /\ server_receives(x) /\ x \in server_open
      /\ UNCHANGED <<down, server_open, registered, agents, serving>>
  BY Zenon DEF takes_request, server_receives
<1>2. /\ UpStep(x, {}) /\ \A f \in Frames(up'[x]) : f.type # "HELLO"
      /\ DownFits(x, {}) /\ Head(up[x]) \in FrameRecord /\ UpFrame(x, Head(up[x]))
  BY <1>1, ServerReceives, DownUnchanged, Zenon DEF DownFits
<1>3. x \notin Agent
  BY <1>2, Zenon DEF UpFrame, takes_request, IsReport
<1>4. Moves(x, pc)
  BY GotoMoves, Zenon DEF WorkerState, ControlStates
<1>5. Holds(x)
  BY <1>2, HoldHolds, Zenon
<1>6. WorkerInv(x)'
  BY <1>3, <1>4, Zenon DEF WorkerInv, Moves, SessionStates
<1>7. Proceeds(x, pc)
  BY <1>1, <1>2, Zenon DEF Proceeds, LeavesHello
<1> QED  BY <1>1, <1>2, <1>4, <1>5, <1>6, <1>7, WorkerKeeps, Zenon

\* A granted authorization is looked up under the operation and the destination it made.
LEMMA AuthorizeKeeps ==
  ASSUME ProcessInv, RoutesKept, UNCHANGED <<agent_vars, controller_vars>>,
         NEW x \in Client, dispatch_authorize(x)
  PROVE  CoordinatorInv' /\ QueueInv'
<1> USE DEF ProcessInv
<1>1. /\ takes_request(x) /\ UNCHANGED target /\ shutdown_requested' \in BOOLEAN
  BY Zenon DEF dispatch_authorize, CoordinatorInv, CoordinatorType
<1>2. CASE UNCHANGED work /\ Goto(x, "respond")
  BY <1>1, <1>2, DispatchKeeps, Zenon
<1>3. ASSUME NEW o \in OperationId, NEW r \in ReplicaId, Goto(x, "lookup"),
             o \in DOMAIN operations', operations'[o].destination = r,
             Hold(x, [Frame("TRANSFER_INTENT") EXCEPT !.operation = o, !.replica = r])
      PROVE  CoordinatorInv' /\ QueueInv'
  <2> DEFINE intent == [Frame("TRANSFER_INTENT") EXCEPT !.operation = o, !.replica = r]
  <2>1. /\ worker[x] \in {"first", "control"} /\ server_receives(x) /\ x \in server_open
        /\ UNCHANGED <<down, server_open, registered, agents, serving>>
    BY <1>1, Zenon DEF takes_request, server_receives
  <2>2. /\ UpStep(x, {}) /\ \A f \in Frames(up'[x]) : f.type # "HELLO"
        /\ DownFits(x, {}) /\ UpFrame(x, Head(up[x]))
    BY <2>1, ServerReceives, DownUnchanged, Zenon DEF DownFits
  <2>3. x \notin Agent
    BY <1>1, <2>2, Zenon DEF UpFrame, takes_request, IsReport
  <2>4. intent \in FrameRecord /\ intent.operation = o /\ intent.replica = r
    <3>1. Frame("TRANSFER_INTENT") \in FrameRecord
      BY FrameTyped, Zenon DEF FrameType
    <3> QED  BY <3>1, Zenon DEF FrameRecord, NamedOperation, NamedReplica
  <2>5. Hold(x, intent)
    BY <1>3, Zenon
  <2> HIDE DEF intent
  <2>6. Moves(x, "lookup")
    BY <1>3, GotoMoves, Zenon DEF WorkerState, ControlStates
  <2>7. Holds(x) /\ work'[x] = intent
    <3>1. Holds(x)
      BY <1>1, <2>4, <2>5, HoldHolds, Zenon
    <3> QED  BY <2>5, <3>1, Zenon DEF Hold, CoordinatorInv
  <2>8. WorkerInv(x)'
    BY <1>3, <2>3, <2>4, <2>6, <2>7, Zenon DEF WorkerInv, Moves, SessionStates
  <2>9. Proceeds(x, "lookup")
    BY <2>1, <2>2, Zenon DEF Proceeds, LeavesHello
  <2> QED  BY <1>1, <2>1, <2>2, <2>6, <2>7, <2>8, <2>9, WorkerKeeps, Zenon
<1> QED  BY <1>2, <1>3, AuthorizationIsStep, Zenon

\* The session that is found for a transfer is one of the cluster that hosts its destination.
LEMMA LookupKeeps ==
  ASSUME ProcessInv, RoutesKept, UNCHANGED <<agent_vars, controller_vars>>,
         NEW x \in Client, lookup_sessions(x)
  PROVE  CoordinatorInv' /\ QueueInv'
<1> DEFINE op == operations[work[x].operation]
           source == replicas[op.source].cluster
           destination == replicas[op.destination].cluster
           intent == [work[x] EXCEPT !.source = op.source, !.peer = agents[source]]
<1> USE DEF ProcessInv
<1>1. /\ worker[x] = "lookup" /\ x \notin Agent /\ WorkerInv(x) /\ work[x] \in FrameRecord
      /\ x \in server_open
  BY Zenon DEF lookup_sessions, CoordinatorInv, WorkerInv, ControlStates,
         HandledRequestsStayConnected, Client
<1>2. /\ UNCHANGED <<vars, registered, agents, serving, server_open>>
      /\ UNCHANGED <<up, down>> /\ shutdown_requested' \in BOOLEAN
  BY Zenon DEF lookup_sessions, transport, CoordinatorInv, CoordinatorType
<1>3. UpStep(x, {}) /\ DownFits(x, {})
  BY <1>2, UpUnchanged, DownUnchanged, Zenon DEF DownFits
<1>4. /\ work[x].operation \in DOMAIN operations /\ op.destination = work[x].replica
      /\ op.destination \in DOMAIN replicas /\ op.source \in ReplicaId
  <2>1. work[x].operation \in DOMAIN operations /\ op.destination = work[x].replica
    BY <1>1, Zenon DEF WorkerInv
  <2>2. op \in OperationRecord
    BY <2>1, MapEntry DEF TypeOK
  <2> QED  BY <2>1, <2>2, Zenon DEF DestinationsKnown, OperationRecord
<1>5. \A pc \in {"intent", "respond"} : Proceeds(x, pc)
  BY <1>1, Zenon DEF Proceeds, LeavesHello
<1>6. CASE {source, destination} \subseteq DOMAIN agents
  <2>1. /\ target' = [target EXCEPT ![x] = agents[destination]] /\ Hold(x, intent)
        /\ Goto(x, "intent")
    BY <1>6, Zenon DEF lookup_sessions
  <2>2. /\ agents[destination] \in Agent /\ ClusterOf[agents[destination]] = destination
        /\ agents[source] \in Agent
    BY <1>6, Zenon DEF CoordinatorInv, CoordinatorType, IsMap
  <2>3. intent \in FrameRecord /\ intent.replica = work[x].replica /\ intent.peer = agents[source]
    BY <1>1, <1>4, <2>2, Zenon DEF FrameRecord, NamedReplica
  <2>4. Routed(agents[destination], work[x].replica)
    BY <1>4, <2>2, Zenon DEF Routed
  <2>5. Intended(agents[destination], intent)
    BY <2>2, <2>3, <2>4, Zenon DEF Intended
  <2> HIDE DEF op, source, destination, intent
  <2>6. Moves(x, "intent")
    BY <2>1, GotoMoves, Zenon DEF WorkerState, ControlStates
  <2>7. Holds(x) /\ work'[x] = intent /\ target'[x] = agents[destination]
    <3>1. agents[destination] \in Client
      BY <2>2, Zenon DEF Client
    <3>2. Holds(x)
      BY <2>1, <2>3, <3>1, HoldHolds, Zenon
    <3> QED  BY <2>1, <3>2, Zenon DEF Hold, CoordinatorInv
  <2>8. Intended(target[x], work[x])'
    BY <1>2, <2>5, <2>7, Zenon DEF Intended, Routed, vars
  <2>9. WorkerInv(x)'
    BY <1>1, <2>2, <2>6, <2>7, <2>8, Zenon DEF WorkerInv, Moves, SessionStates
  <2> QED  BY <1>2, <1>3, <1>5, <2>6, <2>7, <2>9, WorkerKeeps, Zenon
<1>7. CASE ~({source, destination} \subseteq DOMAIN agents)
  <2>1. Goto(x, "respond") /\ UNCHANGED <<work, target>>
    BY <1>7, Zenon DEF lookup_sessions
  <2>2. Moves(x, "respond") /\ Holds(x)
    BY <1>1, <2>1, GotoMoves, HoldHolds, Zenon DEF WorkerState, ControlStates
  <2>3. WorkerInv(x)'
    BY <1>1, <2>2, Zenon DEF WorkerInv, Moves, SessionStates
  <2> QED  BY <1>2, <1>3, <1>5, <2>2, <2>3, WorkerKeeps, Zenon
<1> QED  BY <1>6, <1>7, Zenon

\* The intent goes to the session it is addressed to.
LEMMA IntentKeeps ==
  ASSUME ProcessInv, RoutesKept, UNCHANGED <<agent_vars, controller_vars>>,
         NEW x \in Client, send_intent(x)
  PROVE  CoordinatorInv' /\ QueueInv'
<1> USE DEF ProcessInv
<1>1. PICK sent \in BOOLEAN : server_sends(target[x], work[x], sent)
  BY Zenon DEF send_intent
<1>2. /\ worker[x] = "intent" /\ x \notin Agent /\ work[x] \in FrameRecord
      /\ target[x] \in Agent /\ Intended(target[x], work[x]) /\ x \in server_open
  BY Zenon DEF send_intent, CoordinatorInv, WorkerInv, ControlStates,
         HandledRequestsStayConnected, Client
<1>3. Goto(x, "respond") /\ UNCHANGED <<work, target>>
  BY Zenon DEF send_intent
<1>4. Moves(x, "respond") /\ Holds(x)
  BY <1>2, <1>3, GotoMoves, HoldHolds, Zenon DEF WorkerState, ControlStates
<1>5. WorkerInv(x)'
  BY <1>2, <1>4, Zenon DEF WorkerInv, Moves, SessionStates
<1>6. PICK y \in Agent : y = target[x]
  BY <1>2, Zenon
<1>7. UpStep(x, {}) /\ DownFits(y, {work[x]}) /\ y \in Client
  <2>1. UpStep(x, {}) /\ DownStep(y, {work[x]}) /\ y \in Client
    BY <1>1, <1>2, <1>6, ServerSends, UpUnchanged, Zenon DEF send_intent, Client
  <2>2. UNCHANGED replicas
    BY Zenon DEF send_intent, vars
  <2>3. \A f \in {work[x]} : DownFrame(y, f)'
    BY <1>2, <1>6, <2>2, Zenon DEF DownFrame, Intended, Routed
  <2> QED  BY <2>1, <2>3, Zenon DEF DownFits
<1>8. Proceeds(x, "respond")
  BY <1>2, Zenon DEF Proceeds, LeavesHello
<1>9. /\ UNCHANGED <<registered, agents, serving, server_open>>
      /\ shutdown_requested' \in BOOLEAN
  BY Zenon DEF send_intent, CoordinatorInv, CoordinatorType
<1> QED  BY <1>4, <1>5, <1>7, <1>8, <1>9, WorkerKeeps, Zenon

\* A waiter that checks or goes to sleep keeps its connection.
LEMMA AwaitKeeps ==
  ASSUME ProcessInv, RoutesKept, UNCHANGED <<agent_vars, controller_vars>>,
         NEW x \in Client, await_check(x) \/ await_sleep(x)
  PROVE  CoordinatorInv' /\ QueueInv'
<1> USE DEF ProcessInv
<1>1. PICK pc \in {"respond", "sleep", "asleep"} : Goto(x, pc)
  BY Zenon DEF await_check, await_sleep
<1>2. /\ worker[x] \in {"check", "sleep"} /\ x \notin Agent /\ x \in server_open
      /\ UNCHANGED <<work, target, up, down>>
      /\ UNCHANGED <<registered, agents, serving, server_open>>
      /\ shutdown_requested' \in BOOLEAN
  BY Zenon DEF await_check, await_sleep, transport, CoordinatorInv, CoordinatorType, WorkerInv,
         ControlStates, HandledRequestsStayConnected, Client
<1>3. Moves(x, pc) /\ Holds(x)
  <2>1. Frame("NONE") \in FrameRecord
    BY FrameTyped, Zenon DEF FrameType
  <2> QED  BY <1>1, <1>2, <2>1, GotoMoves, HoldHolds, Zenon DEF WorkerState, ControlStates
<1>4. WorkerInv(x)'
  BY <1>1, <1>2, <1>3, Zenon DEF WorkerInv, Moves, SessionStates
<1>5. UpStep(x, {}) /\ DownFits(x, {})
  BY <1>2, UpUnchanged, DownUnchanged, Zenon DEF DownFits
<1>6. Proceeds(x, pc)
  BY <1>2, Zenon DEF Proceeds, LeavesHello
<1> QED  BY <1>2, <1>3, <1>4, <1>5, <1>6, WorkerKeeps, Zenon

\* The response goes to the controller whose request was handled.
LEMMA RespondKeeps ==
  ASSUME ProcessInv, RoutesKept, UNCHANGED <<agent_vars, controller_vars>>,
         NEW x \in Client, respond(x)
  PROVE  CoordinatorInv' /\ QueueInv'
<1> DEFINE response == Frame("CONTROL_RESPONSE")
<1> USE DEF ProcessInv
<1>1. PICK sent \in BOOLEAN, pc \in {"answered", "leave"} :
        server_sends(x, response, sent) /\ Goto(x, pc)
  BY Zenon DEF respond
<1>2. worker[x] = "respond" /\ x \notin Agent
  BY Zenon DEF respond, CoordinatorInv, WorkerInv, ControlStates
<1>3. response \in FrameRecord
  BY FrameTyped, Zenon DEF FrameType
<1>4. Moves(x, pc)
  BY <1>1, GotoMoves, Zenon DEF WorkerState, ControlStates
<1>5. Holds(x)
  BY ForgetHolds, Zenon DEF respond
<1>6. WorkerInv(x)'
  BY <1>1, <1>2, <1>4, Zenon DEF WorkerInv, Moves, SessionStates
<1>7. UpStep(x, {}) /\ DownFits(x, {response})
  BY <1>1, <1>2, <1>3, ServerSends, UpUnchanged, Zenon DEF respond, DownFits
<1>8. /\ UNCHANGED <<registered, agents, serving, server_open>>
      /\ shutdown_requested' \in BOOLEAN
  BY Zenon DEF respond, CoordinatorInv, CoordinatorType
<1>9. Proceeds(x, pc)
  BY <1>2, Zenon DEF Proceeds, LeavesHello, Handling
<1> HIDE DEF response
<1> QED  BY <1>4, <1>5, <1>6, <1>7, <1>8, <1>9, WorkerKeeps, Zenon

\* A shutdown closes the agents' sessions and the connections nobody has accepted: the
\* controllers whose requests are being handled keep theirs.
LEMMA AfterAnswerKeeps ==
  ASSUME ProcessInv, RoutesKept, UNCHANGED <<agent_vars, controller_vars>>,
         NEW x \in Client, after_answer(x)
  PROVE  CoordinatorInv' /\ QueueInv'
<1> DEFINE closed == stopped_sessions \cup {y \in Client : worker[y] = "none"}
<1> USE DEF ProcessInv
<1>1. PICK pc \in {"leave", "control"} : Goto(x, pc)
  BY Zenon DEF after_answer
<1>2. worker[x] = "answered" /\ x \notin Agent
  BY Zenon DEF after_answer, CoordinatorInv, WorkerInv, ControlStates
<1>3. /\ UNCHANGED <<registered, agents, serving, shutdown_requested, down, work, target>>
  BY Zenon DEF after_answer
<1>4. Moves(x, pc) /\ Holds(x)
  <2>1. Frame("NONE") \in FrameRecord
    BY FrameTyped, Zenon DEF FrameType
  <2> QED  BY <1>1, <1>3, <2>1, GotoMoves, HoldHolds, Zenon DEF WorkerState, ControlStates
<1>5. WorkerInv(x)'
  BY <1>1, <1>2, <1>4, Zenon DEF WorkerInv, Moves, SessionStates
<1>6. UpStep(x, {}) /\ DownFits(x, {})
  <2>1. server_closes(closed) \/ UNCHANGED up
    BY Zenon DEF after_answer
  <2> HIDE DEF closed
  <2> QED  BY <1>3, <2>1, ServerCloses, UpUnchanged, DownUnchanged, Zenon DEF DownFits
<1>7. /\ server_open' \subseteq server_open
      /\ \A k \in Controller : worker[k] \in Handling /\ k \in server_open => k \in server_open'
  <2>1. server_open' = server_open \/ server_open' = server_open \ closed
    BY Zenon DEF after_answer, server_closes
  <2>2. \A k \in Controller : worker[k] \in Handling => k \notin closed
    BY Peers, Zenon DEF stopped_sessions, Handling, CoordinatorInv, CoordinatorType
  <2> QED  BY <2>1, <2>2, Zenon
<1>8. CoordinatorInv'
  BY <1>1, <1>3, <1>4, <1>5, <1>7, CoordinatorStep, Zenon DEF CoordinatorInv, CoordinatorType, Handling
<1>9. QueueInv'
  BY <1>2, <1>4, <1>6, <1>7, WorkerQueueStep, Zenon DEF LeavesHello
<1> QED  BY <1>8, <1>9, Zenon

\* A worker that leaves takes its session, and the entry of its cluster, with it.
LEMMA LeaveKeeps ==
  ASSUME ProcessInv, RoutesKept, UNCHANGED <<agent_vars, controller_vars>>,
         NEW x \in Client, leave(x)
  PROVE  CoordinatorInv' /\ QueueInv'
<1> USE DEF ProcessInv
<1>1. /\ worker[x] # "none" /\ Goto(x, "done") /\ server_closes({x})
      /\ registered' = registered \ {x}
      /\ UNCHANGED <<down, work, target, shutdown_requested, serving>>
  BY Zenon DEF leave
<1>2. IsMap(agents', Cluster, Agent) /\ \A c \in DOMAIN agents' : ClusterOf[agents'[c]] = c
  <2>1. \/ agents' = agents
        \/ agents' = [c \in DOMAIN agents \ {ClusterOf[x]} |-> agents[c]]
    BY Zenon DEF leave
  <2> QED  BY <2>1, Zenon DEF CoordinatorInv, CoordinatorType, IsMap
<1>3. Moves(x, "done") /\ Holds(x)
  <2>1. Frame("NONE") \in FrameRecord
    BY FrameTyped, Zenon DEF FrameType
  <2> QED  BY <1>1, <2>1, GotoMoves, HoldHolds, Zenon DEF WorkerState
<1>4. WorkerInv(x)'
  BY <1>3, Zenon DEF WorkerInv, Moves, ControlStates, SessionStates
<1>5. UpStep(x, {}) /\ DownFits(x, {}) /\ server_open' = server_open \ {x}
  BY <1>1, ServerCloses, DownUnchanged, Zenon DEF server_closes, DownFits
<1>6. \A f \in Frames(up'[x]) : f.type # "HELLO"
  BY <1>1, FramesEmpty, Zenon DEF server_closes
<1>7. CoordinatorInv'
  BY <1>1, <1>2, <1>3, <1>4, <1>5, CoordinatorStep, Zenon DEF CoordinatorInv, CoordinatorType, Handling
<1>8. QueueInv'
  BY <1>1, <1>3, <1>5, <1>6, WorkerQueueStep, Zenon DEF LeavesHello
<1> QED  BY <1>7, <1>8, Zenon

\* Every step of a worker keeps the invariant of the coordinator and of the queues.
LEMMA WorkerStepKeeps ==
  ASSUME ProcessInv, RoutesKept, UNCHANGED <<agent_vars, controller_vars>>, TypeOK',
         NEW x \in Client, accept(x) \/ WorkerStep(x)
  PROVE  CoordinatorInv' /\ QueueInv'
<1>1. CASE dispatch_mutation(x) \/ dispatch_query(x) \/ dispatch_shutdown(x) \/ dispatch_await(x)
  <2>1. takes_request(x) /\ UNCHANGED target /\ (UNCHANGED work \/ Hold(x, Head(up[x])))
    BY <1>1, Zenon DEF dispatch_mutation, dispatch_query, dispatch_shutdown, dispatch_await
  <2>2. shutdown_requested' \in BOOLEAN
    BY <1>1, Zenon DEF dispatch_mutation, dispatch_query, dispatch_shutdown, dispatch_await,
                ProcessInv, CoordinatorInv, CoordinatorType
  <2>3. \E pc \in {"respond", "check"} : Goto(x, pc) \/ Notify(x, pc)
    BY <1>1, MutationIsStep, Zenon DEF dispatch_query, dispatch_shutdown, dispatch_await
  <2> QED  BY <2>1, <2>2, <2>3, DispatchKeeps, Zenon
<1> QED  BY <1>1, AcceptKeeps, HelloKeeps, EnterKeeps, HelloAckKeeps, AgentFrameKeeps,
            AcknowledgeKeeps, AuthorizeKeeps, LookupKeeps, IntentKeeps, AwaitKeeps,
            RespondKeeps, AfterAnswerKeeps, LeaveKeeps, Zenon DEF WorkerStep

\* So does the end of the accept loop, and the exit of the process.
LEMMA ServeStepKeeps ==
  ASSUME ProcessInv, UNCHANGED <<agent_vars, controller_vars>>, accept_ends \/ serve_returns
  PROVE  CoordinatorInv' /\ QueueInv' /\ UNCHANGED vars
<1> USE DEF ProcessInv
<1>1. /\ UNCHANGED <<vars, down, worker, work, target, registered, agents, shutdown_requested>>
      /\ serving' \in {"join", "returned"} /\ RoutesKept
  BY PlaneUnchanged, Zenon DEF accept_ends, serve_returns, transport
<1>2. \A x \in Client : WorkerInv(x)'
  BY <1>1, Zenon DEF CoordinatorInv, WorkerInv, Intended, Routed, vars
<1>3. HandledRequestsStayConnected'
  <2>1. CASE accept_ends
    BY <1>1, <2>1, Zenon DEF accept_ends, transport, CoordinatorInv, HandledRequestsStayConnected
  <2>2. CASE serve_returns
    BY <1>1, <2>2, Zenon DEF serve_returns, HandledRequestsStayConnected, Client
  <2> QED  BY <2>1, <2>2, Zenon
<1>4. CoordinatorInv'
  BY <1>1, <1>2, <1>3, Zenon DEF CoordinatorInv, CoordinatorType
<1>5. QueueInv'
  <2>1. /\ server_open' \subseteq server_open /\ UNCHANGED <<agent, incarnation, script>>
        /\ up' = up \/ server_closes(Client)
    BY Zenon DEF accept_ends, serve_returns, transport, server_closes, agent_vars, controller_vars
  <2>2. CASE Client = {}
    BY <1>1, <2>1, <2>2, Zenon DEF QueueInv, Client, server_closes
  <2>3. ASSUME NEW x \in Client
        PROVE  QueueInv'
    <3>1. UpFits(x, {}) /\ DownFits(x, {})
      BY <1>1, <2>1, ServerCloses, UpUnchanged, DownUnchanged, Zenon DEF UpFits, DownFits
    <3>2. PeersKept
      BY <1>1, <2>1, Zenon DEF PeersKept, QueueInv
    <3>3. FirstKept
      BY <1>1, Zenon DEF FirstKept
    <3> QED  BY <1>1, <3>1, <3>2, <3>3, QueueStep, Zenon
  <2> QED  BY <2>2, <2>3, Zenon
<1> QED  BY <1>1, <1>4, <1>5, Zenon

-----------------------------------------------------------------------------
(* Steps of the agents *)

AgentState == {"off", "hello", "evidence", "exited"} \cup Serving

\* The control loop goes on with locals that are as they should be.
LEMMA ContinueKeeps ==
  ASSUME AgentInv, UNCHANGED vars, NEW a \in Agent, NEW pc \in AgentState,
         NEW t \in TransferRecord, t.attempt < MaxAckFrames, Continue(a, pc, t),
         pc \in Transferring => Intended(a, t.intent),
         pc \in Transferring \ {"pull"} => t.bytes \in Bytes,
         incarnation' \in [Agent -> Nat],
         DOMAIN store' = Agent, \A b \in Agent : IsMap(store'[b], ReplicaId, Bytes)
  PROVE  AgentInv' /\ agent'[a] = pc /\ \A b \in Agent \ {a} : agent'[b] = agent[b]
<1>1. /\ agent' = [agent EXCEPT ![a] = pc] /\ transfer' = [transfer EXCEPT ![a] = t]
      /\ agent \in [Agent -> AgentState] /\ transfer \in [Agent -> TransferRecord]
  BY Zenon DEF Continue, AgentInv, AgentType, AgentState
<1>2. /\ agent' \in [Agent -> AgentState] /\ transfer' \in [Agent -> TransferRecord]
      /\ agent'[a] = pc /\ transfer'[a] = t
      /\ \A b \in Agent \ {a} : agent'[b] = agent[b] /\ transfer'[b] = transfer[b]
  BY <1>1, Zenon
<1>3. AgentType'
  BY <1>2, Zenon DEF AgentInv, AgentType, AgentState
<1>4. ASSUME NEW b \in Agent
      PROVE  /\ agent'[b] \in Transferring => Intended(b, transfer[b].intent)'
             /\ agent'[b] \in Transferring \ {"pull"} => transfer'[b].bytes \in Bytes
  <2>1. \A f \in {t.intent} \cup {transfer[b].intent} : Intended(b, f) => Intended(b, f)'
    BY Zenon DEF Intended, Routed, vars
  <2>2. CASE b = a
    BY <1>2, <2>1, <2>2, Zenon DEF Intended
  <2>3. CASE b # a
    BY <1>2, <2>1, <2>3, Zenon DEF AgentInv, Intended
  <2> QED  BY <2>2, <2>3, Zenon
<1> QED  BY <1>2, <1>3, <1>4, Zenon DEF AgentInv

\* The agent runs on: it keeps the incarnation it registered with, and the others keep theirs.
RunsOn(a) ==
  /\ agent'[a] # "off"
  /\ \A b \in Agent \ {a} : agent'[b] = agent[b] /\ incarnation'[b] = incarnation[b]
  /\ agent[a] \notin Unregistered =>
       agent'[a] \notin Unregistered /\ incarnation'[a] = incarnation[a]

\* A step of an agent keeps what is known of the frames under way.
LEMMA AgentQueueStep ==
  ASSUME ProcessInv, UNCHANGED <<vars, coordinator, script>>, NEW a \in Agent, RunsOn(a),
         server_open' = server_open, DownStep(a, {}), NEW F, UpFits(a, F)
  PROVE  QueueInv'
<1>1. QueueInv /\ RoutesKept /\ UNCHANGED <<worker, script>>
  BY PlaneUnchanged, Zenon DEF ProcessInv, coordinator
<1>2. PeersKept
  BY <1>1, Zenon DEF PeersKept, QueueInv, RunsOn
<1>3. FirstKept
  BY <1>1, Zenon DEF FirstKept
<1>4. a \in Client /\ DownFits(a, {})
  BY Zenon DEF Client, DownFits
<1> QED  BY <1>1, <1>2, <1>3, <1>4, QueueStep, Zenon

\* An agent that ends forgets its transfer and its bytes.
LEMMA EndsKeeps ==
  ASSUME ProcessInv, UNCHANGED <<vars, coordinator, script>>, NEW a \in Agent, ends(a)
  PROVE  AgentInv' /\ QueueInv' /\ server_open' = server_open
<1> USE DEF ProcessInv
<1>1. /\ client_closes(a) /\ Continue(a, "exited", NoTransfer)
      /\ store' = [store EXCEPT ![a] = << >>] /\ UNCHANGED <<up, server_open, incarnation>>
  BY Zenon DEF ends
<1>2. DOMAIN store' = Agent /\ \A b \in Agent : IsMap(store'[b], ReplicaId, Bytes)
  <2>1. IsMap(<< >>, ReplicaId, Bytes)
    BY DEF IsMap
  <2> QED  BY <1>1, <2>1, Zenon DEF AgentInv
<1>3. /\ AgentInv' /\ agent'[a] = "exited" /\ \A b \in Agent \ {a} : agent'[b] = agent[b]
  <2>1. incarnation' \in [Agent -> Nat] /\ "exited" \in AgentState /\ "exited" \notin Transferring
    BY <1>1, Zenon DEF AgentInv, AgentState, Transferring
  <2> QED  BY <1>1, <1>2, <2>1, NoTransferTyped, ContinueKeeps, Zenon
<1>4. UpFits(a, {}) /\ DownStep(a, {})
  BY <1>1, UpUnchanged, ClientCloses, Zenon DEF Client, UpFits
<1>5. RunsOn(a)
  BY <1>1, <1>3, Zenon DEF RunsOn, Unregistered
<1>6. QueueInv'
  BY <1>1, <1>4, <1>5, AgentQueueStep, Zenon
<1> QED  BY <1>1, <1>3, <1>6, Zenon

\* The agent takes the incarnation it is given and publishes its evidence under it.
LEMMA HelloAckedKeeps ==
  ASSUME ProcessInv, UNCHANGED <<vars, coordinator, controller_vars>>,
         NEW a \in Agent, hello_acked(a)
  PROVE  AgentInv' /\ QueueInv'
<1> DEFINE h == Head(down[a])
           f == [Frame("EVIDENCE") EXCEPT !.incarnation = h.incarnation]
<1> USE DEF ProcessInv
<1>1. /\ agent[a] = "hello" /\ client_receives(a) /\ client_sends(a, f)
      /\ incarnation' = [incarnation EXCEPT ![a] = h.incarnation]
      /\ Continue(a, "evidence", NoTransfer) /\ UNCHANGED <<server_open, store>> /\ a \in Client
  BY Zenon DEF hello_acked, Client
<1>2. DownStep(a, {}) /\ h.incarnation \in Nat
  BY <1>1, ClientReceives, Zenon DEF FrameRecord
<1>3. f \in FrameRecord /\ f.type = "EVIDENCE"
  <2>1. Frame("EVIDENCE") \in FrameRecord /\ Frame("EVIDENCE").type = "EVIDENCE"
    BY FrameTyped, Zenon DEF FrameType
  <2> QED  BY <1>2, <2>1, Zenon DEF FrameRecord
<1>4. /\ AgentInv' /\ agent'[a] = "evidence" /\ \A b \in Agent \ {a} : agent'[b] = agent[b]
  <2>1. /\ incarnation' \in [Agent -> Nat] /\ "evidence" \in AgentState
        /\ "evidence" \notin Transferring
    BY <1>1, <1>2, Zenon DEF AgentInv, AgentState, Transferring
  <2>2. DOMAIN store' = Agent /\ \A b \in Agent : IsMap(store'[b], ReplicaId, Bytes)
    BY <1>1, Zenon DEF AgentInv
  <2> QED  BY <1>1, <2>1, <2>2, NoTransferTyped, ContinueKeeps, Zenon
<1>5. UpFits(a, {f})
  <2>1. \A g \in {f} : UpFrame(a, g)'
    BY <1>3, Peers, Zenon DEF UpFrame
  <2> HIDE DEF f
  <2>2. UpStep(a, {f})
    BY <1>1, <1>3, ClientSends, Zenon
  <2> QED  BY <2>1, <2>2, Zenon DEF UpFits
<1>6. RunsOn(a)
  BY <1>1, <1>4, Zenon DEF AgentInv, RunsOn, Unregistered
<1>7. UNCHANGED script
  BY Zenon DEF controller_vars
<1> HIDE DEF f
<1> QED  BY <1>1, <1>2, <1>4, <1>5, <1>6, <1>7, AgentQueueStep, Zenon

\* A frame is received and nothing is sent.
LEMMA ReceivingKeeps ==
  ASSUME ProcessInv, UNCHANGED <<vars, coordinator, controller_vars>>, NEW a \in Agent,
         evidence_acked(a) \/ skip_frame(a) \/ verify_acked(a) \/ drop_frame(a) \/ await_fails(a)
  PROVE  AgentInv' /\ QueueInv'
<1> USE DEF ProcessInv
<1>1. /\ UNCHANGED <<up, server_open, incarnation, store>> /\ a \in Client
      /\ client_receives(a) \/ UNCHANGED down
  BY Zenon DEF evidence_acked, skip_frame, verify_acked, drop_frame, await_fails, transport,
         agent_vars, Client
<1>2. UpFits(a, {}) /\ DownStep(a, {})
  BY <1>1, UpUnchanged, DownUnchanged, ClientReceives, Zenon DEF UpFits
<1>3. /\ incarnation' \in [Agent -> Nat] /\ DOMAIN store' = Agent
      /\ \A b \in Agent : IsMap(store'[b], ReplicaId, Bytes)
  BY <1>1, Zenon DEF AgentInv
<1>4. /\ AgentInv' /\ agent'[a] \notin Unregistered
      /\ \A b \in Agent \ {a} : agent'[b] = agent[b]
  <2>1. CASE Continue(a, "serve", NoTransfer)
    <3>1. "serve" \in AgentState /\ "serve" \notin Transferring /\ "serve" \notin Unregistered
      BY Zenon DEF AgentState, Serving, Transferring, Unregistered
    <3> QED  BY <1>3, <2>1, <3>1, NoTransferTyped, ContinueKeeps, Zenon
  <2>2. CASE skip_frame(a)
    <3>1. UNCHANGED agent_vars /\ agent[a] = "serve"
      BY <2>2, Zenon DEF skip_frame
    <3>2. AgentInv'
      BY <3>1, AgentKept, PlaneUnchanged, Zenon
    <3> QED  BY <3>1, <3>2, Zenon DEF agent_vars, Unregistered
  <2>3. CASE drop_frame(a) /\ ~Continue(a, "serve", NoTransfer)
    <3> DEFINE t == [transfer[a] EXCEPT !.attempt = @ + 1]
    <3>1. /\ agent[a] \in {"await_result", "await_verify"} /\ Continue(a, agent[a], t)
          /\ transfer[a].attempt + 1 # MaxAckFrames
      BY <2>3, Zenon DEF drop_frame
    <3>2. /\ transfer[a] \in TransferRecord /\ transfer[a].attempt < MaxAckFrames
          /\ Intended(a, transfer[a].intent) /\ transfer[a].bytes \in Bytes
      BY <3>1, Zenon DEF AgentInv, AgentType, Transferring
    <3>3. /\ t \in TransferRecord /\ t.attempt < MaxAckFrames
          /\ t.intent = transfer[a].intent /\ t.bytes = transfer[a].bytes
      BY <3>1, <3>2, AckFrames DEF TransferRecord
    <3>4. agent[a] \in AgentState /\ agent[a] \notin Unregistered
      BY <3>1, Zenon DEF AgentState, Serving, Unregistered
    <3> HIDE DEF t
    <3> QED  BY <1>3, <3>1, <3>2, <3>3, <3>4, ContinueKeeps, Zenon
  <2> QED  BY <2>1, <2>2, <2>3, Zenon DEF evidence_acked, verify_acked, await_fails
<1>5. RunsOn(a) /\ UNCHANGED script
  BY <1>1, <1>4, Zenon DEF RunsOn, Unregistered, controller_vars
<1> QED  BY <1>1, <1>2, <1>4, <1>5, AgentQueueStep, Zenon

\* The agent takes up an intent for its own cluster.
LEMMA TakeIntentKeeps ==
  ASSUME ProcessInv, UNCHANGED <<vars, coordinator, controller_vars>>,
         NEW a \in Agent, take_intent(a)
  PROVE  AgentInv' /\ QueueInv'
<1> DEFINE h == Head(down[a])
           t == [NoTransfer EXCEPT !.intent = h]
           f == Frame("TRANSFER_INTENT_ACK")
<1> USE DEF ProcessInv
<1>1. /\ agent[a] = "serve" /\ client_receives(a) /\ client_sends(a, f)
      /\ h.type = "TRANSFER_INTENT" /\ Continue(a, "pull", t)
      /\ UNCHANGED <<server_open, incarnation, store>> /\ a \in Client
  BY Zenon DEF take_intent, Client
<1>2. DownStep(a, {}) /\ h \in FrameRecord /\ Intended(a, h)
  BY <1>1, ClientReceives, Zenon DEF DownFrame
<1>3. t \in TransferRecord /\ t.attempt < MaxAckFrames /\ t.intent = h
  BY <1>2, NoTransferTyped, Zenon DEF TransferRecord
<1>4. f \in FrameRecord /\ f.type = "TRANSFER_INTENT_ACK"
  BY FrameTyped, Zenon DEF FrameType
<1>5. /\ AgentInv' /\ agent'[a] = "pull" /\ \A b \in Agent \ {a} : agent'[b] = agent[b]
  <2>1. /\ incarnation' \in [Agent -> Nat] /\ "pull" \in AgentState
        /\ DOMAIN store' = Agent /\ \A b \in Agent : IsMap(store'[b], ReplicaId, Bytes)
    BY <1>1, Zenon DEF AgentInv, AgentState, Serving
  <2>2. Intended(a, t.intent) /\ "pull" \notin Transferring \ {"pull"}
    BY <1>2, <1>3, Zenon
  <2> HIDE DEF t
  <2> QED  BY <1>1, <1>3, <2>1, <2>2, ContinueKeeps, Zenon
<1>6. UpFits(a, {f})
  <2>1. \A g \in {f} : UpFrame(a, g)'
    BY <1>4, Peers, Zenon DEF UpFrame
  <2> HIDE DEF f
  <2>2. UpStep(a, {f})
    BY <1>1, <1>4, ClientSends, Zenon
  <2> QED  BY <2>1, <2>2, Zenon DEF UpFits
<1>7. RunsOn(a) /\ UNCHANGED script
  BY <1>1, <1>5, Zenon DEF RunsOn, Unregistered, controller_vars
<1> HIDE DEF f
<1> QED  BY <1>1, <1>2, <1>5, <1>6, <1>7, AgentQueueStep, Zenon

\* A report is sent, and the control loop goes on.
LEMMA ReportingKeeps ==
  ASSUME ProcessInv, UNCHANGED <<vars, coordinator, controller_vars>>,
         NEW a \in Agent, agent[a] \in Transferring,
         NEW type \in {"TRANSFER_PROGRESS", "TRANSFER_RESULT", "VERIFY_RESULT"},
         NEW outcome \in Outcome, client_sends(a, Report(a, type, outcome)),
         \/ type = "TRANSFER_PROGRESS"
         \/ type = "TRANSFER_RESULT" /\ outcome \in Bytes \cup {"FAILED"}
         \/ type = "VERIFY_RESULT" /\ outcome \in Bytes,
         NEW pc \in Serving, NEW t \in TransferRecord, Continue(a, pc, t),
         t.attempt < MaxAckFrames,
         pc \in Transferring => t.intent = transfer[a].intent,
         pc \in Transferring \ {"pull"} => t.bytes \in Bytes,
         UNCHANGED <<incarnation, server_open>>, DownStep(a, {}),
         DOMAIN store' = Agent, \A b \in Agent : IsMap(store'[b], ReplicaId, Bytes)
  PROVE  AgentInv' /\ QueueInv'
<1> DEFINE f == Report(a, type, outcome)
<1> USE DEF ProcessInv
<1>1. /\ f \in FrameRecord /\ f.type = type /\ f.outcome = outcome
      /\ f.incarnation = incarnation[a] /\ Routed(a, f.replica)
  <2>1. type \in FrameType
    BY Zenon DEF FrameType
  <2> QED  BY <2>1, ReportTyped, Zenon
<1>2. AgentInv' /\ agent'[a] = pc /\ \A b \in Agent \ {a} : agent'[b] = agent[b]
  <2>1. incarnation' \in [Agent -> Nat] /\ pc \in AgentState /\ Intended(a, transfer[a].intent)
    BY Zenon DEF AgentInv, AgentState
  <2> QED  BY <2>1, ContinueKeeps, Zenon
<1>3. pc \notin Unregistered /\ agent[a] \notin Unregistered
  BY Zenon DEF Serving, Transferring, Unregistered
<1>4. ASSUME NEW g \in {f}
      PROVE  UpFrame(a, g)'
  <2>1. g.type = type /\ g.outcome = outcome /\ g.incarnation = incarnation'[a]
    BY <1>1, Zenon
  <2>2. Routed(a, g.replica)'
    BY <1>1, Zenon DEF Routed, vars
  <2>3. IsReport(a, g)'
    BY <1>2, <1>3, <2>1, <2>2, Zenon DEF IsReport
  <2> QED  BY <2>3, Peers, Zenon DEF UpFrame
<1>5. UpFits(a, {f})
  <2>1. client_sends(a, f) /\ a \in Client
    BY Zenon DEF Client
  <2> HIDE DEF f
  <2>2. UpStep(a, {f})
    BY <1>1, <2>1, ClientSends, Zenon
  <2> QED  BY <1>4, <2>2, Zenon DEF UpFits
<1>6. RunsOn(a) /\ UNCHANGED script
  BY <1>2, <1>3, Zenon DEF RunsOn, Unregistered, controller_vars
<1> HIDE DEF f
<1> QED  BY <1>2, <1>5, <1>6, AgentQueueStep, Zenon

\* A transfer goes on with bytes of the source, and every report is about it.
LEMMA TransferKeeps ==
  ASSUME ProcessInv, UNCHANGED <<vars, coordinator, controller_vars>>, NEW a \in Agent,
         first_chunk(a) \/ pull_fails(a) \/ last_chunk(a) \/ result_acked(a)
  PROVE  AgentInv' /\ QueueInv'
<1> USE DEF ProcessInv
<1>1. /\ agent[a] \in Transferring /\ UNCHANGED <<incarnation, server_open>> /\ a \in Client
      /\ transfer[a] \in TransferRecord /\ transfer[a].attempt < MaxAckFrames
  BY Zenon DEF first_chunk, pull_fails, last_chunk, result_acked, Transferring, Client, AgentInv,
         AgentType
<1>2. DownStep(a, {})
  BY <1>1, DownUnchanged, ClientReceives, Zenon DEF first_chunk, pull_fails, last_chunk, result_acked
<1>3. CASE first_chunk(a)
  <2>1. PICK bytes \in SourceBytes(a) :
          Continue(a, "receive", [transfer[a] EXCEPT !.bytes = bytes])
    BY <1>3, Zenon DEF first_chunk
  <2> DEFINE t == [transfer[a] EXCEPT !.bytes = bytes]
  <2>2. /\ t \in TransferRecord /\ t.attempt < MaxAckFrames /\ t.intent = transfer[a].intent
        /\ t.bytes \in Bytes
    BY <1>1, <2>1, SourceBytesTyped, Zenon DEF TransferRecord
  <2>3. /\ client_sends(a, Report(a, "TRANSFER_PROGRESS", "NONE"))
        /\ DOMAIN store' = Agent /\ \A b \in Agent : IsMap(store'[b], ReplicaId, Bytes)
    BY <1>3, Zenon DEF first_chunk, AgentInv
  <2>4. "receive" \in Serving /\ "NONE" \in Outcome
    BY Zenon DEF Serving, Outcome
  <2> HIDE DEF t
  <2> QED  BY <1>1, <1>2, <2>1, <2>2, <2>3, <2>4, ReportingKeeps, Zenon DEF t
<1>4. CASE pull_fails(a)
  <2>1. /\ client_sends(a, Report(a, "TRANSFER_RESULT", "FAILED"))
        /\ Continue(a, "serve", NoTransfer)
        /\ DOMAIN store' = Agent /\ \A b \in Agent : IsMap(store'[b], ReplicaId, Bytes)
    BY <1>4, Zenon DEF pull_fails, AgentInv
  <2>2. "serve" \in Serving \ Transferring /\ "FAILED" \in Outcome
    BY Zenon DEF Serving, Outcome, Transferring
  <2> QED  BY <1>1, <1>2, <2>1, <2>2, NoTransferTyped, ReportingKeeps, Zenon
<1>5. CASE last_chunk(a)
  <2>1. PICK bytes \in {transfer[a].bytes}
                         \cup {"MISMATCH" : b \in SourceBytes(a) \ {transfer[a].bytes}} :
          /\ store' = put(a, bytes)
          /\ client_sends(a, Report(a, "TRANSFER_RESULT", bytes))
          /\ Continue(a, "await_result", [transfer[a] EXCEPT !.bytes = bytes])
    BY <1>5, Zenon DEF last_chunk
  <2> DEFINE t == [transfer[a] EXCEPT !.bytes = bytes]
  <2>2. bytes \in Bytes
    <3>1. transfer[a].bytes \in Bytes
      BY <1>5, Zenon DEF last_chunk, AgentInv, Transferring
    <3> QED  BY <2>1, <3>1, Zenon DEF Bytes
  <2>3. /\ t \in TransferRecord /\ t.attempt < MaxAckFrames /\ t.intent = transfer[a].intent
        /\ t.bytes \in Bytes
    BY <1>1, <2>2, Zenon DEF TransferRecord
  <2>4. DOMAIN store' = Agent /\ \A b \in Agent : IsMap(store'[b], ReplicaId, Bytes)
    <3>1. transfer[a].intent.replica \in ReplicaId
      BY <1>1, Zenon DEF AgentInv, Intended, Routed, TypeOK, IsMap
    <3>2. store' = [store EXCEPT ![a] = [p \in DOMAIN store[a] \cup {transfer[a].intent.replica} |->
                      IF p = transfer[a].intent.replica THEN bytes ELSE store[a][p]]]
      BY <2>1, Zenon DEF put
    <3> QED  BY <2>2, <3>1, <3>2, Zenon DEF AgentInv, IsMap
  <2>5. "await_result" \in Serving /\ bytes \in Outcome
    BY <2>2, Zenon DEF Serving, Outcome
  <2> HIDE DEF t
  <2> QED  BY <1>1, <1>2, <2>1, <2>2, <2>3, <2>4, <2>5, ReportingKeeps, Zenon DEF t
<1>6. CASE result_acked(a)
  <2> DEFINE t == [transfer[a] EXCEPT !.attempt = 0]
  <2>1. /\ client_sends(a, Report(a, "VERIFY_RESULT", transfer[a].bytes))
        /\ Continue(a, "await_verify", t)
        /\ DOMAIN store' = Agent /\ \A b \in Agent : IsMap(store'[b], ReplicaId, Bytes)
    BY <1>6, Zenon DEF result_acked, AgentInv
  <2>2. transfer[a].bytes \in Bytes
    BY <1>6, Zenon DEF result_acked, AgentInv, Transferring
  <2>3. /\ t \in TransferRecord /\ t.attempt < MaxAckFrames /\ t.intent = transfer[a].intent
        /\ t.bytes \in Bytes
    BY <1>1, <2>2, AckFrames DEF TransferRecord
  <2>4. "await_verify" \in Serving /\ transfer[a].bytes \in Outcome
    BY <2>2, Zenon DEF Serving, Outcome
  <2> HIDE DEF t
  <2> QED  BY <1>1, <1>2, <2>1, <2>2, <2>3, <2>4, ReportingKeeps, Zenon
<1> QED  BY <1>3, <1>4, <1>5, <1>6, Zenon

\* A process that starts says HELLO over a connection nobody has served.
LEMMA StartKeeps ==
  ASSUME ProcessInv, UNCHANGED <<vars, coordinator, controller_vars>>,
         NEW a \in Agent, start(a)
  PROVE  AgentInv' /\ QueueInv' /\ server_open \subseteq server_open'
<1> DEFINE f == Frame("HELLO")
<1> USE DEF ProcessInv
<1>1. /\ agent[a] = "off" /\ up' = [up EXCEPT ![a] = <<f>>] /\ server_open' = server_open \cup {a}
      /\ Continue(a, "hello", NoTransfer) /\ UNCHANGED <<down, incarnation, store>>
      /\ a \in Client
  BY Zenon DEF start, connect, Client
<1>2. /\ AgentInv' /\ agent'[a] = "hello" /\ \A b \in Agent \ {a} : agent'[b] = agent[b]
  <2>1. /\ incarnation' \in [Agent -> Nat] /\ "hello" \in AgentState /\ "hello" \notin Transferring
        /\ DOMAIN store' = Agent /\ \A b \in Agent : IsMap(store'[b], ReplicaId, Bytes)
    BY <1>1, Zenon DEF AgentInv, AgentState, Transferring
  <2> QED  BY <1>1, <2>1, NoTransferTyped, ContinueKeeps, Zenon
<1>3. f \in FrameRecord /\ f.type = "HELLO"
  BY FrameTyped, Zenon DEF FrameType
<1> HIDE DEF f
<1>4. /\ <<f>> \in Seq(FrameRecord) /\ Frames(<<f>>) = {f} /\ HelloFirst(<<f>>)
  <2>1. Tail(<<f>>) = << >>
    OBVIOUS
  <2> QED  BY <1>3, <2>1, FramesFirst, FramesEmpty, Zenon DEF HelloFirst
<1>5. RoutesKept /\ UNCHANGED <<worker, script>> /\ worker[a] = "none"
  BY <1>1, PlaneUnchanged, Zenon DEF coordinator, controller_vars, QueueInv
<1>6. UpFits(a, {f}) /\ DownFits(a, {})
  <2>1. UpStep(a, {f})
    BY <1>1, <1>4, Zenon DEF UpStep, QueueInv
  <2>2. \A g \in {f} : UpFrame(a, g)'
    BY <1>3, <1>5, Peers, Zenon DEF UpFrame
  <2> QED  BY <1>1, <2>1, <2>2, DownUnchanged, Zenon DEF UpFits, DownFits
<1>7. PeersKept
  BY <1>1, <1>2, <1>5, Zenon DEF PeersKept, QueueInv, Unregistered
<1>8. FirstKept
  BY <1>5, Zenon DEF FirstKept
<1>9. QueueInv'
  BY <1>1, <1>5, <1>6, <1>7, <1>8, QueueStep, Zenon
<1> QED  BY <1>1, <1>2, <1>9, Zenon

\* A step of an agent's own thread, its start and its death keep the invariant.
LEMMA AgentStepKeeps ==
  ASSUME ProcessInv, UNCHANGED <<vars, coordinator, controller_vars>>,
         NEW a \in Agent, AgentStep(a)
  PROVE  AgentInv' /\ QueueInv' /\ CoordinatorInv'
<1>1. server_open' = server_open
  BY Zenon DEF AgentStep, hello_acked, evidence_acked, registration_fails, take_intent, skip_frame,
         link_closed, first_chunk, pull_fails, last_chunk, result_acked, verify_acked,
         drop_frame, await_fails, ends, transport
<1>2. CoordinatorInv'
  BY <1>1, CoordinatorKept, Zenon DEF ProcessInv
<1>3. CASE registration_fails(a) \/ link_closed(a)
  <2>1. ends(a) /\ UNCHANGED script
    BY <1>3, Zenon DEF registration_fails, link_closed, controller_vars
  <2> QED  BY <1>2, <2>1, EndsKeeps, Zenon
<1>4. AgentInv' /\ QueueInv'
  BY <1>3, HelloAckedKeeps, ReceivingKeeps, TakeIntentKeeps, TransferKeeps, Zenon DEF AgentStep
<1> QED  BY <1>2, <1>4, Zenon

-----------------------------------------------------------------------------
(* Steps of the controllers and of the environment *)

\* A controller sends the requests of its script.
LEMMA ControllerKeeps ==
  ASSUME ProcessInv, UNCHANGED <<vars, coordinator, agent_vars>>, NEW k \in Controller,
         receive_response(k) \/ disconnect(k) \/ send_request(k)
  PROVE  AgentInv' /\ QueueInv' /\ CoordinatorInv'
<1> USE DEF ProcessInv
<1>1. server_open' = server_open /\ RoutesKept /\ k \in Client /\ k \notin Agent
  BY PlaneUnchanged, Peers, Zenon DEF receive_response, disconnect, send_request, Client
<1>2. AgentInv' /\ CoordinatorInv'
  BY <1>1, AgentKept, CoordinatorKept, Zenon
<1>3. /\ UNCHANGED <<agent, incarnation, worker>>
      /\ \A b \in Agent : agent'[b] = "off" => worker'[b] = "none" /\ b \notin server_open'
  BY <1>1, Zenon DEF agent_vars, coordinator, QueueInv
<1>4. DownFits(k, {})
  BY <1>1, DownUnchanged, ClientReceives, ClientCloses, Zenon DEF receive_response, disconnect,
     send_request, DownFits
<1>5. PICK F \in SUBSET ControlRequest : UpStep(k, F)
  <2>1. CASE receive_response(k) \/ disconnect(k)
    <3>1. UpStep(k, {})
      BY <1>1, <2>1, UpUnchanged, Zenon DEF receive_response, disconnect
    <3> QED  BY <3>1, Zenon
  <2>2. CASE send_request(k)
    <3>1. PICK f \in Head(script[k]) : client_sends(k, f)
      BY <2>2, Zenon DEF send_request
    <3>2. script[k] \in Seq(SUBSET ControlRequest) /\ script[k] # << >>
      BY <2>2, Zenon DEF send_request, QueueInv
    <3>3. f \in ControlRequest
      BY <3>1, <3>2
    <3>4. UpStep(k, {f})
      BY <1>1, <3>1, <3>3, ControlRequestTyped, ClientSends, Zenon
    <3> QED  BY <3>3, <3>4, Zenon
  <2> QED  BY <2>1, <2>2, Zenon
<1>6. UpFits(k, F)
  BY <1>1, <1>5, ControlRequestTyped, Zenon DEF UpFrame, UpFits
<1>7. script' \in [Controller -> Seq(SUBSET ControlRequest)]
  <2>1. UNCHANGED script \/ (script[k] # << >> /\ script' = [script EXCEPT ![k] = Tail(script[k])])
    BY Zenon DEF receive_response, disconnect, send_request
  <2>2. \A s \in Seq(SUBSET ControlRequest) : s # << >> => Tail(s) \in Seq(SUBSET ControlRequest)
    OBVIOUS
  <2> QED  BY <2>1, <2>2, Zenon DEF QueueInv
<1>8. PeersKept /\ FirstKept
  BY <1>3, <1>7, Zenon DEF PeersKept, FirstKept
<1>9. QueueInv'
  BY <1>1, <1>4, <1>6, <1>8, QueueStep, Zenon
<1> QED  BY <1>2, <1>9, Zenon

\* Bytes handed to an agent change nothing but its store.
LEMMA HostStateKeeps ==
  ASSUME ProcessInv, UNCHANGED <<vars, coordinator, script>>,
         NEW h \in Hosting, host_state(h[1], h[2], h[3])
  PROVE  AgentInv' /\ QueueInv' /\ CoordinatorInv'
<1> USE DEF ProcessInv
<1>1. h[1] \in Agent /\ h[2] \in ReplicaId /\ h[3] \in Bytes
  BY Measured, Zenon DEF Bytes
<1>2. /\ UNCHANGED <<transport, agent, incarnation, transfer>>
      /\ store' = [store EXCEPT ![h[1]] = [p \in DOMAIN store[h[1]] \cup {h[2]} |->
                     IF p = h[2] THEN h[3] ELSE store[h[1]][p]]]
  BY Zenon DEF host_state
<1>3. DOMAIN store' = Agent /\ \A b \in Agent : IsMap(store'[b], ReplicaId, Bytes)
  BY <1>1, <1>2, Zenon DEF AgentInv, IsMap
<1>4. AgentInv'
  BY <1>2, <1>3, Zenon DEF AgentInv, AgentType, Intended, Routed, vars
<1>5. CoordinatorInv'
  BY <1>2, CoordinatorKept, Zenon DEF transport
<1>6. QueueInv'
  BY <1>2, ZenonT(30) DEF QueueInv, UpFrame, IsReport, DownFrame, Intended, Routed, transport, vars,
              coordinator
<1> QED  BY <1>4, <1>5, <1>6, Zenon

-----------------------------------------------------------------------------
(* Every step *)

\* Every step of every process is a step of the fabric or leaves the plane alone.
LEMMA DeploymentPlane ==
  ASSUME ProcessInv, [DeploymentNext]_all_vars
  PROVE  [Next]_vars
<1>1. ASSUME NEW x \in Client, ServerStep(x) PROVE [Next]_vars
  BY <1>1, WorkerPlane, Zenon DEF ServerStep
<1>2. ServeStep => UNCHANGED vars
  BY Zenon DEF ServeStep, accept_ends, serve_returns
<1>3. /\ \A a \in Agent : AgentRuns(a) => UNCHANGED vars
      /\ \A k \in Controller : ControllerRuns(k) => UNCHANGED vars
  BY Zenon DEF AgentRuns, ControllerRuns
<1>4. Outside => UNCHANGED vars
  BY Zenon DEF Outside
<1>5. UNCHANGED all_vars => UNCHANGED vars
  BY Zenon DEF all_vars
<1> QED  BY <1>1, <1>2, <1>3, <1>4, <1>5, Zenon DEF DeploymentNext

\* The record of every cluster names a boot.
LEMMA BootsStep ==
  ASSUME ProcessInv, [DeploymentNext]_all_vars
  PROVE  boots' \in [Cluster -> BootId]
<1>1. boots \in [Cluster -> BootId]
  BY Zenon DEF ProcessInv
<1>2. ASSUME NEW c \in Cluster, NEW b \in BootId, boots' = [boots EXCEPT ![c] = b]
      PROVE  boots' \in [Cluster -> BootId]
  BY <1>1, <1>2, Zenon
<1>3. ASSUME NEW x \in Client, ServerStep(x)
      PROVE  boots' \in [Cluster -> BootId]
  <2>1. CASE UNCHANGED boots
    BY <1>1, <2>1, Zenon
  <2>2. CASE hello(x)
    <3>1. x \in Agent /\ registers(ClusterOf[x], ProcessId[x], FALSE)
      BY <2>2, HelloIsStep, Zenon DEF hello
    <3>2. /\ ClusterOf[x] \in Cluster /\ ProcessId[x] \in BootId
          /\ boots' = [boots EXCEPT ![ClusterOf[x]] = ProcessId[x]]
      BY <3>1, Configured, Zenon DEF registers
    <3> QED  BY <1>2, <3>2, Zenon
  <2>3. CASE reincarnate_request
    BY <1>2, <2>3, Zenon DEF reincarnate_request, registers
  <2> QED  BY <1>3, <2>1, <2>2, <2>3, BootsMove, Zenon DEF ServerStep
<1>4. ServeStep \/ UNCHANGED all_vars => UNCHANGED boots
  BY Zenon DEF ServeStep, accept_ends, serve_returns, all_vars, coordinator
<1>5. /\ \A a \in Agent : AgentRuns(a) => UNCHANGED boots
      /\ \A k \in Controller : ControllerRuns(k) => UNCHANGED boots
      /\ Outside => UNCHANGED boots
  BY Zenon DEF AgentRuns, ControllerRuns, Outside, coordinator
<1> QED  BY <1>1, <1>3, <1>4, <1>5, Zenon DEF DeploymentNext

\* It keeps the invariant of the processes when the plane keeps its types and its routes.
LEMMA DeploymentStep ==
  ASSUME ProcessInv, [DeploymentNext]_all_vars, TypeOK', DestinationsKnown', RoutesKept
  PROVE  ProcessInv'
<1> SUFFICES CoordinatorInv' /\ AgentInv' /\ QueueInv'
  BY BootsStep, Zenon DEF ProcessInv
<1>1. ASSUME NEW x \in Client, ServerStep(x)
      PROVE  CoordinatorInv' /\ AgentInv' /\ QueueInv'
  <2>1. /\ accept(x) \/ WorkerStep(x)
        /\ UNCHANGED <<agent_vars, controller_vars>>
    BY <1>1, Zenon DEF ServerStep
  <2>2. CoordinatorInv' /\ QueueInv'
    BY <2>1, WorkerStepKeeps, Zenon
  <2>3. AgentInv'
    BY <2>1, AgentKept, Zenon DEF ProcessInv
  <2> QED  BY <2>2, <2>3, Zenon
<1>2. CASE ServeStep
  <2>1. CoordinatorInv' /\ QueueInv' /\ UNCHANGED agent_vars
    BY <1>2, ServeStepKeeps, Zenon DEF ServeStep
  <2> QED  BY <2>1, AgentKept, Zenon DEF ProcessInv
<1>3. ASSUME NEW a \in Agent, AgentRuns(a)
      PROVE  CoordinatorInv' /\ AgentInv' /\ QueueInv'
  BY <1>3, AgentStepKeeps, Zenon DEF AgentRuns
<1>4. ASSUME NEW k \in Controller, ControllerRuns(k)
      PROVE  CoordinatorInv' /\ AgentInv' /\ QueueInv'
  BY <1>4, ControllerKeeps, Zenon DEF ControllerRuns
<1>5. CASE Outside
  <2>1. ASSUME NEW a \in Agent, start(a), UNCHANGED <<vars, coordinator, controller_vars>>
        PROVE  CoordinatorInv' /\ AgentInv' /\ QueueInv'
    BY <2>1, StartKeeps, CoordinatorKept, Zenon DEF ProcessInv
  <2>2. ASSUME NEW a \in Agent, kill(a), UNCHANGED <<vars, coordinator, script>>
        PROVE  CoordinatorInv' /\ AgentInv' /\ QueueInv'
    BY <2>2, EndsKeeps, CoordinatorKept, Zenon DEF kill, ProcessInv
  <2>3. ASSUME NEW h \in Hosting, host_state(h[1], h[2], h[3]),
               UNCHANGED <<vars, coordinator, script>>
        PROVE  CoordinatorInv' /\ AgentInv' /\ QueueInv'
    BY <2>3, HostStateKeeps, Zenon
  <2>4. ASSUME NEW k \in Controller, send_request(k), UNCHANGED <<vars, coordinator, agent_vars>>
        PROVE  CoordinatorInv' /\ AgentInv' /\ QueueInv'
    BY <2>4, ControllerKeeps, Zenon
  <2> QED  BY <1>5, <2>1, <2>2, <2>3, <2>4, Zenon DEF Outside
<1>6. CASE UNCHANGED all_vars
  <2>1. UNCHANGED <<vars, agent_vars, coordinator, up, down, server_open, script>>
    BY <1>6, Zenon DEF all_vars, transport, controller_vars
  <2>2. AgentInv' /\ CoordinatorInv'
    BY <2>1, AgentKept, CoordinatorKept, Zenon DEF ProcessInv
  <2>3. QueueInv'
    BY <2>1, ZenonT(30) DEF ProcessInv, QueueInv, UpFrame, IsReport, DownFrame, Intended, Routed, vars,
                coordinator, agent_vars
  <2> QED  BY <2>2, <2>3, Zenon
<1> QED  BY <1>1, <1>2, <1>3, <1>4, <1>5, <1>6, Zenon DEF DeploymentNext

\* The processes start with no frame under way and no transfer taken up.
LEMMA DeploymentStarts ==
  ASSUME TypeOK, DestinationsKnown, ProcessesStart
  PROVE  ProcessInv
<1>1. PICK booted \in SUBSET Agent, startable \in SUBSET Agent, connected \in SUBSET Controller :
        \E scripts \in [connected -> Seq(SUBSET ControlRequest)],
           bytes \in [Agent -> UNION {[S -> Bytes] : S \in SUBSET ReplicaId}] :
          ProcessesInit(booted, scripts, startable, bytes)
  BY Zenon DEF ProcessesStart
<1>2. PICK scripts \in [connected -> Seq(SUBSET ControlRequest)],
           bytes \in [Agent -> UNION {[S -> Bytes] : S \in SUBSET ReplicaId}] :
        ProcessesInit(booted, scripts, startable, bytes)
  BY <1>1, Zenon
<1>3. DOMAIN scripts = connected /\ Frame("NONE") \in FrameRecord /\ Frame("NONE").type = "NONE"
  BY <1>2, FrameTyped, Zenon DEF FrameType
<1>4. /\ worker = [x \in Client |-> IF x \in booted THEN "agent"
                                    ELSE IF x \in connected THEN "first" ELSE "none"]
      /\ work = [x \in Client |-> Frame("NONE")] /\ target = [x \in Client |-> x]
      /\ server_open = booted \cup connected /\ registered = booted
      /\ agents = [c \in {ClusterOf[a] : a \in booted} |-> CHOOSE a \in booted : ClusterOf[a] = c]
      /\ shutdown_requested = FALSE /\ serving = "accept"
  BY <1>2, <1>3, Zenon DEF ProcessesInit
<1>5. CoordinatorInv
  <2>1. IsMap(agents, Cluster, Agent) /\ \A c \in DOMAIN agents : ClusterOf[agents[c]] = c
    <3>1. \A c \in {ClusterOf[a] : a \in booted} :
            /\ (CHOOSE a \in booted : ClusterOf[a] = c) \in booted
            /\ ClusterOf[CHOOSE a \in booted : ClusterOf[a] = c] = c /\ c \in Cluster
      BY Configured, Zenon
    <3> QED  BY <1>4, <3>1, Zenon DEF IsMap
  <2>2. CoordinatorType
    BY <1>4, <2>1, Peers, Zenon DEF CoordinatorType, Client, IsMap
  <2>3. HandledRequestsStayConnected
    BY <1>4, Zenon DEF HandledRequestsStayConnected, Client
  <2>4. \A x \in Client : WorkerInv(x)
    BY <1>3, <1>4, Peers, Zenon DEF WorkerInv, ControlStates, SessionStates
  <2> QED  BY <1>3, <1>4, <2>1, <2>2, <2>3, <2>4, Zenon DEF CoordinatorInv
<1>6. /\ agent = [a \in Agent |-> IF a \in booted THEN "serve"
                                  ELSE IF a \in startable THEN "off" ELSE "exited"]
      /\ incarnation = [a \in Agent |-> IF a \in booted THEN 1 ELSE 0]
      /\ transfer = [a \in Agent |-> NoTransfer] /\ store = bytes
  BY <1>2, Zenon DEF ProcessesInit
<1>7. AgentInv
  <2>1. AgentType
    BY <1>6, NoTransferTyped, Zenon DEF AgentType, Serving
  <2>2. DOMAIN store = Agent /\ \A a \in Agent : IsMap(store[a], ReplicaId, Bytes)
    BY <1>2, <1>6 DEF IsMap
  <2> QED  BY <1>6, <2>1, <2>2, NoTransferTyped, Zenon DEF AgentInv, Transferring
<1>8. QueueInv
  <2>1. /\ up = [x \in Client |-> << >>] /\ down = [x \in Client |-> << >>]
        /\ script = [k \in Controller |-> IF k \in connected THEN scripts[k] ELSE << >>]
    BY <1>2, <1>3, Zenon DEF ProcessesInit
  <2>2. /\ << >> \in Seq(FrameRecord) /\ << >> \in Seq(SUBSET ControlRequest)
        /\ Frames(<< >>) = {} /\ HelloFirst(<< >>)
    BY FramesEmpty, Zenon DEF HelloFirst
  <2>3. script \in [Controller -> Seq(SUBSET ControlRequest)]
    BY <1>2, <2>1, <2>2, Zenon
  <2>4. \A a \in Agent : agent[a] = "off" => worker[a] = "none" /\ a \notin server_open
    BY <1>4, <1>6, Peers, Zenon DEF Client
  <2> QED  BY <2>1, <2>2, <2>3, <2>4, Zenon DEF QueueInv, Client
<1>9. boots \in [Cluster -> BootId]
  BY <1>2, <1>3, Zenon DEF ProcessesInit
<1> QED  BY <1>5, <1>7, <1>8, <1>9, Zenon DEF ProcessInv

\* A step of one worker leaves the place of the others, apart from waking them.
LEMMA WorkersMoveThemselves ==
  ASSUME CoordinatorInv, NEW x \in Client, accept(x) \/ WorkerStep(x), NEW y \in Client, y # x
  PROVE  worker'[y] = worker[y] \/ worker'[y] = "check"
<1>1. worker \in [Client -> WorkerState]
  BY Zenon DEF CoordinatorInv, CoordinatorType, WorkerState, ControlStates, SessionStates
<1>2. \A pc : Goto(x, pc) \/ Notify(x, pc) =>
        worker'[y] = worker[y] \/ worker'[y] = "check"
  BY <1>1, Zenon DEF Goto, Notify
<1>3. (\E pc : Goto(x, pc) \/ Notify(x, pc)) \/ UNCHANGED worker
  <2>1. CASE accept(x) \/ leave(x) \/ hello(x) \/ enter_session(x)
    BY <2>1, Zenon DEF accept, leave, hello, enter_session
  <2>2. CASE hello_ack(x) \/ handle_agent_frame(x) \/ acknowledge(x)
    BY <2>2, Zenon DEF hello_ack, handle_agent_frame, acknowledge
  <2>3. CASE dispatch_mutation(x) \/ dispatch_authorize(x)
    BY <2>3, Zenon DEF dispatch_mutation, dispatch_authorize
  <2>4. CASE dispatch_query(x) \/ dispatch_shutdown(x) \/ dispatch_await(x)
    BY <2>4, Zenon DEF dispatch_query, dispatch_shutdown, dispatch_await
  <2>5. CASE lookup_sessions(x) \/ send_intent(x) \/ await_check(x) \/ await_sleep(x)
    BY <2>5, Zenon DEF lookup_sessions, send_intent, await_check, await_sleep
  <2>6. CASE respond(x) \/ after_answer(x)
    BY <2>6, Zenon DEF respond, after_answer
  <2> QED  BY <2>1, <2>2, <2>3, <2>4, <2>5, <2>6, Zenon DEF WorkerStep
<1> QED  BY <1>2, <1>3, Zenon

\* Only a frame of the agent itself brings its worker from waiting to acknowledging.
LEMMA OnlyReportsAreAcknowledged ==
  ASSUME ProcessInv, [DeploymentNext]_all_vars, NEW a \in Agent,
         worker[a] = "agent", worker'[a] = "acknowledge"
  PROVE  handle_agent_frame(a)
<1>1. a \in Client /\ worker \in [Client -> WorkerState]
  BY Zenon DEF Client, ProcessInv, CoordinatorInv, CoordinatorType, WorkerState, ControlStates,
         SessionStates
<1>2. ASSUME NEW x \in Client, ServerStep(x)
      PROVE  handle_agent_frame(a)
  <2>1. CASE x # a
    BY <1>1, <1>2, <2>1, WorkersMoveThemselves, Zenon DEF ServerStep, ProcessInv
  <2>2. CASE x = a
    <3>1. leave(a) => worker'[a] = "done"
      BY <1>1, Zenon DEF leave, Goto
    <3>2. handle_agent_frame(a) \/ leave(a)
      BY <1>2, <2>2, Zenon DEF ServerStep, WorkerStep, accept, hello, enter_session, hello_ack,
           acknowledge, takes_request, dispatch_mutation, dispatch_query, dispatch_shutdown,
           dispatch_await, dispatch_authorize, lookup_sessions, send_intent, await_check,
           await_sleep, respond, after_answer
    <3> QED  BY <3>1, <3>2, Zenon
  <2> QED  BY <2>1, <2>2, Zenon
<1>3. worker' # worker
  BY Zenon
<1>4. ~ServeStep /\ ~UNCHANGED all_vars
  BY <1>3, Zenon DEF ServeStep, accept_ends, serve_returns, all_vars, coordinator
<1>5. /\ \A b \in Agent : ~AgentRuns(b)
      /\ \A k \in Controller : ~ControllerRuns(k)
      /\ ~Outside
  BY <1>3, Zenon DEF AgentRuns, ControllerRuns, Outside, coordinator
<1> QED  BY <1>2, <1>4, <1>5, Zenon DEF DeploymentNext
=============================================================================
