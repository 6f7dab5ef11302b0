--------------------------- MODULE GuaranteeProofs ---------------------------
(***************************************************************************)
(* What the whole deployment guarantees, whatever its processes do and in  *)
(* whatever order: it implements the fabric, so what is proved of the      *)
(* fabric holds of it; its sessions and agents keep their types; a         *)
(* superseded agent changes nothing; the bytes that the plane says arrived *)
(* are with the agent they arrived at; and what the planner's callers do   *)
(* puts no two replicas of a generation in one cluster.                    *)
(***************************************************************************)
EXTENDS Planner, FabricProofs, StorageProofs

-----------------------------------------------------------------------------
(* The inductive invariant *)

DeploymentInv == AuthorityInv /\ ProcessInv

\* Every operation of the plane has a destination that exists.
LEMMA DestinationsAreKnown ==
  ASSUME AuthorityInv
  PROVE  TypeOK /\ DestinationsKnown
BY DEF AuthorityInv, OperationInv, DestinationsKnown, replicas_of_state

\* Every step of the fabric keeps the routes of the transfers.
LEMMA PlaneKept ==
  ASSUME AuthorityInv, [Next]_vars
  PROVE  RoutesKept
<1> USE DEF AuthorityInv
<1>1. /\ DOMAIN replicas \subseteq DOMAIN replicas'
      /\ \A q \in DOMAIN replicas : replicas'[q].cluster = replicas[q].cluster
  <2>1. CASE Quiet
    BY <2>1, KeptRecord DEF Quiet, Unpromoted
  <2>2. ASSUME NEW r \in DOMAIN replicas, Gain(r)
        PROVE  /\ DOMAIN replicas \subseteq DOMAIN replicas'
               /\ \A q \in DOMAIN replicas : replicas'[q].cluster = replicas[q].cluster
    <3>1. replicas[r] \in ReplicaRecord /\ RecordInv(replicas[r])
      BY MapValue DEF TypeOK, ReplicaInv
    <3>2. replicas'[r].cluster = replicas[r].cluster
      BY <2>2, <3>1, StrengthenedKeeps DEF Gain, TypeOK
    <3> QED  BY <2>2, <3>2, KeptRecord DEF Gain, Unpromoted
  <2>3. CASE initialize
    BY <2>3, RecoveredKeeps DEF initialize, Unpromoted, ReplicaInv
  <2> QED  BY <2>1, <2>2, <2>3, StepShape
<1>2. OperationsShape
  BY OperationsStep
<1> QED  BY <1>1, <1>2 DEF RoutesKept, Routed, OperationsShape, SameOrder

\* Every step of a deployment is a step of the fabric or leaves the plane alone, and keeps
\* the invariant.
LEMMA InvStep ==
  ASSUME DeploymentInv, [DeploymentNext]_all_vars
  PROVE  DeploymentInv' /\ [Next]_vars
<1>1. [Next]_vars
  BY DeploymentPlane, Zenon DEF DeploymentInv
<1>2. AuthorityInv' /\ RoutesKept
  BY <1>1, AuthorityStep, PlaneKept, Zenon DEF DeploymentInv
<1>3. TypeOK' /\ DestinationsKnown'
  BY <1>2 DEF AuthorityInv, OperationInv, DestinationsKnown, replicas_of_state
<1>4. ProcessInv'
  BY <1>2, <1>3, DeploymentStep, Zenon DEF DeploymentInv
<1> QED  BY <1>1, <1>2, <1>4 DEF DeploymentInv

-----------------------------------------------------------------------------
(* What is proved of the deployment *)

\* The processes start over a plane that a history of the fabric has left, the empty one
\* included, and take any steps.
DeploymentRuns == AuthorityInv /\ ProcessesStart /\ [][DeploymentNext]_all_vars

\* The inductive invariant holds in every run, whatever fails.
THEOREM DeploymentInductive == DeploymentRuns => []DeploymentInv
<1>1. AuthorityInv /\ ProcessesStart => DeploymentInv
  BY DestinationsAreKnown, DeploymentStarts, Zenon DEF DeploymentInv
<1>2. DeploymentInv /\ [DeploymentNext]_all_vars => DeploymentInv'
  BY InvStep, Zenon
<1> QED  BY <1>1, <1>2, PTL DEF DeploymentRuns

\* The plane, the map of sessions and the agents keep their types; every session served as
\* an agent's is marked as one.
THEOREM DeploymentIsTyped == DeploymentRuns => []DeploymentType
<1>1. DeploymentInv => DeploymentType
  BY DEF DeploymentInv, ProcessInv, DeploymentType, CoordinatorInv, AgentInv
<1> QED  BY <1>1, DeploymentInductive, PTL

\* No connection of a controller is closed while its request is being handled, a shutdown
\* that another controller asked for included.
THEOREM AnswersCanBeWritten == DeploymentRuns => []HandledRequestsStayConnected
<1>1. DeploymentInv => HandledRequestsStayConnected
  BY DEF DeploymentInv, ProcessInv, CoordinatorInv
<1> QED  BY <1>1, DeploymentInductive, PTL

\* A report that changes a replica or an operation comes from the process that holds the
\* current incarnation of a live cluster, whatever session its intent was sent over.
THEOREM FencedAgentsAreHarmless == DeploymentRuns => FencedAgentChangesNothing
<1>1. ASSUME DeploymentInv, [DeploymentNext]_all_vars, NEW a \in Agent,
             worker[a] = "agent", worker'[a] = "acknowledge",
             <<replicas, operations>>' # <<replicas, operations>>
      PROVE  /\ clusters[ClusterOf[a]].incarnation = incarnation[a]
             /\ clusters[ClusterOf[a]].live_authority
  <2> DEFINE f == Head(up[a])
  <2>1. handle_agent_frame(a) /\ a \in Client
    BY <1>1, OnlyReportsAreAcknowledged DEF Client, DeploymentInv
  <2>2. /\ f \in FrameRecord /\ UpFrame(a, f) /\ f.type \notin {"HELLO", "TRANSFER_INTENT_ACK"}
        /\ reported(a, f)
    BY <1>1, <2>1, AgentFrameIsStep DEF vars, DeploymentInv
  <2>3. f.operation \in NamedOperation /\ TypeOK
    BY <1>1, <2>2 DEF FrameRecord, DeploymentInv, ProcessInv
  <2>4. \/ publish_cluster_evidence(ClusterOf[a])
        \/ IsReport(a, f) /\ names_host(f) /\ guard_replica(f.replica)
    BY <2>2, <2>3, ReportIsStep
  <2>5. ~publish_cluster_evidence(ClusterOf[a])
    BY <1>1 DEF publish_cluster_evidence
  <2> QED  BY <2>4, <2>5, Zenon DEF IsReport, names_host, guard_replica, HostIsLive, Routed
<1>2. DeploymentInv /\ [DeploymentNext]_all_vars =>
        [\A a \in Agent :
           (/\ worker[a] = "agent" /\ worker'[a] = "acknowledge"
            /\ <<replicas, operations>>' # <<replicas, operations>>)
             => /\ clusters[ClusterOf[a]].incarnation = incarnation[a]
                /\ clusters[ClusterOf[a]].live_authority]_all_vars
  BY <1>1
<1> QED  BY <1>2, DeploymentInductive, PTL DEF DeploymentRuns, FencedAgentChangesNothing

\* The deployment implements the fabric: started over the empty plane, what its processes do
\* to the plane is a behaviour of the fabric's specification.
THEOREM DeploymentImplementsFabric ==
  Init /\ ProcessesStart /\ [][DeploymentNext]_all_vars => Spec
<1>1. Init => AuthorityInv
  BY AuthorityInit
<1>2. DeploymentInv /\ [DeploymentNext]_all_vars => [Next]_vars
  BY InvStep, Zenon
<1> QED  BY <1>1, <1>2, DeploymentInductive, PTL DEF DeploymentRuns, Spec

\* So what is proved of the fabric holds of its deployment: no interleaving of workers,
\* agents and controllers makes two owners, revives an outcome, counts a lost replica,
\* commits an operation of an earlier process or retires a source for nothing.
THEOREM DeploymentKeepsGuarantees ==
  Init /\ ProcessesStart /\ [][DeploymentNext]_all_vars =>
    /\ []SingleOwner /\ []CountedOnLiveIncarnation
    /\ OutcomeIsFinal /\ JoinAdvancesSet /\ CommitsBelongToThisProcess /\ CommitLeavesAuthority
BY DeploymentImplementsFabric, OwnershipIsUnique, CountedReplicasAreHosted, OutcomesAreFinal,
   JoinsAdvance, CommitsAreOfThisProcess, CommitsLeaveAuthority, PTL

-----------------------------------------------------------------------------
(* The bytes *)

\* The plane, the processes and the bytes they hold agree at the start.
CopyRuns == DeploymentRuns /\ CopiesStart

\* In every run the token of a transfer is in one place, the processes of a cluster that are
\* given the same incarnation have the same id, the one its record names while the incarnation
\* is current, and a recorded copy has a holder.
THEOREM CopiesInductive == CopyRuns => []CopyInv
<1>1. DeploymentInv /\ ProcessesStart /\ CopiesStart => CopyInv
  BY CopyStarts, Zenon DEF DeploymentInv
<1>2. DeploymentInv /\ DeploymentInv' /\ CopyInv /\ [DeploymentNext]_all_vars => CopyInv'
  BY CopyStep, Zenon DEF DeploymentInv
<1> QED  BY <1>1, <1>2, DeploymentInductive, PTL DEF DeploymentRuns, CopyRuns

\* Bytes the plane records as arrived are in the store of the process the replica is bound
\* to, and match: no late, repeated or failed transfer overwrites what was reported.  This is
\* of incarnations that one process has; a process that was taken for an earlier one with its
\* id shares the incarnation, and the theorem says nothing of its store.
THEOREM RecordsAreBacked == CopyRuns => []RecordedBytesAreStored
<1>1. DeploymentInv /\ CopyInv => RecordedBytesAreStored
  BY CopiesAreStored, Zenon DEF DeploymentInv
<1> QED  BY <1>1, DeploymentInductive, CopiesInductive, PTL DEF CopyRuns

\* An incarnation names one process id: the running processes of a cluster that hold the same
\* one have the same id, and none holds one that the plane has not given out.
THEOREM IncarnationsNameProcesses == CopyRuns => []IncarnationsAreDistinct
<1>1. DeploymentInv /\ CopyInv => IncarnationsAreDistinct
  <2> SUFFICES ASSUME DeploymentInv, CopyInv PROVE IncarnationsAreDistinct
    OBVIOUS
  <2>1. ASSUME NEW a \in Agent, agent[a] \in Serving
        PROVE  incarnation[a] \in Nat \ {0} /\ Claims(a, incarnation[a])
    BY <2>1 DEF DeploymentInv, ProcessInv, AgentInv, AgentType, CopyInv, GivenInv, Claims
  <2>2. ASSUME NEW a \in Agent, agent[a] \in Serving
        PROVE  /\ ClusterOf[a] \in DOMAIN clusters
               /\ incarnation[a] \in 1..clusters[ClusterOf[a]].incarnation
    <3>1. /\ ClusterOf[a] \in DOMAIN clusters
          /\ incarnation[a] <= clusters[ClusterOf[a]].incarnation
      BY <2>1, <2>2 DEF CopyInv, ClaimInv
    <3>2. clusters[ClusterOf[a]] \in ClusterRecord
      BY <3>1, MapValue DEF DeploymentInv, ProcessInv, TypeOK
    <3> QED  BY <2>1, <2>2, <3>1, <3>2 DEF ClusterRecord
  <2> QED  BY <2>1, <2>2 DEF CopyInv, ClaimInv, IncarnationsAreDistinct
<1> QED  BY <1>1, DeploymentInductive, CopiesInductive, PTL DEF CopyRuns

-----------------------------------------------------------------------------
(* The planner: one host, one replica *)

\* What the planner's callers do is what callers of the fabric may do, and leaves every join
\* of a replica to the commit of an operation; so does a restart.
LEMMA PlannedIsStep ==
  ASSUME TypeOK, PlannedStep
  PROVE  Next /\ HostedStep
<1>0. /\ DOMAIN states \subseteq StateKey /\ DOMAIN clusters \subseteq Cluster
      /\ DOMAIN replicas \subseteq ReplicaId /\ DOMAIN operations \subseteq OperationId
      /\ TRUE \in BOOLEAN /\ FALSE \in BOOLEAN
  BY DEF TypeOK, IsMap
<1>1. ASSUME NEW o \in OperationId, NEW r \in ReplicaId, NEW source \in ReplicaId,
             NEW k \in DOMAIN states, authorize_planned(o, r, k, source)
      PROVE  OperationStep
  <2>1. PICK c : authorize_replication(o, r, k, source, c)
    BY <1>1, Zenon DEF authorize_planned
  <2>2. c \in Cluster
    BY <1>0, <2>1 DEF authorize_replication, authorize_transaction, legal_destinations
  <2> QED  BY <1>0, <2>1, <2>2, Zenon DEF OperationStep
<1>2. \A r \in DOMAIN replicas : replicas[r].operation \in NamedOperation
  <2>1. \A r \in DOMAIN replicas : replicas[r] \in ReplicaRecord
    BY MapValue DEF TypeOK
  <2> QED  BY <2>1 DEF ReplicaRecord, NamedOperation
<1>3. ASSUME NEW r \in DOMAIN replicas,
             \/ record_transfer_completion(r, replicas[r].operation, "MATCH")
             \/ verify_replica(r, replicas[r].operation, "MATCH", "COMPATIBLE")
             \/ retire_replica(r) \/ revalidate_replica(r, TRUE)
      PROVE  ReplicaStep
  BY <1>0, <1>2, <1>3, PlannerAssumption, Zenon DEF ReplicaStep
<1>4. ASSUME NEW o \in DOMAIN operations, commit_operation(o, FALSE) \/ cancel_operation(o)
      PROVE  OperationStep
  BY <1>0, <1>4, Zenon DEF OperationStep
<1>5. ASSUME NEW c \in DOMAIN clusters, register_cluster(c, TRUE) \/ mark_cluster_unreachable(c)
      PROVE  ClusterStep
  BY <1>0, <1>5, Zenon DEF ClusterStep
<1>6. Next
  BY <1>1, <1>3, <1>4, <1>5, Zenon DEF PlannedStep, Next
<1>7. HostedStep
  BY Zenon DEF PlannedStep, HostedStep, authorize_planned
<1> QED  BY <1>6, <1>7

\* The fabric from a state it can be in, when every authorization is the planner's.
PlannedRuns == AuthorityInv /\ TransactionInv /\ HostInv /\ [][PlannedStep]_vars

\* Under the planner the invariants of the fabric keep holding, no cluster hosts two
\* committed replicas of a generation, and the destination of an operation that may still
\* commit stays free.
THEOREM HostsInductive == PlannedRuns => [](AuthorityInv /\ TransactionInv /\ HostInv)
<1>1. AuthorityInv /\ TransactionInv /\ HostInv /\ [PlannedStep]_vars
        => AuthorityInv' /\ TransactionInv' /\ HostInv'
  BY PlannedIsStep, HostStep, Zenon DEF AuthorityInv
<1> QED  BY <1>1, PTL DEF PlannedRuns

\* Two operations that were given one destination never both come to count, with restarts,
\* losses and returns of clusters and revalidations in any order between their steps: the
\* commit of the first outdates the second (src/fabric_ops.cpp, commit_operation's set
\* generation).
THEOREM PlannedHostsAreDistinct == PlannedRuns => []NoDuplicateHost
<1>1. AuthorityInv /\ HostInv => NoDuplicateHost
  BY DEF HostInv, OneStanding, Standing, NoDuplicateHost, authoritative_members,
         replicas_of_state, replica_counts_toward_replication_factor, is_terminal
<1> QED  BY <1>1, HostsInductive, PTL
=============================================================================
