---------------------------- MODULE ControlPlane ----------------------------
(***************************************************************************)
(* The in-memory control plane of one coordinator: the maps of             *)
(* detail::ControlPlane and the pure helpers every mutation is built from. *)
(* A map holds exactly the registered identities, so "find returns         *)
(* nullptr" is "not in the DOMAIN".                                        *)
(*                                                                         *)
(* Abstractions.  Zero is the invalid identity, as in ids.hpp.  A cluster  *)
(* incarnation stands for the pair (incarnation, worker boot): a boot only *)
(* changes together with the incarnation.  Commit, transfer and            *)
(* verification identities only decide whether a repeated request is       *)
(* answered OK or refused; neither changes the plane, so a repeated        *)
(* request is a stuttering step.  The same holds for a request that names  *)
(* a superseded epoch, incarnation, boot or generation.  The lifecycle     *)
(* RESERVED stands for PLANNED, RESERVED and STAGING, which the code       *)
(* never tells apart.  Digests, sizes, prices, health and timestamps are   *)
(* the nondeterministic inputs that decide between the branches they       *)
(* select.  The policies are the default ones (make_replication_policy).   *)
(***************************************************************************)
EXTENDS Integers, FiniteSets

CONSTANTS
  StateId,              \* state identities
  Generation,           \* state generations
  Lineage,              \* lineage identities
  Cluster,              \* cluster identities
  ReplicaId,            \* replica identities, minted in increasing order
  OperationId,          \* operation identities, minted in increasing order
  MaxReplicasPerState,  \* retention.maximum_replicas_per_state
  MaxInFlight,          \* destination_rules.maximum_in_flight_operations_per_state
  MaxSetGeneration,     \* bound on the replica set generation counter
  MaxIncarnation,       \* bound on the incarnations of one cluster
  MaxEpoch              \* bound on the coordinator epoch

\* Identities are minted from one monotone counter that starts above zero.
ASSUME MintedIds == /\ ReplicaId \subseteq Nat \ {0}
                    /\ OperationId \subseteq Nat \ {0}

ASSUME Bounds == /\ MaxReplicasPerState \in Nat
                 /\ MaxInFlight \in Nat
                 /\ MaxSetGeneration \in Nat
                 /\ MaxIncarnation \in Nat
                 /\ MaxEpoch \in Nat

VARIABLES
  states,      \* StateKey -> state generation record
  sets,        \* StateKey -> replica set record
  clusters,    \* Cluster -> cluster record
  replicas,    \* ReplicaId -> replica record
  operations,  \* OperationId -> operation record
  ownership,   \* StateKey -> the active owner replica
  epoch,       \* coordinator_epoch
  boot_epoch   \* the epoch this coordinator process started with

vars == <<states, sets, clusters, replicas, operations, ownership, epoch, boot_epoch>>

-----------------------------------------------------------------------------
(* Records *)

StateKey == StateId \X Generation
IdOf(k) == k[1]

StateRecord == [lifecycle: {"STAGED", "CURRENT", "HISTORICAL"},
                lineage: Lineage, branch: BOOLEAN, single_owner: BOOLEAN]

SetRecord == [generation: Nat, retiring: BOOLEAN, revalidation_required: BOOLEAN]

ClusterRecord == [incarnation: Nat, live_authority: BOOLEAN, evidence_present: BOOLEAN,
                  lifecycle: {"ACTIVE", "SUSPECT", "UNREACHABLE", "REINCARNATED", "RETIRED"},
                  last_evidence_epoch: Nat]

ReplicaLifecycle ==
  {"RESERVED", "TRANSFERRING", "TRANSFERRED", "VERIFYING", "PREPARED", "AUTHORITATIVE",
   "DEGRADED", "STALE", "REVALIDATION_REQUIRED", "SUPERSEDED", "QUARANTINED", "CORRUPT",
   "RETIRED", "ABANDONED"}

ReplicaRecord ==
  [key: StateKey, cluster: Cluster, incarnation: Nat, operation: OperationId \cup {0},
   lifecycle: ReplicaLifecycle,
   integrity: {"UNKNOWN", "UNVERIFIED", "VERIFIED", "MISMATCH"},
   compatibility: {"UNKNOWN", "INCOMPATIBLE", "COMPATIBLE", "REVALIDATION_REQUIRED"},
   authority: {"NONE", "HISTORICAL", "CANDIDATE", "AUTHORITATIVE_FOR_REUSE",
               "AUTHORITATIVE_OWNER", "FENCED"},
   absent: BOOLEAN, commit_recorded: BOOLEAN, counts_toward_factor: BOOLEAN,
   revalidation_required: BOOLEAN, evidence_epoch: Nat]

OperationState ==
  {"RESERVED", "TRANSFERRING", "TRANSFERRED", "VERIFYING", "PREPARED", "COMMITTED",
   "ADDED_TO_REPLICA_SET", "SOURCE_RETIRING", "OUTCOME_UNKNOWN", "COMPLETE", "FAILED",
   "ABANDONED", "CANCELLED"}

OperationRecord ==
  [kind: {"REPLICATION", "MIGRATION"}, state: OperationState, key: StateKey,
   source: ReplicaId, destination: ReplicaId, set_generation: Nat, destructive_move: BOOLEAN,
   destination_committed: BOOLEAN, source_retired: BOOLEAN, planned_epoch: Nat]

IsMap(f, K, V) == DOMAIN f \subseteq K /\ f \in [DOMAIN f -> V]

\* Every map is keyed by its identities and holds records of its type, and a replica set
\* exists for exactly the registered generations.
TypeOK == /\ IsMap(states, StateKey, StateRecord)
          /\ IsMap(sets, StateKey, SetRecord)
          /\ IsMap(clusters, Cluster, ClusterRecord)
          /\ IsMap(replicas, ReplicaId, ReplicaRecord)
          /\ IsMap(operations, OperationId, OperationRecord)
          /\ IsMap(ownership, StateKey, ReplicaId)
          /\ DOMAIN sets = DOMAIN states
          /\ epoch \in Nat /\ boot_epoch \in Nat

-----------------------------------------------------------------------------
(* Effects: ControlPlane::apply puts a whole record under its identity *)

Put(f, k, v) == [x \in DOMAIN f \cup {k} |-> IF x = k THEN v ELSE f[x]]

\* The next identity the counter mints out of Ids.
Minted(f, Ids, x) == x \in Ids \ DOMAIN f /\ \A y \in Ids : y < x => y \in DOMAIN f

\* Faulty variants: the set is rewritten at its generation; the generation runs backwards.
AdvanceNothing(K) == sets

AdvanceBackwards(K) ==
  [k \in DOMAIN sets |-> IF k \in K THEN [sets[k] EXCEPT !.generation = @ - 1] ELSE sets[k]]

\* bump_replica_set_effect with advance_generation, for every key of K.
Advance(K) == [k \in DOMAIN sets |->
                 IF k \in K THEN [sets[k] EXCEPT !.generation = @ + 1] ELSE sets[k]]
CanAdvance(K) == \A k \in K \cap DOMAIN sets : sets[k].generation < MaxSetGeneration

-----------------------------------------------------------------------------
(* Replicas *)

is_terminal(x) == x.lifecycle \in {"RETIRED", "ABANDONED"}

replicas_of_state(k) == {r \in DOMAIN replicas : replicas[r].key = k}

replica_counts_toward_replication_factor(x) ==
  /\ x.commit_recorded /\ x.counts_toward_factor
  /\ x.integrity = "VERIFIED"
  /\ x.compatibility = "COMPATIBLE"
  /\ x.lifecycle \in {"AUTHORITATIVE", "DEGRADED"}

\* The authoritative members rebuild_replica_set derives for the key.
authoritative_members(k) ==
  {r \in replicas_of_state(k) : replica_counts_toward_replication_factor(replicas[r])}

\* The cluster that hosts the record still holds live authority at the record's incarnation.
HostIsLive(x) == /\ x.cluster \in DOMAIN clusters
                 /\ clusters[x.cluster].live_authority
                 /\ clusters[x.cluster].incarnation = x.incarnation

cluster_evidence_is_current(c) == clusters[c].evidence_present /\ clusters[c].live_authority

\* assess_replica_authority under the default reuse rules, as the conjunction of the
\* conditions whose failure denies authority.
authoritative_for_reuse(r) ==
  LET x == replicas[r] IN
  /\ x.lifecycle \in {"AUTHORITATIVE", "DEGRADED"}
  /\ x.authority # "FENCED"
  /\ HostIsLive(x)
  /\ ~x.revalidation_required
  /\ ~x.absent
  /\ x.key \in DOMAIN states /\ states[x.key].lifecycle = "CURRENT"
  /\ x.integrity = "VERIFIED"
  /\ x.compatibility = "COMPATIBLE"
  /\ x.commit_recorded /\ x.counts_toward_factor
  /\ cluster_evidence_is_current(x.cluster)

\* The health rebuild_replica_set and recompute_replica_set derive for the set, as far as
\* the membership and the two sticky flags decide it.
replica_set_state(k) ==
  IF sets[k].retiring THEN "RETIRING"
  ELSE IF authoritative_members(k) = {} THEN "NO_AUTHORITATIVE_REPLICA"
  ELSE IF sets[k].revalidation_required THEN "REVALIDATION_REQUIRED"
  ELSE "COUNTED"

\* What retirement, abandonment and quarantine do to a replica record.
Retired(x) == [x EXCEPT !.lifecycle = "RETIRED", !.authority = "HISTORICAL",
                        !.counts_toward_factor = FALSE, !.absent = TRUE]

Abandoned(x) == [x EXCEPT !.lifecycle = "ABANDONED", !.authority = "NONE",
                          !.counts_toward_factor = FALSE, !.absent = TRUE]

Quarantined(x) == [x EXCEPT !.lifecycle = "QUARANTINED", !.authority = "FENCED",
                            !.counts_toward_factor = FALSE]

-----------------------------------------------------------------------------
(* Operations *)

OperationIsTerminal(op) == op.state \in {"COMPLETE", "FAILED", "ABANDONED", "CANCELLED"}

InFlight(s) == {o \in DOMAIN operations : /\ IdOf(operations[o].key) = s
                                          /\ ~OperationIsTerminal(operations[o])}

operation_capacity_available(s) == Cardinality(InFlight(s)) < MaxInFlight

-----------------------------------------------------------------------------
\* A store that was never written: no record, and initialize() advances the epoch once.
Init == /\ states = << >> /\ sets = << >> /\ clusters = << >>
        /\ replicas = << >> /\ operations = << >> /\ ownership = << >>
        /\ epoch = 2 /\ boot_epoch = 2
=============================================================================
