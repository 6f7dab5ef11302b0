------------------------------- MODULE Planner -------------------------------
(***************************************************************************)
(* The planner over the control plane (src/fabric_ops.cpp): the evidence   *)
(* view of every cluster, the plan made from it, and the authorization of  *)
(* the destination it chooses.  Published facts about a cluster and about  *)
(* the state are constants here; hosting, liveness, membership and         *)
(* operations in flight are the control plane's.                           *)
(***************************************************************************)
EXTENDS Fabric, Placement, Compatibility

CONSTANTS
  Facts,       \* cluster -> what its registration and evidence say of it
  StateFacts,  \* sizes, prices and requirements of the state generation
  Policy,      \* the placement and replication policies of every request
  Prices,      \* the default policy's unit prices
  TheBuild     \* the member of Build that runs

ASSUME PlannerAssumption == /\ Cluster \subseteq Nat \ {NoCluster}
                            /\ Cluster \subseteq DOMAIN Facts
                            /\ IsFiniteSet(Cluster) /\ IsFiniteSet(ReplicaId)
                            /\ IsFiniteSet(OperationId)    \* identities have 64 bits
                            /\ \A c \in Cluster : /\ Facts[c].inbound \in Nat
                                                  /\ Facts[c].utilization \in Nat
                            /\ StateFacts.logical_size \in SizeValue
                            /\ StateFacts.registered_size \in SizeValue
                            /\ StateFacts.expected_reuse \in ReuseValue
                            /\ StateFacts.reconstruction_cost \in CostValue
                            /\ StateFacts.reconstruction_cost.micro_units # MinInt
                            /\ Prices \in [source: CostSource, transfer: Int64,
                                           storage: Int64, compute: Int64]
                            /\ Policy.weights \in RankingWeights
                            /\ TheBuild \in Build
                            /\ "MATCH" \in DigestInput
                            /\ "COMPATIBLE" \in CompatibilityInput

Located(c) == [cluster |-> c, region |-> Facts[c].region,
               failure_domain |-> Facts[c].failure_domain]

\* What the fabric's own steps leave as the health of a cluster.
HealthOf(c) == CASE clusters[c].lifecycle = "UNREACHABLE" -> "UNREACHABLE"
                 [] clusters[c].lifecycle = "RETIRED"     -> "FAILED"
                 [] OTHER                                 -> Facts[c].health

achievable_durability(class) == IF class \in {"DURABLE", "ARCHIVAL"} THEN class ELSE "STANDARD"

\* The replicas of the state identity in a cluster that are not terminal.
ReplicasIn(k, c) == {r \in DOMAIN replicas : /\ IdOf(replicas[r].key) = IdOf(k)
                                             /\ replicas[r].cluster = c
                                             /\ ~is_terminal(replicas[r])}

\* Faulty variant: only a replica that still counts is seen.
HostsCounted(k, c) == \E r \in authoritative_members(k) : replicas[r].cluster = c

\* A committed replica of the generation, counted or fenced.
already_hosts_current_replica(k, c) ==
  \E r \in ReplicasIn(k, c) : replicas[r].commit_recorded /\ replicas[r].key = k

\* The size a replica's record states: its registration's, when one was given, or the state's.
ReplicaSize(r) ==
  IF replicas[r].operation = 0 /\ StateFacts.registered_size.known
    THEN StateFacts.registered_size ELSE StateFacts.logical_size

\* The sum is a uint64_t and wraps.
predicted_transfer_ticks(bytes, inbound) ==
  IF inbound > 0 /\ bytes.known
    THEN ((bytes.bytes + inbound - 1) % (MaxUint + 1)) \div inbound ELSE 0

\* The evidence view of cluster c; source is the replica the transfer reads, or 0 for none.
build_candidate(k, c, source) ==
  LET size == StateFacts.logical_size
      transfer_bytes == IF source # 0 THEN ReplicaSize(source) ELSE size
      PriceOf(unit) == price_bytes(Prices.source, unit, size)
      facts == Facts[c]
  IN  [cluster |-> c, region |-> facts.region, failure_domain |-> facts.failure_domain,
       tags |-> facts.tags, storage_classes |-> facts.storage_classes,
       encryption_at_rest |-> facts.encryption_at_rest, attestation |-> facts.attestation,
       total |-> facts.total, used |-> facts.used, inbound |-> facts.inbound,
       utilization |-> facts.utilization,
       live |-> clusters[c].live_authority,
       health |-> HealthOf(c),
       evidence |-> [present |-> clusters[c].evidence_present,
                     revalidation_required |-> ~clusters[c].evidence_present,
                     published_at |-> 0],
       logical_size |-> size,
       expected_reuse |-> StateFacts.expected_reuse,
       achievable_durability |-> achievable_durability(StateFacts.durability),
       compatibility |-> evaluate_compatibility(StateFacts.required, 1,
                           cluster_compatibility_descriptor(facts), 1, FALSE),
       integrity_evidence_available |-> source # 0 /\ replicas[source].integrity = "VERIFIED",
       transfer_cost |-> price_bytes(Prices.source, Prices.transfer, transfer_bytes),
       storage_cost |-> PriceOf(Prices.storage),
       compute_cost |-> PriceOf(Prices.compute),
       reconstruction_cost |-> IF known(StateFacts.reconstruction_cost)
                                 THEN StateFacts.reconstruction_cost
                                 ELSE PriceOf(Prices.compute),
       predicted_transfer_ticks |-> predicted_transfer_ticks(transfer_bytes, facts.inbound),
       source_cluster_healthy |-> source # 0 /\ ~replicas[source].absent,
       existing_replica_count |-> Cardinality(ReplicasIn(k, c)),
       already_hosts_current_replica |-> already_hosts_current_replica(k, c),
       in_flight_operations |->
         Cardinality({o \in DOMAIN operations :
                        /\ ~OperationIsTerminal(operations[o])
                        /\ replicas[operations[o].destination].cluster = c}),
       affinity_score |-> 0, region_affinity |-> 0, expected_future_demand |-> 0]

\* The numbers of S from the least to the greatest.
InOrder(S) == CHOOSE s \in [1 .. Cardinality(S) -> S] :
                \A i, j \in DOMAIN s : i < j => s[i] < s[j]

\* One entry per authoritative member, in the order of the replica identities.
build_request(k, candidates) ==
  LET members == InOrder(authoritative_members(k))
  IN  [constraints |-> Policy.constraints, weights |-> Policy.weights,
       destination_rules |-> Policy.destination_rules,
       required_diversity |-> Policy.required_diversity,
       state |-> [registered |-> k \in DOMAIN states,
                  expected_reuse |-> StateFacts.expected_reuse],
       intent |-> "REPLICATE", now |-> 0,
       members |-> [i \in DOMAIN members |-> Located(replicas[members[i]].cluster)],
       candidates |-> candidates]

plan_into(k, source) ==
  LET offered == InOrder({c \in DOMAIN clusters : clusters[c].lifecycle # "RETIRED"})
      candidates == [i \in DOMAIN offered |-> build_candidate(k, offered[i], source)]
  IN  evaluate_placement(TheBuild, build_request(k, candidates))

\* The sources a plan may be made for.
Sources(k) == IF source_candidates(k) = {} THEN {0} ELSE source_candidates(k)

-----------------------------------------------------------------------------
(* The control plane when every authorization is the planner's: replicas   *)
(* join by operations only, clusters are lost and come back, replicas are  *)
(* retired, or revalidated by the cluster that came back, and the          *)
(* coordinator crashes and restarts.                                       *)

authorize_planned(o, r, k, source) ==
  /\ Minted(operations, OperationId, o) /\ Minted(replicas, ReplicaId, r)
  /\ source \in source_candidates(k)
  /\ LET chosen == plan_into(k, source).chosen
     IN  /\ chosen # NoCluster
         /\ authorize_replication(o, r, k, source, chosen)

PlannedStep ==
  \/ \E o \in OperationId, r, source \in ReplicaId, k \in DOMAIN states :
       authorize_planned(o, r, k, source)
  \/ \E r \in DOMAIN replicas : record_transfer_completion(r, replicas[r].operation, "MATCH")
  \/ \E r \in DOMAIN replicas : verify_replica(r, replicas[r].operation, "MATCH", "COMPATIBLE")
  \/ \E o \in DOMAIN operations : commit_operation(o, FALSE)
  \/ \E o \in DOMAIN operations : cancel_operation(o)
  \/ \E r \in DOMAIN replicas : retire_replica(r)
  \/ \E r \in DOMAIN replicas : revalidate_replica(r, TRUE)
  \/ \E c \in DOMAIN clusters : register_cluster(c, TRUE)
  \/ \E c \in DOMAIN clusters : mark_cluster_unreachable(c)
  \/ initialize

\* Every plan chooses a destination that holds live authority and has no committed replica
\* of the generation, counted or not, whatever was lost, fenced, cancelled or retired since,
\* before or after a restart.
PlanIsLegal ==
  \A k \in DOMAIN states : \A source \in Sources(k) :
    plan_into(k, source).chosen \in legal_destinations(k) \cup {NoCluster}

\* No cluster holds two counted replicas of a generation, although two operations in flight
\* may have been given the same destination, and a restart between them fences what it finds.
NoDuplicateHost ==
  \A k \in DOMAIN states : \A q, r \in authoritative_members(k) :
    replicas[q].cluster = replicas[r].cluster => q = r

-----------------------------------------------------------------------------
\* "A candidate can only satisfy a diversity floor it actually improves": a plan made while
\* the members cover fewer regions than the policy's floor chooses a new region.
RegionFloorIsImproved ==
  \A k \in DOMAIN states : \A source \in Sources(k) :
    LET chosen == plan_into(k, source).chosen
        covered == Values(build_request(k, << >>), "region")
    IN  (chosen # NoCluster /\ Cardinality(covered) < Policy.constraints.minimum_diversity["region"])
          => Facts[chosen].region \notin covered
=============================================================================
