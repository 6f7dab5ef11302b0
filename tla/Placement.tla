------------------------------ MODULE Placement ------------------------------
(***************************************************************************)
(* Deterministic placement (src/placement.cpp): the hard constraints that  *)
(* a candidate cluster must meet, the weighted score of those that do, and *)
(* the choice among them.                                                  *)
(*                                                                         *)
(* A request is a record: the policy (constraints, weights), the           *)
(* replication policy (destination rules, required diversity), the state   *)
(* generation, the locations already in the replica set (members, one      *)
(* entry per authoritative replica), the tick and the candidates.          *)
(***************************************************************************)
EXTENDS Cost, FiniteSets, Sequences, Functions

CONSTANTS FixedOne,                                      \* kFixedOne
          ReuseCap, CostCap, BandwidthCap, DurationCap   \* normalization caps

ASSUME PlacementAssumption ==
  /\ FixedOne \in Nat \ {0}
  /\ {ReuseCap, CostCap, BandwidthCap, DurationCap} \subseteq Nat \ {0}

RankingFactor ==
  {"expected_reuse_value", "transfer_cost", "reconstruction_cost", "available_bandwidth",
   "predicted_transfer_duration", "storage_cost", "compute_cost", "region_affinity",
   "workload_affinity", "existing_replica_proximity", "failure_domain_diversity",
   "expected_future_demand", "source_health", "destination_health", "pressure", "utilization"}
RankingWeights == [RankingFactor -> Int64]

Durability == <<"UNKNOWN", "VOLATILE", "EPHEMERAL", "STANDARD", "DURABLE", "ARCHIVAL">>
AtMost(class, bound) ==
  \E i, j \in DOMAIN Durability : Durability[i] = class /\ Durability[j] = bound /\ i <= j

free_logical_bytes(cluster) == IF cluster.used >= cluster.total THEN 0 ELSE cluster.total - cluster.used
has_room_for(cluster, bytes) == free_logical_bytes(cluster) >= bytes

Least(S) == CHOOSE x \in S : \A y \in S : x <= y

NoCluster == 0    \* clusters are positive numbers

\* Diversity: the values one attribute of the location takes among the members.
Values(request, attribute) == {m[attribute] : m \in Range(request.members)}
Attribute == {"cluster", "region", "failure_domain"}

-----------------------------------------------------------------------------
(* Hard constraints: <<name, whether the candidate fails it>>, in order.   *)

EligibilityConstraints(c, request) ==
  LET policy == request.constraints
      rules == request.destination_rules
  IN  << <<"state_known", ~request.state.registered>>,
         <<"cluster_identity", c.cluster = NoCluster>>,
         <<"cluster_incarnation", ~c.live>>,
         <<"prohibited_cluster", c.cluster \in policy.prohibited_clusters>>,
         <<"legal_cluster", policy.legal_clusters # {} /\ c.cluster \notin policy.legal_clusters>>,
         <<"legal_region", policy.legal_regions # {} /\ c.region \notin policy.legal_regions>>,
         <<"prohibited_region", c.region \in policy.prohibited_regions>>,
         <<"required_locality", policy.require_locality /\ c.cluster \notin policy.locality_clusters>>,
         <<"destination_denied", c.cluster \in rules.denied_clusters>>,
         <<"destination_not_allowed",
           rules.allowed_clusters # {} /\ c.cluster \notin rules.allowed_clusters>>,
         <<"duplicate_destination", c.already_hosts_current_replica /\ ~rules.allow_same_cluster>>,
         <<"destination_health", /\ rules.require_healthy_destination
                                 /\ c.health \in {"UNREACHABLE", "FAILED", "UNKNOWN"}>>,
         <<"required_health", policy.required_health = "HEALTHY" /\ c.health # "HEALTHY">> >>

EvidenceConstraints(c, request) ==
  LET policy == request.constraints
  IN  << <<"required_capability", ~(policy.required_capabilities \subseteq c.tags)>>,
         <<"required_storage_class",
           ~(policy.required_storage_classes \subseteq Range(c.storage_classes))>>,
         <<"required_sovereignty_tag", ~(policy.required_sovereignty_tags \subseteq c.tags)>>,
         <<"required_encryption", policy.require_encryption_at_rest /\ ~c.encryption_at_rest>>,
         <<"required_attestation", policy.require_attestation /\ ~c.attestation>>,
         <<"compatibility", /\ policy.require_compatibility_verification
                            /\ c.compatibility # "COMPATIBLE">>,
         <<"integrity_evidence", /\ policy.require_integrity_verification
                                 /\ ~c.integrity_evidence_available>>,
         <<"minimum_durability",
           /\ policy.minimum_durability # "UNKNOWN"
           /\ c.achievable_durability \notin {"DURABLE", "ARCHIVAL"}
           /\ ~(AtMost(policy.minimum_durability, "STANDARD")
                /\ c.achievable_durability = "STANDARD")>>,
         <<"capacity", \/ /\ policy.required_free_capacity.known
                          /\ ~has_room_for(c, policy.required_free_capacity.bytes)
                       \/ /\ c.logical_size.known /\ c.total > 0
                          /\ ~has_room_for(c, c.logical_size.bytes)>>,
         <<"evidence_freshness",
           /\ policy.maximum_evidence_staleness_ticks # 0
           /\ \/ ~c.evidence.present \/ c.evidence.revalidation_required
              \/ request.now - c.evidence.published_at > policy.maximum_evidence_staleness_ticks>> >>

\* A floor rejects a candidate that adds nothing new while the replica set
\* has fewer members than the floor asks different values for.
BelowFloor(c, request, attribute) ==
  /\ Len(request.members) < request.constraints.minimum_diversity[attribute]
  /\ c[attribute] \in Values(request, attribute)

AboveCeiling(c, request) ==
  /\ known(request.constraints.maximum_transfer_cost)
  /\ \/ ~known(c.transfer_cost)
     \/ cost_compare(c.transfer_cost, request.constraints.maximum_transfer_cost) > 0

SetConstraints(c, request) ==
  << <<"cluster_diversity", BelowFloor(c, request, "cluster")>>,
     <<"region_diversity", BelowFloor(c, request, "region")>>,
     <<"failure_domain_diversity", BelowFloor(c, request, "failure_domain")>>,
     <<"maximum_transfer_cost", AboveCeiling(c, request)>> >>

\* The first constraint that rejects the candidate, or "none".
evaluate_hard_constraints(c, request) ==
  LET all == EligibilityConstraints(c, request) \o EvidenceConstraints(c, request)
             \o SetConstraints(c, request)
      failed == {i \in DOMAIN all : all[i][2]}
  IN  IF failed = {} THEN "none" ELSE all[Least(failed)][1]

-----------------------------------------------------------------------------
(* Scores                                                                  *)

normalize_u64(value, cap) == IF value >= cap THEN FixedOne ELSE (value * FixedOne) \div cap

\* Negating the least int64_t is undefined; no price computed here is it, and none quoted.
normalize_cost(cost) ==
  IF Magnitude(cost.micro_units) >= CostCap
    THEN FixedOne
    ELSE (Magnitude(cost.micro_units) * FixedOne) \div CostCap

health_score(health) == CASE health = "HEALTHY"  -> FixedOne
                          [] health = "DEGRADED" -> FixedOne \div 2
                          [] health = "DRAINING" -> FixedOne \div 4
                          [] OTHER               -> 0

diversity_score(c, request, attribute) ==
  IF c[attribute] \notin Values(request, attribute) THEN FixedOne
  ELSE IF Len(request.members) >= request.required_diversity[attribute]
         THEN FixedOne \div 4
         ELSE 0

CappedAt(value, cap) == IF value > cap THEN cap ELSE value
Idle(per_mille) == FixedOne - (CappedAt(per_mille, 1000) * FixedOne) \div 1000

Known(value) == [unknown |-> FALSE, normalized |-> value]
Unknown == [unknown |-> TRUE, normalized |-> 0]
CostFactor(cost) == IF known(cost) THEN Known(normalize_cost(cost)) ELSE Unknown
ReuseFactor(reuse) == Known(normalize_u64(expected_value_milli(reuse), ReuseCap))

\* The sixteen factors, in their fixed order: <<name, input>>.
FactorInputs(c, request) ==
  << <<"expected_reuse_value",
       IF known(c.expected_reuse) THEN ReuseFactor(c.expected_reuse)
       ELSE IF known(request.state.expected_reuse) THEN ReuseFactor(request.state.expected_reuse)
       ELSE Unknown>>,
     <<"transfer_cost", CostFactor(c.transfer_cost)>>,
     <<"reconstruction_cost", CostFactor(c.reconstruction_cost)>>,
     <<"available_bandwidth", Known(normalize_u64(c.inbound, BandwidthCap))>>,
     <<"predicted_transfer_duration",
       Known(normalize_u64(c.predicted_transfer_ticks, DurationCap))>>,
     <<"storage_cost", CostFactor(c.storage_cost)>>,
     <<"compute_cost", CostFactor(c.compute_cost)>>,
     <<"region_affinity", Known(CappedAt(c.region_affinity, FixedOne))>>,
     <<"workload_affinity", Known(CappedAt(c.affinity_score, FixedOne))>>,
     <<"existing_replica_proximity",
       Known(IF c.existing_replica_count > 0 THEN FixedOne ELSE 0)>>,
     <<"failure_domain_diversity",
       Known(Least({diversity_score(c, request, a) : a \in Attribute}))>>,
     <<"expected_future_demand", Known(CappedAt(c.expected_future_demand, FixedOne))>>,
     <<"source_health", Known(IF c.source_cluster_healthy THEN FixedOne ELSE 0)>>,
     <<"destination_health", Known(health_score(c.health))>>,
     <<"pressure", Known(Idle(c.utilization))>>,
     <<"utilization", Known(Idle(c.in_flight_operations))>> >>

\* Faulty variant: an unknown factor is scored as zero whatever the sign of its weight.
UnknownIsZero(weight, input) == input.normalized

\* An unknown factor takes the worst value the sign of its weight allows.
normalized_value(weight, input) ==
  IF ~input.unknown THEN input.normalized ELSE IF weight >= 0 THEN 0 ELSE FixedOne

contribution(build, weight, input) ==
  saturating_mul(build, weight, normalized_value(weight, input))

\* The totals of the contributions up to each factor.
RunningTotals(contributions) ==
  LET total[i \in 0 .. Len(contributions)] ==
        IF i = 0 THEN 0 ELSE saturating_add(total[i - 1], contributions[i])
  IN  total

score_candidate(build, c, request) ==
  LET inputs == FactorInputs(c, request)
      contributions == [i \in 1 .. Len(inputs) |->
                          contribution(build, request.weights[inputs[i][1]], inputs[i][2])]
  IN  [cluster   |-> c.cluster,
       score     |-> RunningTotals(contributions)[Len(inputs)],
       diversity |-> inputs[11][2].normalized,
       affinity  |-> inputs[8][2].normalized]

-----------------------------------------------------------------------------
(* The choice                                                              *)

\* Faulty variant: the tie is not broken by the cluster identity.
BeforeUnlessTied(a, b) ==
  \/ a.score > b.score
  \/ a.score = b.score /\ a.diversity > b.diversity
  \/ a.score = b.score /\ a.diversity = b.diversity /\ a.affinity > b.affinity

\* The order in which candidates are ranked.
Before(a, b) ==
  IF a.score # b.score THEN a.score > b.score
  ELSE IF a.diversity # b.diversity THEN a.diversity > b.diversity
  ELSE IF a.affinity # b.affinity THEN a.affinity > b.affinity
  ELSE a.cluster < b.cluster

\* The front of the accepted candidates once sorted; candidates that no
\* comparison separates keep the order of the request.
evaluate_placement(build, request) ==
  LET offered == request.candidates
      rejection == [i \in DOMAIN offered |-> evaluate_hard_constraints(offered[i], request)]
      accepted == {i \in DOMAIN offered : rejection[i] = "none"}
      ranked == [i \in accepted |-> score_candidate(build, offered[i], request)]
      best == Least({i \in accepted : \A j \in accepted : ~Before(ranked[j], ranked[i])})
      choice == IF accepted = {} THEN [cluster |-> NoCluster, score |-> 0] ELSE ranked[best]
  IN  [rejected |-> {<<offered[i].cluster, rejection[i]>> : i \in DOMAIN offered \ accepted},
       decision |-> IF accepted = {} THEN "REJECT" ELSE request.intent,
       chosen   |-> choice.cluster,
       score    |-> choice.score]
=============================================================================
