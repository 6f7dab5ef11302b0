----------------------------- MODULE MCPlanning -----------------------------
(***************************************************************************)
(* Finite plans: a state with one authoritative replica on cluster 1,      *)
(* clusters in two regions, and questions over 8-bit prices.               *)
(***************************************************************************)
EXTENDS Planning, TLC

CONSTANTS s1, l1, Far    \* Far: the cluster in the other region

TheKey == <<s1, 1>>
NoSpec == {}

\* What a cluster registers and publishes.
ClusterFacts ==
  [c \in 1 .. 4 |->
     [region |-> IF c = Far THEN "r2" ELSE "r1", failure_domain |-> c,
      health |-> "HEALTHY", tags |-> {}, storage_classes |-> <<"nvme">>,
      accelerators |-> <<>>, platform |-> "linux", compat_tags |-> << <<"abi", "v1">> >>,
      encryption_at_rest |-> TRUE, attestation |-> FALSE,
      total |-> 64, used |-> 8 * c, inbound |-> c, utilization |-> 0]]

TheState == [logical_size |-> Size(8), registered_size |-> Size(4),
             expected_reuse |-> NoReuse, durability |-> "DURABLE",
             required |-> [key \in {"abi", "storage"} |-> IF key = "abi" THEN "v1" ELSE Wildcard],
             reconstruction_cost |-> unknown]

Constraints(regions) ==
  [legal_clusters |-> {}, legal_regions |-> {}, prohibited_clusters |-> {},
   prohibited_regions |-> {}, required_capabilities |-> {}, required_storage_classes |-> {"nvme"},
   required_sovereignty_tags |-> {}, require_locality |-> FALSE, locality_clusters |-> {},
   minimum_diversity |-> [a \in Attribute |-> IF a = "region" THEN regions ELSE 0],
   minimum_durability |-> "STANDARD", required_health |-> "UNKNOWN",
   maximum_evidence_staleness_ticks |-> 0, required_free_capacity |-> NoSize,
   maximum_transfer_cost |-> Price("POLICY", 9),
   require_encryption_at_rest |-> TRUE, require_attestation |-> FALSE,
   require_integrity_verification |-> TRUE, require_compatibility_verification |-> TRUE]

Rules == [allowed_clusters |-> {}, denied_clusters |-> {},
          allow_same_cluster |-> FALSE, require_healthy_destination |-> TRUE]

\* The weights of the factors, zero where none is given.
Weights(given) == given @@ [f \in RankingFactor |-> 0]

Request(regions, weights) ==
  [constraints |-> Constraints(regions), weights |-> weights, destination_rules |-> Rules,
   required_diversity |-> [a \in Attribute |-> IF a = "region" THEN regions ELSE 0]]

\* Two regions are asked for; bandwidth attracts, operations in flight repel.
ThePolicy == Request(2, Weights("available_bandwidth" :> 2 @@ "utilization" :> 1))
ThePrices == [source |-> "POLICY", transfer |-> 4, storage |-> 1, compute |-> 2]

-----------------------------------------------------------------------------
(* Questions                                                               *)

SomeQuotes == {unknown, Price("POLICY", 2), Price("POLICY", 100)}
SomeAmounts == {unknown, Price("POLICY", 2), Price("MEASURED", 2), Price("POLICY", -3),
                Price("POLICY", 100)}
Reused == [source |-> "MEASURED", count |-> 2, per_mille |-> 2]
SomeReuses == {NoReuse, Reused}

\* The first cluster of a plan, and another one that nothing but its price tells from it.
Offered(c) ==
  [cluster |-> c, live |-> TRUE,
   evidence |-> [present |-> TRUE, revalidation_required |-> FALSE, published_at |-> 0],
   logical_size |-> NoSize, expected_reuse |-> NoReuse, achievable_durability |-> "DURABLE",
   compatibility |-> "COMPATIBLE", integrity_evidence_available |-> TRUE,
   transfer_cost |-> Price("POLICY", 2), storage_cost |-> unknown, compute_cost |-> unknown,
   reconstruction_cost |-> unknown, predicted_transfer_ticks |-> 0,
   source_cluster_healthy |-> TRUE, existing_replica_count |-> 0,
   already_hosts_current_replica |-> FALSE, in_flight_operations |-> 0,
   affinity_score |-> 0, region_affinity |-> 0, expected_future_demand |-> 0]
  @@ [ClusterFacts[1] EXCEPT !.inbound = 0]

SomeWeights ==
  {Weights("transfer_cost" :> -2 @@ "storage_cost" :> -1 @@ "expected_reuse_value" :> 1),
   Weights("transfer_cost" :> 1 @@ "storage_cost" :> 0 @@ "expected_reuse_value" :> -3),
   Weights("transfer_cost" :> -2 @@ "storage_cost" :> -40 @@ "expected_reuse_value" :> -1)}

Evaluations ==
  {[kind |-> "evaluate", build |-> build,
    request |-> Request(0, weights) @@
                [state |-> [registered |-> TRUE, expected_reuse |-> NoReuse],
                 intent |-> "REPLICATE", now |-> 0, members |-> <<>>,
                 candidates |-> <<Offered(1), Offered(2)>>]] :
     build \in Build, weights \in SomeWeights}

Decisions ==
  {[kind |-> "economics",
    inputs |-> [destination_healthy |-> TRUE, source_healthy |-> TRUE,
                destination_capacity_sufficient |-> TRUE, reconstruction_available |-> both,
                maximum_transfer_ticks |-> 3, predicted_transfer_ticks |-> ticks,
                expected_reuse |-> Reused,
                transfer_cost |-> unknown, egress_cost |-> unknown,
                reconstruction_cost |-> unknown, compute_cost |-> unknown]] :
     both \in BOOLEAN, ticks \in {3, 4}}

Pricings == {[kind |-> "price", source |-> source, unit |-> unit, size |-> NoSize] :
               source \in {"UNKNOWN", "POLICY"}, unit \in {-128, -127, -5, 0, 1, 3, 64, 127}}

\* Counts on both sides of the one from which the headroom of a diverse form wraps.
Policies == {[kind |-> "policy", requirements |-> make_replication_policy(form, count)] :
               form \in Form, count \in {0, 3} \cup CountRange - 3 .. CountRange - 1}

NoQuestion == [kind |-> "none"]
NoFabric == /\ states = << >> /\ sets = << >> /\ clusters = << >> /\ replicas = << >>
            /\ operations = << >> /\ ownership = << >> /\ epoch = 2 /\ boot_epoch = 2

\* The plane after the source was registered, transferred, verified and committed, and some
\* clusters were retired.
SeededPlane(retired) ==
  /\ states = TheKey :> [lifecycle |-> "CURRENT", lineage |-> l1, branch |-> FALSE,
                         single_owner |-> FALSE]
  /\ sets = TheKey :> [generation |-> 2, retiring |-> FALSE, revalidation_required |-> FALSE]
  /\ clusters = [c \in Cluster |->
       [incarnation |-> 1, last_evidence_epoch |-> 2,
        live_authority |-> c \notin retired, evidence_present |-> c \notin retired,
        lifecycle |-> IF c \in retired THEN "RETIRED" ELSE "ACTIVE"]]
  /\ replicas = 1 :>
       [key |-> TheKey, cluster |-> 1, incarnation |-> 1, operation |-> 0,
        lifecycle |-> "AUTHORITATIVE", integrity |-> "VERIFIED",
        compatibility |-> "COMPATIBLE", authority |-> "AUTHORITATIVE_FOR_REUSE",
        absent |-> FALSE, commit_recorded |-> TRUE, counts_toward_factor |-> TRUE,
        revalidation_required |-> FALSE, evidence_epoch |-> 2]
  /\ operations = << >> /\ ownership = << >> /\ epoch = 2 /\ boot_epoch = 2

PlannerInit == Asks(NoQuestion) /\ \E retired \in {{}, {2}} : SeededPlane(retired)
PlanningInit == \/ PlannerInit
                \/ NoFabric /\ \E q \in Evaluations \cup Decisions \cup Pricings \cup Policies : Asks(q)

PlannerSpec == PlannerInit /\ [][PlannedStep /\ UNCHANGED questions]_<<vars, questions>>
PlanningSpec == PlanningInit /\ [][PlanningNext]_<<vars, questions>>
=============================================================================
