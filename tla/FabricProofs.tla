---------------------------- MODULE FabricProofs -----------------------------
(***************************************************************************)
(* The fabric, for every value of the constants: the types of the control  *)
(* plane; authority, ownership and evidence; replica set generations,      *)
(* transactions and state generations.                                     *)
(*                                                                         *)
(* The steps of the control plane are reduced to what they do to a single  *)
(* replica record: most only weaken it, and three revisions strengthen it  *)
(* (commit, handoff, revalidation).  The invariants of authority are then  *)
(* properties of these revisions.  What joins a set advances it, an        *)
(* operation is completed only by a commit of the process that planned it, *)
(* and one generation of a lineage is current.                             *)
(***************************************************************************)
EXTENDS Fabric, TLAPS

-----------------------------------------------------------------------------
(* Maps *)

\* The map without entries is a map over any identities and records.
LEMMA EmptyMap ==
  ASSUME NEW K, NEW V
  PROVE  IsMap(<< >>, K, V) /\ DOMAIN << >> = {}
BY DEF IsMap

\* Putting a record of the type under an identity keeps the map's type.
LEMMA PutMap ==
  ASSUME NEW K, NEW V, NEW f, IsMap(f, K, V), NEW k \in K, NEW v \in V
  PROVE  /\ IsMap(Put(f, k, v), K, V)
         /\ DOMAIN Put(f, k, v) = DOMAIN f \cup {k}
         /\ Put(f, k, v)[k] = v
         /\ \A x \in DOMAIN f : x # k => Put(f, k, v)[x] = f[x]
BY Zenon DEF IsMap, Put

\* So does replacing the record of a registered identity.
LEMMA UpdateMap ==
  ASSUME NEW K, NEW V, NEW f, IsMap(f, K, V), NEW k, NEW v, k \in DOMAIN f => v \in V
  PROVE  /\ IsMap([f EXCEPT ![k] = v], K, V)
         /\ DOMAIN [f EXCEPT ![k] = v] = DOMAIN f
         /\ k \in DOMAIN f => [f EXCEPT ![k] = v][k] = v
         /\ \A x \in DOMAIN f : x # k => [f EXCEPT ![k] = v][x] = f[x]
BY Zenon DEF IsMap

\* A looked-up record has the record type of its map.
LEMMA MapValue ==
  ASSUME NEW K, NEW V, NEW f, IsMap(f, K, V), NEW k \in DOMAIN f
  PROVE  f[k] \in V /\ k \in K
BY Zenon DEF IsMap

\* An authorization mints an operation and its destination and leaves the rest alone.
LEMMA AuthorizationFrame ==
  ASSUME NEW o, NEW r, NEW k, NEW kind, NEW b, NEW source, NEW c,
         authorize_transaction(o, r, k, kind, b, source, c)
  PROVE  /\ states' = states /\ sets' = sets /\ clusters' = clusters
         /\ ownership' = ownership /\ epoch' = epoch /\ boot_epoch' = boot_epoch
BY Zenon DEF authorize_transaction

\* What the maps of a well-typed fabric hold.
LEMMA TypedRecords ==
  ASSUME TypeOK
  PROVE  /\ \A r \in DOMAIN replicas : replicas[r] \in ReplicaRecord
         /\ \A o \in DOMAIN operations : operations[o] \in OperationRecord
         /\ \A k \in DOMAIN states : states[k] \in StateRecord
         /\ \A k \in DOMAIN sets : sets[k] \in SetRecord /\ states[k] \in StateRecord
BY MapValue, Zenon DEF TypeOK

\* A generation that never moves back stays ahead of every generation it was ahead of.
LEMMA StaysAhead ==
  ASSUME NEW now \in Nat, NEW next \in Nat, NEW planned \in Nat, now >= planned, next >= now
  PROVE  /\ next >= planned
         /\ now > planned => next > planned
         /\ next > now => next > planned
OBVIOUS

\* What is no earlier than a time is not before it.
LEMMA NotBefore ==
  ASSUME NEW a \in Nat, NEW b \in Nat, a >= b
  PROVE  ~(a < b)
OBVIOUS

-----------------------------------------------------------------------------
(* Replica records *)

\* Every revision of a replica record is a replica record.
LEMMA RevisedRecord ==
  ASSUME NEW x \in ReplicaRecord, NEW b \in BOOLEAN, NEW l \in ReplicaLifecycle
  PROVE  /\ Retired(x) \in ReplicaRecord
         /\ Abandoned(x) \in ReplicaRecord
         /\ Quarantined(x) \in ReplicaRecord
         /\ Superseded(x) \in ReplicaRecord
         /\ Corrupted(x) \in ReplicaRecord
         /\ Committed(x, b) \in ReplicaRecord
         /\ Fence(x, l, b) \in ReplicaRecord
         /\ Yielded(x) \in ReplicaRecord
         /\ Promoted(x) \in ReplicaRecord
<1>1. Retired(x) \in ReplicaRecord
  BY ZenonT(60) DEF ReplicaRecord, ReplicaLifecycle, Retired
<1>2. Abandoned(x) \in ReplicaRecord
  BY ZenonT(60) DEF ReplicaRecord, ReplicaLifecycle, Abandoned
<1>3. Quarantined(x) \in ReplicaRecord
  BY ZenonT(60) DEF ReplicaRecord, ReplicaLifecycle, Quarantined
<1>4. Superseded(x) \in ReplicaRecord
  <2> DEFINE z == IF x.lifecycle \in {"AUTHORITATIVE", "DEGRADED", "REVALIDATION_REQUIRED"}
                  THEN "SUPERSEDED" ELSE x.lifecycle
  <2>1. z \in ReplicaLifecycle
    BY Zenon DEF ReplicaRecord, ReplicaLifecycle
  <2>2. Superseded(x) = [x EXCEPT !.lifecycle = z, !.authority = "HISTORICAL",
                                  !.counts_toward_factor = FALSE]
    BY Zenon DEF Superseded
  <2> HIDE DEF z
  <2> QED  BY <2>1, <2>2, Zenon DEF ReplicaRecord
<1>5. Corrupted(x) \in ReplicaRecord
  BY ZenonT(60) DEF ReplicaRecord, ReplicaLifecycle, Corrupted
<1>6. Committed(x, b) \in ReplicaRecord
  BY ZenonT(60) DEF ReplicaRecord, ReplicaLifecycle, Committed
<1>7. Fence(x, l, b) \in ReplicaRecord
  <2> DEFINE z == IF x.lifecycle \in {"AUTHORITATIVE", "DEGRADED"} THEN l ELSE x.lifecycle
  <2>1. z \in ReplicaLifecycle
    BY Zenon DEF ReplicaRecord, ReplicaLifecycle
  <2>2. Fence(x, l, b) = [x EXCEPT !.authority = "FENCED", !.counts_toward_factor = FALSE,
                                   !.absent = b, !.revalidation_required = TRUE,
                                   !.lifecycle = z]
    BY Zenon DEF Fence
  <2> HIDE DEF z
  <2> QED  BY <2>1, <2>2, Zenon DEF ReplicaRecord
<1>8. Yielded(x) \in ReplicaRecord
  BY Zenon DEF ReplicaRecord, Yielded
<1>9. Promoted(x) \in ReplicaRecord
  BY ZenonT(60) DEF ReplicaRecord, ReplicaLifecycle, Promoted
<1> QED  BY <1>1, <1>2, <1>3, <1>4, <1>5, <1>6, <1>7, <1>8, <1>9, Zenon

\* A completed transfer leaves a replica record.
LEMMA TransferredRecordType ==
  ASSUME NEW x \in ReplicaRecord, NEW digest \in {"MISSING", "MISMATCH", "MATCH"}
  PROVE  TransferredRecord(x, digest) \in ReplicaRecord
<1>1. [Corrupted(x) EXCEPT !.absent = FALSE] \in ReplicaRecord
  <2>1. Corrupted(x) \in ReplicaRecord
    BY RevisedRecord, Zenon DEF ReplicaLifecycle
  <2> QED  BY <2>1, Zenon DEF ReplicaRecord
<1>2. /\ [x EXCEPT !.integrity = "UNKNOWN", !.lifecycle = "TRANSFERRED"] \in ReplicaRecord
      /\ [x EXCEPT !.integrity = "UNVERIFIED", !.lifecycle = "TRANSFERRED",
                   !.absent = FALSE] \in ReplicaRecord
  BY ZenonT(60) DEF ReplicaRecord, ReplicaLifecycle
<1> QED  BY <1>1, <1>2, Zenon DEF TransferredRecord

\* Verification leaves a replica record, whatever the evidence.
LEMMA VerifiedRecordType ==
  ASSUME NEW x \in ReplicaRecord, epoch \in Nat,
         NEW digest \in {"MISSING", "MISMATCH", "MATCH"},
         NEW compatibility \in {"COMPATIBLE", "INCOMPATIBLE", "UNKNOWN", "REVALIDATION_REQUIRED"}
  PROVE  VerifiedRecord(x, digest, compatibility) \in ReplicaRecord
<1> DEFINE y == [x EXCEPT !.evidence_epoch = epoch]
           z == [y EXCEPT !.integrity = "VERIFIED", !.compatibility = compatibility]
<1>1. y \in ReplicaRecord
  BY Zenon DEF ReplicaRecord
<1>2. z \in ReplicaRecord
  BY <1>1, Zenon DEF ReplicaRecord
<1>3. CASE digest = "MISMATCH"
  <2>1. VerifiedRecord(x, digest, compatibility) = Corrupted(y)
    BY <1>3, Zenon DEF VerifiedRecord
  <2> HIDE DEF y
  <2> QED  BY <1>1, <2>1, RevisedRecord, Zenon DEF ReplicaLifecycle
<1>4. CASE digest = "MISSING"
  <2>1. VerifiedRecord(x, digest, compatibility)
          = [y EXCEPT !.integrity = "UNVERIFIED", !.lifecycle = "TRANSFERRED"]
    BY <1>4, Zenon DEF VerifiedRecord
  <2> HIDE DEF y
  <2> QED  BY ZenonT(60), <1>1, <2>1 DEF ReplicaRecord, ReplicaLifecycle
<1>5. CASE digest = "MATCH" /\ compatibility = "INCOMPATIBLE"
  <2>1. VerifiedRecord(x, digest, compatibility) = Quarantined(z)
    BY <1>5, Zenon DEF VerifiedRecord
  <2> HIDE DEF z
  <2> QED  BY <1>2, <2>1, RevisedRecord, Zenon DEF ReplicaLifecycle
<1>6. CASE digest = "MATCH" /\ compatibility \in {"UNKNOWN", "REVALIDATION_REQUIRED"}
  <2>1. VerifiedRecord(x, digest, compatibility)
          = [z EXCEPT !.lifecycle = "REVALIDATION_REQUIRED"]
    BY <1>6, Zenon DEF VerifiedRecord
  <2> HIDE DEF z
  <2> QED  BY <1>2, <2>1, Zenon DEF ReplicaRecord, ReplicaLifecycle
<1>7. CASE digest = "MATCH" /\ compatibility = "COMPATIBLE"
  <2>1. VerifiedRecord(x, digest, compatibility)
          = [z EXCEPT !.lifecycle = "PREPARED", !.absent = FALSE,
                      !.revalidation_required = FALSE]
    BY <1>7, Zenon DEF VerifiedRecord
  <2> HIDE DEF z
  <2> QED  BY ZenonT(60), <1>2, <2>1 DEF ReplicaRecord, ReplicaLifecycle
<1> QED  BY <1>3, <1>4, <1>5, <1>6, <1>7, Zenon

\* So do revalidation on a registered cluster and recovery.
LEMMA RevalidatedType ==
  ASSUME TypeOK, NEW x \in ReplicaRecord, x.cluster \in DOMAIN clusters, NEW owns \in BOOLEAN
  PROVE  Revalidated(x, owns) \in ReplicaRecord
<1> DEFINE n == clusters[x.cluster].incarnation
           l == IF x.commit_recorded THEN "AUTHORITATIVE" ELSE "PREPARED"
           c == x.commit_recorded
           a == IF ~x.commit_recorded THEN "CANDIDATE"
                ELSE IF owns THEN "AUTHORITATIVE_OWNER" ELSE "AUTHORITATIVE_FOR_REUSE"
<1>1. n \in Nat
  BY MapValue, Zenon DEF TypeOK, IsMap, ClusterRecord
<1>2. /\ l \in ReplicaLifecycle /\ c \in BOOLEAN
      /\ a \in {"NONE", "HISTORICAL", "CANDIDATE", "AUTHORITATIVE_FOR_REUSE",
                "AUTHORITATIVE_OWNER", "FENCED"}
  BY Zenon DEF ReplicaLifecycle, ReplicaRecord
<1>3. Revalidated(x, owns) =
        [x EXCEPT !.incarnation = n, !.revalidation_required = FALSE,
                  !.evidence_epoch = epoch, !.absent = FALSE, !.lifecycle = l,
                  !.counts_toward_factor = c, !.authority = a]
  BY Zenon DEF Revalidated
<1>4. epoch \in Nat
  BY Zenon DEF TypeOK
<1> HIDE DEF n, l, c, a
<1> QED  BY ZenonT(60), <1>1, <1>2, <1>3, <1>4 DEF ReplicaRecord

\* Recovery keeps a replica record a replica record.
LEMMA RecoveredType ==
  ASSUME TypeOK, NEW r \in DOMAIN replicas
  PROVE  RecoveredReplica(r) \in ReplicaRecord
<1> DEFINE y == IF is_terminal(replicas[r]) THEN replicas[r]
                ELSE [replicas[r] EXCEPT !.revalidation_required = TRUE, !.absent = FALSE]
<1>1. replicas[r] \in ReplicaRecord
  BY MapValue, Zenon DEF TypeOK
<1>2. y \in ReplicaRecord
  <2>1. [replicas[r] EXCEPT !.revalidation_required = TRUE, !.absent = FALSE] \in ReplicaRecord
    BY <1>1, Zenon DEF ReplicaRecord
  <2> QED  BY <1>1, <2>1, Zenon
<1>3. RecoveredReplica(r) \in {y, Abandoned(y), Quarantined(y)}
  BY Zenon DEF RecoveredReplica
<1> HIDE DEF y
<1> QED  BY <1>2, <1>3, RevisedRecord, Zenon DEF ReplicaLifecycle

\* A new replica on a registered cluster is a replica record.
LEMMA NewReplicaType ==
  ASSUME TypeOK, NEW k \in StateKey, NEW c \in DOMAIN clusters,
         NEW o \in OperationId \cup {0}, NEW l \in {"RESERVED", "TRANSFERRING"}
  PROVE  NewReplica(k, c, o, l) \in ReplicaRecord
<1>1. c \in Cluster /\ clusters[c].incarnation \in Nat
  BY MapValue, Zenon DEF TypeOK, IsMap, ClusterRecord
<1> QED  BY <1>1, Zenon DEF NewReplica, ReplicaRecord, ReplicaLifecycle

\* The revisions of state, set and operation records keep their types.
LEMMA RevisedState ==
  ASSUME NEW s \in StateRecord
  PROVE  /\ [s EXCEPT !.lifecycle = "CURRENT"] \in StateRecord
         /\ [s EXCEPT !.lifecycle = "HISTORICAL"] \in StateRecord
BY Zenon DEF StateRecord

\* The revisions the mutations make to a set record keep its type.
LEMMA RevisedSet ==
  ASSUME NEW s \in SetRecord
  PROVE  /\ [s EXCEPT !.generation = @ + 1] \in SetRecord
         /\ [s EXCEPT !.generation = @ + 1, !.retiring = TRUE] \in SetRecord
         /\ [s EXCEPT !.revalidation_required = TRUE] \in SetRecord
<1>1. s.generation + 1 \in Nat
  BY DEF SetRecord
<1>2. [s EXCEPT !.generation = @ + 1] \in SetRecord
  BY <1>1, Zenon DEF SetRecord
<1>3. [s EXCEPT !.generation = @ + 1, !.retiring = TRUE] \in SetRecord
  BY <1>1, Zenon DEF SetRecord
<1>4. [s EXCEPT !.revalidation_required = TRUE] \in SetRecord
  BY Zenon DEF SetRecord
<1> QED  BY <1>2, <1>3, <1>4, Zenon

\* The revisions the mutations make to an operation record keep its type.
LEMMA RevisedOperation ==
  ASSUME NEW op \in OperationRecord, NEW state \in OperationState, NEW b \in BOOLEAN,
         NEW c \in BOOLEAN
  PROVE  /\ [op EXCEPT !.state = state] \in OperationRecord
         /\ [op EXCEPT !.state = state, !.destination_committed = b] \in OperationRecord
         /\ [op EXCEPT !.state = state, !.destination_committed = b, !.source_retired = c]
              \in OperationRecord
BY Zenon DEF OperationRecord

-----------------------------------------------------------------------------
(* Steps *)

\* Advancing replica sets keeps their type.
LEMMA AdvanceType ==
  ASSUME TypeOK, NEW K
  PROVE  IsMap(Advance(K), StateKey, SetRecord) /\ DOMAIN Advance(K) = DOMAIN sets
<1>1. \A k \in DOMAIN sets : /\ sets[k] \in SetRecord
                             /\ [sets[k] EXCEPT !.generation = @ + 1] \in SetRecord
  BY MapValue, RevisedSet, Zenon DEF TypeOK
<1> QED  BY <1>1, Zenon DEF Advance, TypeOK, IsMap

\* Fencing keeps the types of the replicas and of the sets.
LEMMA FenceAllType ==
  ASSUME TypeOK, NEW R, NEW l \in ReplicaLifecycle, NEW b \in BOOLEAN, FenceAll(R, l, b)
  PROVE  /\ IsMap(replicas', ReplicaId, ReplicaRecord) /\ DOMAIN replicas' = DOMAIN replicas
         /\ IsMap(sets', StateKey, SetRecord) /\ DOMAIN sets' = DOMAIN sets
<1>1. \A r \in DOMAIN replicas : /\ replicas[r] \in ReplicaRecord
                                 /\ Fence(replicas[r], l, b) \in ReplicaRecord
  BY MapValue, RevisedRecord, Zenon DEF TypeOK
<1>2. replicas' = [r \in DOMAIN replicas |->
                     IF r \in R THEN Fence(replicas[r], l, b) ELSE replicas[r]]
  BY Zenon DEF FenceAll
<1>3. \E K : sets' = Advance(K)
  BY Zenon DEF FenceAll
<1> QED  BY <1>1, <1>2, <1>3, AdvanceType, Zenon DEF TypeOK, IsMap

\* The mutations on state generations keep every map's type.
LEMMA StateStepType ==
  ASSUME TypeOK, StateStep
  PROVE  TypeOK'
<1> PICK k \in StateKey : \/ \E spec \in SpecInput : register_state(k, spec)
                          \/ \E spec \in SpecInput : publish_state_generation(k, spec)
                          \/ commit_state_generation(k)
  BY Zenon DEF StateStep
<1>1. \A spec \in SpecInput : materialize(spec) \in StateRecord
  BY Inputs, Zenon DEF materialize, StateSpec, StateRecord
<1>2. ASSUME NEW spec \in SpecInput, register_state(k, spec) PROVE TypeOK'
  <2> DEFINE v == [generation |-> 1, retiring |-> FALSE, revalidation_required |-> FALSE]
  <2>1. v \in SetRecord /\ sets' = Put(sets, k, v)
    BY <1>2, Zenon DEF SetRecord, register_state
  <2> HIDE DEF v
  <2>2. IsMap(states', StateKey, StateRecord) /\ DOMAIN states' = DOMAIN states \cup {k}
    BY <1>1, <1>2, PutMap DEF register_state, TypeOK
  <2>3. IsMap(sets', StateKey, SetRecord) /\ DOMAIN sets' = DOMAIN sets \cup {k}
    <3>1. IsMap(sets, StateKey, SetRecord)
      BY Zenon DEF TypeOK
    <3>2. IsMap(Put(sets, k, v), StateKey, SetRecord)
      BY <2>1, <3>1, PutMap, Zenon
    <3>3. DOMAIN Put(sets, k, v) = DOMAIN sets \cup {k}
      BY Zenon DEF Put
    <3> QED  BY <2>1, <3>2, <3>3, Zenon
  <2> QED  BY <1>2, <2>2, <2>3, Zenon DEF register_state, TypeOK
<1>3. ASSUME NEW spec \in SpecInput, publish_state_generation(k, spec) PROVE TypeOK'
  <2>1. IsMap(states', StateKey, StateRecord) /\ DOMAIN states' = DOMAIN states
    BY <1>1, <1>3, UpdateMap, Zenon DEF publish_state_generation, TypeOK
  <2> QED  BY <1>3, <2>1, Zenon DEF publish_state_generation, TypeOK
<1>4. CASE commit_state_generation(k)
  <2> PICK superseded :
        /\ states' = [j \in DOMAIN states |->
                        IF j = k THEN [states[j] EXCEPT !.lifecycle = "CURRENT"]
                        ELSE IF j \in superseded
                        THEN [states[j] EXCEPT !.lifecycle = "HISTORICAL"] ELSE states[j]]
        /\ replicas' = [r \in DOMAIN replicas |->
                          IF replicas[r].key \in superseded THEN Superseded(replicas[r])
                          ELSE replicas[r]]
        /\ sets' = [j \in DOMAIN sets |->
                      IF j \in superseded
                      THEN [sets[j] EXCEPT !.generation = @ + 1, !.retiring = TRUE]
                      ELSE sets[j]]
    BY <1>4, Zenon DEF commit_state_generation
  <2>1. IsMap(states', StateKey, StateRecord)
    <3>1. \A j \in DOMAIN states : /\ states[j] \in StateRecord
                                   /\ [states[j] EXCEPT !.lifecycle = "CURRENT"] \in StateRecord
                                   /\ [states[j] EXCEPT !.lifecycle = "HISTORICAL"] \in StateRecord
      BY MapValue, RevisedState, Zenon DEF TypeOK
    <3> QED  BY <3>1, Zenon DEF TypeOK, IsMap
  <2>2. IsMap(replicas', ReplicaId, ReplicaRecord)
    <3>1. \A r \in DOMAIN replicas : /\ replicas[r] \in ReplicaRecord
                                     /\ Superseded(replicas[r]) \in ReplicaRecord
      BY MapValue, RevisedRecord, Zenon DEF TypeOK, ReplicaLifecycle
    <3> QED  BY <3>1, Zenon DEF TypeOK, IsMap
  <2>3. IsMap(sets', StateKey, SetRecord)
    <3>1. \A j \in DOMAIN sets :
            /\ sets[j] \in SetRecord
            /\ [sets[j] EXCEPT !.generation = @ + 1, !.retiring = TRUE] \in SetRecord
      BY MapValue, RevisedSet, Zenon DEF TypeOK
    <3> QED  BY <3>1, Zenon DEF TypeOK, IsMap
  <2> QED  BY <1>4, <2>1, <2>2, <2>3, Zenon DEF commit_state_generation, TypeOK
<1> QED  BY <1>2, <1>3, <1>4, Zenon

\* The mutations on clusters keep every map's type.
LEMMA ClusterStepType ==
  ASSUME TypeOK, ClusterStep
  PROVE  TypeOK'
<1> PICK c \in Cluster : \/ \E new_boot \in BOOLEAN : register_cluster(c, new_boot)
                         \/ publish_cluster_evidence(c)
                         \/ mark_cluster_unreachable(c)
                         \/ retire_cluster(c)
  BY Zenon DEF ClusterStep
<1>1. c \in DOMAIN clusters => clusters[c] \in ClusterRecord
  BY MapValue, Zenon DEF TypeOK
<1>2. epoch \in Nat /\ {"REVALIDATION_REQUIRED", "STALE"} \subseteq ReplicaLifecycle
  BY Zenon DEF TypeOK, ReplicaLifecycle
<1>3. ASSUME NEW new_boot \in BOOLEAN, register_cluster(c, new_boot) PROVE TypeOK'
  <2>1. PICK n, l, R :
          /\ n = IF c \notin DOMAIN clusters THEN 1
                 ELSE clusters[c].incarnation
                      + (IF c \in DOMAIN clusters /\ new_boot THEN 1 ELSE 0)
          /\ l \in {"REINCARNATED", "ACTIVE"}
          /\ clusters' = Put(clusters, c, [incarnation |-> n, live_authority |-> TRUE,
                                           evidence_present |-> TRUE, lifecycle |-> l,
                                           last_evidence_epoch |-> epoch])
          /\ FenceAll(R, "REVALIDATION_REQUIRED", FALSE)
    BY <1>3, Zenon DEF register_cluster
  <2>2. n \in Nat
    BY <1>1, <2>1 DEF ClusterRecord
  <2>3. [incarnation |-> n, live_authority |-> TRUE, evidence_present |-> TRUE,
         lifecycle |-> l, last_evidence_epoch |-> epoch] \in ClusterRecord
    BY <1>2, <2>1, <2>2, Zenon DEF ClusterRecord
  <2>4. IsMap(clusters', Cluster, ClusterRecord)
    BY <2>1, <2>3, PutMap, Zenon DEF TypeOK
  <2>5. /\ IsMap(replicas', ReplicaId, ReplicaRecord) /\ IsMap(sets', StateKey, SetRecord)
        /\ DOMAIN sets' = DOMAIN sets
    BY <1>2, <2>1, FenceAllType, Zenon
  <2> QED  BY <1>3, <2>4, <2>5, Zenon DEF register_cluster, TypeOK
<1>4. CASE publish_cluster_evidence(c)
  <2> DEFINE x == clusters[c]
             l == IF x.lifecycle \in {"SUSPECT", "UNREACHABLE", "REINCARNATED"}
                  THEN "ACTIVE" ELSE x.lifecycle
  <2>1. x \in ClusterRecord
    BY <1>1, <1>4, Zenon DEF publish_cluster_evidence
  <2> HIDE DEF x
  <2>2. l \in {"ACTIVE", "SUSPECT", "UNREACHABLE", "REINCARNATED", "RETIRED"}
    BY <2>1, Zenon DEF ClusterRecord
  <2>3. Evidenced(x) = [x EXCEPT !.evidence_present = TRUE, !.last_evidence_epoch = epoch,
                                 !.lifecycle = l]
    BY Zenon DEF Evidenced
  <2> HIDE DEF l
  <2>4. Evidenced(x) \in ClusterRecord
    BY <1>2, <2>1, <2>2, <2>3, Zenon DEF ClusterRecord
  <2>5. IsMap(clusters', Cluster, ClusterRecord)
    BY <1>4, <2>4, UpdateMap, Zenon DEF publish_cluster_evidence, TypeOK, x
  <2> QED  BY <1>4, <2>5, Zenon DEF publish_cluster_evidence, TypeOK
<1>5. \A l \in {"UNREACHABLE", "RETIRED"} :
        LET v == [clusters[c] EXCEPT !.live_authority = FALSE, !.lifecycle = l,
                                     !.evidence_present = FALSE]
        IN IsMap([clusters EXCEPT ![c] = v], Cluster, ClusterRecord)
  <2> TAKE l \in {"UNREACHABLE", "RETIRED"}
  <2> DEFINE v == [clusters[c] EXCEPT !.live_authority = FALSE, !.lifecycle = l,
                                      !.evidence_present = FALSE]
  <2>1. c \in DOMAIN clusters => v \in ClusterRecord
    BY <1>1, Zenon DEF ClusterRecord
  <2> HIDE DEF v
  <2>2. IsMap([clusters EXCEPT ![c] = v], Cluster, ClusterRecord)
    BY <2>1, UpdateMap, Zenon DEF TypeOK
  <2> QED  BY <2>2, Zenon DEF v
<1>6. CASE mark_cluster_unreachable(c)
  <2>1. /\ IsMap(replicas', ReplicaId, ReplicaRecord) /\ IsMap(sets', StateKey, SetRecord)
        /\ DOMAIN sets' = DOMAIN sets
    BY <1>2, <1>6, FenceAllType, Zenon DEF mark_cluster_unreachable
  <2>2. IsMap(clusters', Cluster, ClusterRecord)
    BY <1>5, <1>6, Zenon DEF mark_cluster_unreachable
  <2> QED  BY <1>6, <2>1, <2>2, Zenon DEF mark_cluster_unreachable, TypeOK
<1>7. CASE retire_cluster(c)
  <2>1. /\ IsMap(replicas', ReplicaId, ReplicaRecord) /\ IsMap(sets', StateKey, SetRecord)
        /\ DOMAIN sets' = DOMAIN sets
    BY <1>2, <1>7, FenceAllType, Zenon DEF retire_cluster
  <2>2. IsMap(clusters', Cluster, ClusterRecord)
    BY <1>5, <1>7, Zenon DEF retire_cluster
  <2> QED  BY <1>7, <2>1, <2>2, Zenon DEF retire_cluster, TypeOK
<1> QED  BY <1>3, <1>4, <1>6, <1>7, Zenon

\* Moving an operation keeps the type of the operations.
LEMMA AdvanceOperationType ==
  ASSUME TypeOK, NEW o, NEW state \in OperationState, advance_operation(o, state)
  PROVE  IsMap(operations', OperationId, OperationRecord) /\ DOMAIN operations' = DOMAIN operations
<1>1. CASE o \in DOMAIN operations /\ ~OperationIsTerminal(operations[o])
  <2> DEFINE v == [operations[o] EXCEPT !.state = state]
  <2>1. v \in OperationRecord
    BY <1>1, MapValue, RevisedOperation, Zenon DEF TypeOK
  <2>2. operations' = [operations EXCEPT ![o] = v]
    BY <1>1, Zenon DEF advance_operation
  <2> HIDE DEF v
  <2> QED  BY <2>1, <2>2, UpdateMap, Zenon DEF TypeOK
<1>2. CASE ~(o \in DOMAIN operations /\ ~OperationIsTerminal(operations[o]))
  BY <1>2, Zenon DEF advance_operation, TypeOK
<1> QED  BY <1>1, <1>2, Zenon

\* The planned effects of a commit and of a handoff keep their types.
LEMMA DemotedType ==
  ASSUME TypeOK, NEW r, NEW k
  PROVE  /\ IsMap(Demoted(r, k), ReplicaId, ReplicaRecord)
         /\ DOMAIN Demoted(r, k) = DOMAIN replicas
         /\ r \in DOMAIN replicas => Demoted(r, k)[r] = replicas[r]
<1>1. \A q \in DOMAIN replicas : replicas[q] \in ReplicaRecord
  BY MapValue, Zenon DEF TypeOK
<1>2. \A q \in DOMAIN replicas : Yielded(replicas[q]) \in ReplicaRecord
  BY <1>1, RevisedRecord, Zenon DEF ReplicaLifecycle
<1> QED  BY <1>1, <1>2, Zenon DEF Demoted, OtherOwner, TypeOK, IsMap

\* The commit plan keeps the type of the replica map and of the ownership map.
LEMMA PlanType ==
  ASSUME TypeOK, NEW r \in DOMAIN replicas, NEW make_owner \in BOOLEAN
  PROVE  /\ IsMap(plan_authoritative_commit(r, make_owner), ReplicaId, ReplicaRecord)
         /\ DOMAIN plan_authoritative_commit(r, make_owner) = DOMAIN replicas
         /\ plan_authoritative_commit(r, make_owner)[r] = Committed(replicas[r], make_owner)
         /\ IsMap(PlannedOwnership(r, make_owner), StateKey, ReplicaId)
<1>1. replicas[r] \in ReplicaRecord /\ r \in ReplicaId
  BY MapValue, Zenon DEF TypeOK
<1>2. Committed(replicas[r], make_owner) \in ReplicaRecord
  BY <1>1, RevisedRecord, Zenon DEF ReplicaLifecycle
<1>3. PICK base : /\ plan_authoritative_commit(r, make_owner)
                       = [base EXCEPT ![r] = Committed(base[r], make_owner)]
                  /\ IsMap(base, ReplicaId, ReplicaRecord)
                  /\ DOMAIN base = DOMAIN replicas
                  /\ base[r] = replicas[r]
  BY DemotedType, Zenon DEF plan_authoritative_commit, TypeOK
<1>4. replicas[r].key \in StateKey
  BY <1>1, Zenon DEF ReplicaRecord
<1>5. IsMap(PlannedOwnership(r, make_owner), StateKey, ReplicaId)
  BY <1>1, <1>4, PutMap, Zenon DEF PlannedOwnership, TypeOK
<1> DEFINE v == Committed(replicas[r], make_owner)
           plan == plan_authoritative_commit(r, make_owner)
<1>6. plan = [base EXCEPT ![r] = v] /\ v \in ReplicaRecord
  BY <1>2, <1>3, Zenon
<1> HIDE DEF v, plan
<1>7. IsMap(plan, ReplicaId, ReplicaRecord) /\ DOMAIN plan = DOMAIN replicas /\ plan[r] = v
  BY <1>3, <1>6, UpdateMap, Zenon
<1> QED  BY <1>5, <1>7, Zenon DEF v, plan

\* The mutations on replicas keep every map's type.
LEMMA ReplicaStepType ==
  ASSUME TypeOK, ReplicaStep
  PROVE  TypeOK'
<1> PICK r \in ReplicaId :
      \/ \E k \in StateKey, c \in Cluster, l \in {"RESERVED", "TRANSFERRING"} :
           register_replica(r, k, c, l)
      \/ \E o \in NamedOperation, failed \in BOOLEAN : record_transfer_progress(r, o, failed)
      \/ \E o \in NamedOperation, digest \in DigestInput :
           record_transfer_completion(r, o, digest)
      \/ \E o \in NamedOperation, digest \in DigestInput, compatibility \in CompatibilityInput :
           verify_replica(r, o, digest, compatibility)
      \/ \E make_owner \in BOOLEAN, strict \in BOOLEAN : commit_replica(r, make_owner, strict)
      \/ retire_replica(r)
      \/ quarantine_replica(r)
      \/ \E compatible \in BOOLEAN : revalidate_replica(r, compatible)
  BY Zenon DEF ReplicaStep
<1> DEFINE x == replicas[r]
<1>x. r \in DOMAIN replicas => x \in ReplicaRecord
  BY MapValue, Zenon DEF TypeOK
<1>r. ASSUME NEW v, r \in DOMAIN replicas, v \in ReplicaRecord,
             replicas' = [replicas EXCEPT ![r] = v]
      PROVE  IsMap(replicas', ReplicaId, ReplicaRecord)
  BY <1>r, UpdateMap, Zenon DEF TypeOK
<1>s. \A K : sets' = Advance(K) => /\ IsMap(sets', StateKey, SetRecord)
                                   /\ DOMAIN sets' = DOMAIN sets
  BY AdvanceType, Zenon
<1> HIDE DEF x
<1>1. ASSUME NEW k \in StateKey, NEW c \in Cluster, NEW l \in {"RESERVED", "TRANSFERRING"},
             register_replica(r, k, c, l)
      PROVE  TypeOK'
  <2>1. NewReplica(k, c, 0, l) \in ReplicaRecord
    BY <1>1, NewReplicaType, Zenon DEF register_replica
  <2>2. IsMap(replicas', ReplicaId, ReplicaRecord)
    BY <1>1, <2>1, PutMap, Zenon DEF register_replica, TypeOK
  <2> QED  BY <1>1, <2>2, Zenon DEF register_replica, TypeOK
<1>2. ASSUME NEW o \in NamedOperation, NEW failed \in BOOLEAN,
             record_transfer_progress(r, o, failed)
      PROVE  TypeOK'
  <2>1. Abandoned(x) \in ReplicaRecord /\ [x EXCEPT !.lifecycle = "TRANSFERRING"] \in ReplicaRecord
    <3>1. x \in ReplicaRecord
      BY <1>2, <1>x, Zenon DEF record_transfer_progress, guard_replica
    <3>2. [x EXCEPT !.lifecycle = "TRANSFERRING"] \in ReplicaRecord
      BY <3>1, Zenon DEF ReplicaRecord, ReplicaLifecycle
    <3> QED  BY <3>1, <3>2, RevisedRecord, Zenon DEF ReplicaLifecycle
  <2>2. IsMap(replicas', ReplicaId, ReplicaRecord)
    BY <1>2, <1>r, <2>1, Zenon DEF record_transfer_progress, guard_replica, x
  <2>3. IsMap(operations', OperationId, OperationRecord)
    BY <1>2, AdvanceOperationType, Zenon DEF record_transfer_progress, OperationState
  <2> QED  BY <1>2, <2>2, <2>3, Zenon DEF record_transfer_progress, TypeOK
<1>3. ASSUME NEW o \in NamedOperation, NEW digest \in DigestInput,
             record_transfer_completion(r, o, digest)
      PROVE  TypeOK'
  <2>1. x \in ReplicaRecord /\ r \in DOMAIN replicas
    BY <1>3, <1>x, Zenon DEF record_transfer_completion, guard_replica
  <2>2. TransferredRecord(x, digest) \in ReplicaRecord
    BY <2>1, TransferredRecordType, Inputs, Zenon
  <2>3. IsMap(replicas', ReplicaId, ReplicaRecord)
    BY <1>3, <1>r, <2>1, <2>2, Zenon DEF record_transfer_completion, x
  <2>4. IsMap(operations', OperationId, OperationRecord)
    BY <1>3, AdvanceOperationType, Zenon DEF record_transfer_completion, OperationState, TypeOK
  <2> QED  BY <1>3, <2>3, <2>4, Zenon DEF record_transfer_completion, TypeOK
<1>4. ASSUME NEW o \in NamedOperation, NEW digest \in DigestInput,
             NEW compatibility \in CompatibilityInput,
             verify_replica(r, o, digest, compatibility)
      PROVE  TypeOK'
  <2>1. x \in ReplicaRecord /\ r \in DOMAIN replicas /\ epoch \in Nat
    BY <1>4, <1>x, Zenon DEF verify_replica, guard_replica, TypeOK
  <2>2. VerifiedRecord(x, digest, compatibility) \in ReplicaRecord
    BY <2>1, VerifiedRecordType, Inputs, Zenon
  <2>3. IsMap(replicas', ReplicaId, ReplicaRecord)
    BY <1>4, <1>r, <2>1, <2>2, Zenon DEF verify_replica, x
  <2>4. IsMap(operations', OperationId, OperationRecord)
    BY <1>4, AdvanceOperationType, Zenon DEF verify_replica, OperationState
  <2> QED  BY <1>4, <2>3, <2>4, Zenon DEF verify_replica, TypeOK
<1>5. ASSUME NEW make_owner \in BOOLEAN, NEW strict \in BOOLEAN,
             commit_replica(r, make_owner, strict)
      PROVE  TypeOK'
  <2>1. IsMap(replicas', ReplicaId, ReplicaRecord) /\ IsMap(ownership', StateKey, ReplicaId)
    BY <1>5, PlanType, Zenon DEF commit_replica
  <2>2. IsMap(sets', StateKey, SetRecord) /\ DOMAIN sets' = DOMAIN sets
    BY <1>5, <1>s, Zenon DEF commit_replica
  <2> QED  BY <1>5, <2>1, <2>2, Zenon DEF commit_replica, TypeOK
<1>6. CASE retire_replica(r)
  <2>1. Retired(x) \in ReplicaRecord /\ r \in DOMAIN replicas
    BY <1>6, <1>x, RevisedRecord, Zenon DEF retire_replica, guard_replica, ReplicaLifecycle
  <2>2. /\ IsMap(replicas', ReplicaId, ReplicaRecord) /\ IsMap(sets', StateKey, SetRecord)
        /\ DOMAIN sets' = DOMAIN sets
    BY <1>6, <1>r, <1>s, <2>1, Zenon DEF retire_replica, x
  <2> QED  BY <1>6, <2>2, Zenon DEF retire_replica, TypeOK
<1>7. CASE quarantine_replica(r)
  <2>1. Quarantined(x) \in ReplicaRecord /\ r \in DOMAIN replicas
    BY <1>7, <1>x, RevisedRecord, Zenon DEF quarantine_replica, guard_replica, ReplicaLifecycle
  <2>2. /\ IsMap(replicas', ReplicaId, ReplicaRecord) /\ IsMap(sets', StateKey, SetRecord)
        /\ DOMAIN sets' = DOMAIN sets
    BY <1>7, <1>r, <1>s, <2>1, Zenon DEF quarantine_replica, x
  <2> QED  BY <1>7, <2>2, Zenon DEF quarantine_replica, TypeOK
<1>8. ASSUME NEW compatible \in BOOLEAN, revalidate_replica(r, compatible) PROVE TypeOK'
  <2>1. x \in ReplicaRecord /\ r \in DOMAIN replicas /\ x.cluster \in DOMAIN clusters
    BY <1>8, <1>x, Zenon DEF revalidate_replica, x
  <2>2. \A owns \in BOOLEAN : Revalidated(x, owns) \in ReplicaRecord
    BY <2>1, RevalidatedType, Zenon
  <2>3. /\ IsMap(replicas', ReplicaId, ReplicaRecord) /\ IsMap(sets', StateKey, SetRecord)
        /\ DOMAIN sets' = DOMAIN sets
    BY <1>8, <1>r, <1>s, <2>1, <2>2, Zenon DEF revalidate_replica, x
  <2> QED  BY <1>8, <2>3, Zenon DEF revalidate_replica, TypeOK
<1> QED  BY <1>1, <1>2, <1>3, <1>4, <1>5, <1>6, <1>7, <1>8, Zenon

\* The transactions keep every map's type.
LEMMA OperationStepType ==
  ASSUME TypeOK, OperationStep
  PROVE  TypeOK'
<1> PICK o \in OperationId :
      \/ \E r, source \in ReplicaId, k \in StateKey, c \in Cluster :
           authorize_replication(o, r, k, source, c)
      \/ \E r, source \in ReplicaId, k \in StateKey, c \in Cluster, retire \in BOOLEAN :
           authorize_migration(o, r, k, retire, source, c)
      \/ \E retire_source \in BOOLEAN : commit_operation(o, retire_source)
      \/ cancel_operation(o)
  BY Zenon DEF OperationStep
<1>1. ASSUME NEW r \in ReplicaId, NEW source \in ReplicaId, NEW k \in StateKey,
             NEW c \in Cluster, NEW kind \in {"REPLICATION", "MIGRATION"},
             NEW destructive \in BOOLEAN,
             authorize_transaction(o, r, k, kind, destructive, source, c)
      PROVE  TypeOK'
  <2> DEFINE op == [kind |-> kind, state |-> "RESERVED", key |-> k, source |-> source,
                    destination |-> r, set_generation |-> sets[k].generation,
                    destructive_move |-> destructive, destination_committed |-> FALSE,
                    source_retired |-> FALSE, planned_epoch |-> epoch]
  <2>1. c \in DOMAIN clusters
    BY <1>1, Zenon DEF authorize_transaction, legal_destinations
  <2>2. NewReplica(k, c, o, "RESERVED") \in ReplicaRecord
    BY <2>1, NewReplicaType, Zenon
  <2>3. IsMap(replicas', ReplicaId, ReplicaRecord)
    BY <1>1, <2>2, PutMap, Zenon DEF authorize_transaction, TypeOK
  <2>4. sets[k].generation \in Nat /\ epoch \in Nat
    <3>1. k \in DOMAIN sets
      BY <1>1, Zenon DEF authorize_transaction, TypeOK
    <3>2. sets[k] \in SetRecord
      BY <3>1, MapValue, Zenon DEF TypeOK
    <3> QED  BY <3>2, Zenon DEF TypeOK, SetRecord
  <2>5. op \in OperationRecord
    BY <2>4, Zenon DEF OperationRecord, OperationState
  <2>6. operations' = Put(operations, o, op)
    BY <1>1, Zenon DEF authorize_transaction
  <2> HIDE DEF op
  <2>7. IsMap(operations', OperationId, OperationRecord)
    BY <2>5, <2>6, PutMap, Zenon DEF TypeOK
  <2> QED  BY <1>1, <2>3, <2>7, Zenon DEF authorize_transaction, TypeOK
<1>2. ASSUME NEW retire_source \in BOOLEAN, commit_operation(o, retire_source) PROVE TypeOK'
  <2> DEFINE op == operations[o]
             r == op.destination
             make_owner == op.kind = "MIGRATION" \/ states[op.key].single_owner
             plan == plan_authoritative_commit(r, make_owner)
  <2>1. o \in DOMAIN operations /\ r \in DOMAIN replicas /\ op.key \in DOMAIN states
    BY <1>2, Zenon DEF commit_operation
  <2>2. op \in OperationRecord /\ make_owner \in BOOLEAN
    BY <2>1, MapValue, Zenon DEF TypeOK
  <2>3. /\ IsMap(plan, ReplicaId, ReplicaRecord) /\ DOMAIN plan = DOMAIN replicas
        /\ IsMap(PlannedOwnership(r, make_owner), StateKey, ReplicaId)
    BY <2>1, <2>2, PlanType, Zenon
  <2>4. PICK retiring \in BOOLEAN :
          /\ retiring => op.source \in DOMAIN replicas
          /\ operations' = [operations EXCEPT ![o] = Completed(@, retiring)]
          /\ replicas' = IF retiring
                         THEN [plan EXCEPT ![op.source] = Retired(replicas[op.source])]
                         ELSE plan
          /\ ownership' = PlannedOwnership(r, make_owner)
          /\ sets' = Advance({op.key})
    BY <1>2, Zenon DEF commit_operation
  <2>5. IsMap(replicas', ReplicaId, ReplicaRecord)
    <3>1. op.source \in DOMAIN replicas => Retired(replicas[op.source]) \in ReplicaRecord
      <4>1. op.source \in DOMAIN replicas => replicas[op.source] \in ReplicaRecord
        BY MapValue, ZenonT(30) DEF TypeOK
      <4>2. TRUE \in BOOLEAN /\ "RETIRED" \in ReplicaLifecycle
        BY Zenon DEF ReplicaLifecycle
      <4> QED  BY <4>1, <4>2, RevisedRecord, Zenon
    <3> DEFINE q == op.source
               v == Retired(replicas[q])
    <3> HIDE DEF plan, op, q, v
    <3>2. q \in DOMAIN plan => IsMap([plan EXCEPT ![q] = v], ReplicaId, ReplicaRecord)
      <4>1. q \in DOMAIN plan => v \in ReplicaRecord
        BY <2>3, <3>1, Zenon DEF q, v
      <4> QED  BY <2>3, <4>1, UpdateMap, Zenon
    <3> QED  BY <2>3, <2>4, <3>2, Zenon DEF q, v
  <2>6. IsMap(operations', OperationId, OperationRecord)
    <3> DEFINE b == op.source_retired \/ retiring
               v == Completed(op, retiring)
    <3>1. b \in BOOLEAN
      BY Zenon
    <3>2. operations' = [operations EXCEPT ![o] = v]
      BY <2>4, Zenon
    <3>3. v = [op EXCEPT !.state = "COMPLETE", !.destination_committed = TRUE,
                         !.source_retired = b]
      BY Zenon DEF Completed
    <3> HIDE DEF b, op, v
    <3>4. v \in OperationRecord
      BY <2>2, <3>1, <3>3, RevisedOperation, Zenon DEF OperationState
    <3> QED  BY <3>2, <3>4, UpdateMap, Zenon DEF TypeOK
  <2>7. IsMap(sets', StateKey, SetRecord) /\ DOMAIN sets' = DOMAIN sets
    BY <2>4, AdvanceType, Zenon
  <2> QED  BY <1>2, <2>3, <2>4, <2>5, <2>6, <2>7, Zenon DEF commit_operation, TypeOK
<1>3. CASE cancel_operation(o)
  <2> DEFINE op == operations[o]
             r == op.destination
             v == [op EXCEPT !.state = "CANCELLED"]
  <2>1. op \in OperationRecord
    BY <1>3, MapValue, Zenon DEF cancel_operation, TypeOK
  <2>2. v \in OperationRecord /\ operations' = [operations EXCEPT ![o] = v]
    BY <1>3, <2>1, RevisedOperation, Zenon DEF cancel_operation, OperationState
  <2>3. IsMap(operations', OperationId, OperationRecord)
    <3> HIDE DEF v
    <3> QED  BY <2>2, UpdateMap, Zenon DEF TypeOK
  <2>4. IsMap(replicas', ReplicaId, ReplicaRecord)
    <3>1. \A q \in DOMAIN replicas : Abandoned(replicas[q]) \in ReplicaRecord
      BY MapValue, RevisedRecord, Zenon DEF TypeOK, ReplicaLifecycle
    <3>2. \/ replicas' = [replicas EXCEPT ![r] = Abandoned(replicas[r])]
          \/ replicas' = replicas
      BY <1>3, Zenon DEF cancel_operation
    <3> HIDE DEF r
    <3> QED  BY <3>1, <3>2, UpdateMap DEF TypeOK
  <2>5. IsMap(sets', StateKey, SetRecord) /\ DOMAIN sets' = DOMAIN sets
    BY <1>3, AdvanceType, Zenon DEF cancel_operation, TypeOK
  <2> QED  BY <1>3, <2>3, <2>4, <2>5, Zenon DEF cancel_operation, TypeOK
<1> QED  BY <1>1, <1>2, <1>3, Zenon DEF authorize_replication, authorize_migration

\* So do the ownership handoff, the restart and the epoch advance.
LEMMA OwnershipStepType ==
  ASSUME TypeOK, OwnershipStep
  PROVE  TypeOK'
<1> PICK k \in StateKey, r \in ReplicaId : transfer_ownership(k, r)
  BY Zenon DEF OwnershipStep
<1> DEFINE base == Demoted(r, k)
           v == Promoted(base[r])
<1>1. /\ r \in DOMAIN replicas /\ replicas' = [base EXCEPT ![r] = v]
      /\ ownership' = Put(ownership, k, r) /\ sets' = Advance({k})
  BY Zenon DEF transfer_ownership
<1>2. IsMap(base, ReplicaId, ReplicaRecord) /\ DOMAIN base = DOMAIN replicas
  BY DemotedType, Zenon
<1> HIDE DEF base
<1>3. v \in ReplicaRecord
  <2>1. base[r] \in ReplicaRecord
    BY <1>1, <1>2, MapValue, Zenon
  <2> QED  BY <2>1, RevisedRecord, Zenon DEF ReplicaLifecycle
<1> HIDE DEF v
<1>4. IsMap(replicas', ReplicaId, ReplicaRecord)
  BY <1>1, <1>2, <1>3, UpdateMap, Zenon
<1>5. IsMap(ownership', StateKey, ReplicaId)
  BY <1>1, PutMap, Zenon DEF TypeOK
<1>6. IsMap(sets', StateKey, SetRecord) /\ DOMAIN sets' = DOMAIN sets
  BY <1>1, AdvanceType, Zenon
<1> QED  BY <1>4, <1>5, <1>6, Zenon DEF transfer_ownership, TypeOK

\* A restart preserves the type invariant.
LEMMA RestartType ==
  ASSUME TypeOK, initialize
  PROVE  TypeOK'
<1>1. IsMap(replicas', ReplicaId, ReplicaRecord)
  BY RecoveredType, Zenon DEF initialize, TypeOK, IsMap
<1>2. IsMap(sets', StateKey, SetRecord) /\ DOMAIN sets' = DOMAIN sets
  <2>1. \A k \in DOMAIN sets : [sets[k] EXCEPT !.revalidation_required = TRUE] \in SetRecord
    BY MapValue, RevisedSet, Zenon DEF TypeOK
  <2> QED  BY <2>1, Zenon DEF initialize, TypeOK, IsMap
<1>3. IsMap(clusters', Cluster, ClusterRecord)
  <2>1. ASSUME NEW x \in ClusterRecord PROVE RecoveredCluster(x) \in ClusterRecord
    BY Zenon DEF ClusterRecord, RecoveredCluster
  <2>2. \A c \in DOMAIN clusters : RecoveredCluster(clusters[c]) \in ClusterRecord
    BY <2>1, MapValue, Zenon DEF TypeOK
  <2> QED  BY <2>2, Zenon DEF initialize, TypeOK, IsMap
<1>4. IsMap(operations', OperationId, OperationRecord)
  <2>1. ASSUME NEW op \in OperationRecord PROVE RecoveredOperation(op) \in OperationRecord
    <3>1. classify_recovery(op.state) \in OperationState
      BY Zenon DEF classify_recovery, OperationRecord, OperationState
    <3>2. (classify_recovery(op.state) = "COMPLETE") \in BOOLEAN
      BY Zenon
    <3> QED  BY <3>1, <3>2, RevisedOperation, Zenon DEF RecoveredOperation
  <2>2. \A o \in DOMAIN operations : RecoveredOperation(operations[o]) \in OperationRecord
    BY <2>1, MapValue, Zenon DEF TypeOK
  <2> QED  BY <2>2, Zenon DEF initialize, TypeOK, IsMap
<1>5. epoch' \in Nat /\ boot_epoch' \in Nat /\ UNCHANGED <<states, ownership>>
  BY DEF initialize, TypeOK
<1> QED  BY <1>1, <1>2, <1>3, <1>4, <1>5, Zenon DEF TypeOK

\* Every step keeps every map's type.
LEMMA TypeStep ==
  ASSUME TypeOK, [Next]_vars
  PROVE  TypeOK'
<1>1. CASE advance_epoch
  BY <1>1 DEF advance_epoch, TypeOK
<1>2. CASE UNCHANGED vars
  BY <1>2, Zenon DEF vars, TypeOK
<1> QED  BY <1>1, <1>2, StateStepType, ClusterStepType, ReplicaStepType, OperationStepType,
            OwnershipStepType, RestartType, Zenon DEF Next

\* The empty store is well typed.
LEMMA TypeInit ==
  ASSUME Init
  PROVE  TypeOK
BY EmptyMap, Zenon DEF Init, TypeOK

\* Type correctness: whatever mutations, crashes and restarts happen, in any order, every
\* map of the plane holds well-formed records under registered identities and exactly the
\* registered generations have a replica set.
THEOREM TypeCorrect == Spec => []TypeOK
<1>1. Init => TypeOK
  BY TypeInit, Zenon
<1>2. TypeOK /\ [Next]_vars => TypeOK'
  BY TypeStep, Zenon
<1> QED  BY <1>1, <1>2, PTL DEF Spec

-----------------------------------------------------------------------------
(* The revisions of a replica record *)

Digests == {"MISSING", "MISMATCH", "MATCH"}
Verdicts == {"COMPATIBLE", "INCOMPATIBLE", "UNKNOWN", "REVALIDATION_REQUIRED"}

\* What recovery does to the evidence of a replica record.
Refreshed(x) == [x EXCEPT !.revalidation_required = TRUE, !.absent = FALSE]

\* The revisions that never add authority, retirement aside, with the conditions under
\* which they happen.
Weakened(x, y) ==
  \/ y = x
  \/ ~is_terminal(x) /\ y \in {Quarantined(x), Yielded(x)}
  \/ (~x.commit_recorded \/ x.lifecycle \in {"RESERVED", "TRANSFERRING"}) /\ y = Abandoned(x)
  \/ y = Superseded(x)
  \/ ~is_terminal(x) /\ \E l \in {"REVALIDATION_REQUIRED", "STALE"}, b \in BOOLEAN :
                          y = Fence(x, l, b)
  \/ /\ x.lifecycle \in {"RESERVED", "TRANSFERRING"}
     /\ y = [x EXCEPT !.lifecycle = "TRANSFERRING"]
  \/ /\ x.lifecycle \in {"RESERVED", "TRANSFERRING", "TRANSFERRED", "VERIFYING"}
     /\ \E digest \in Digests : y = TransferredRecord(x, digest)
  \/ /\ x.lifecycle \in {"TRANSFERRED", "VERIFYING", "PREPARED", "AUTHORITATIVE", "DEGRADED",
                         "REVALIDATION_REQUIRED"}
     /\ \E digest \in Digests, verdict \in Verdicts : y = VerifiedRecord(x, digest, verdict)

\* The revisions that add authority.
Strengthened(x, y) ==
  \/ /\ x.lifecycle \in {"PREPARED", "AUTHORITATIVE", "DEGRADED"} /\ ~x.revalidation_required
     /\ x.lifecycle = "PREPARED" \/ ~x.commit_recorded
     /\ \E b \in BOOLEAN : y = Committed(x, b)
  \/ /\ x.integrity = "VERIFIED"
     /\ x.commit_recorded \/ x.lifecycle = "PREPARED"
     /\ y = Promoted(x)
  \/ /\ x.integrity = "VERIFIED" /\ ~is_terminal(x) /\ x.cluster \in DOMAIN clusters
     /\ \E b \in BOOLEAN : y = Revalidated(x, b)

\* What a replica record satisfies in every reachable state: a terminal replica is absent
\* and does not count, a committed one has left the transfer stages, and the stages from
\* PREPARED on have verified bytes.
RecordInv(x) ==
  /\ is_terminal(x) => ~x.counts_toward_factor /\ x.absent
  /\ x.commit_recorded => x.lifecycle \notin {"RESERVED", "TRANSFERRING", "ABANDONED"}
  /\ x.lifecycle \in {"PREPARED", "AUTHORITATIVE", "DEGRADED"} => x.integrity = "VERIFIED"
  /\ x.lifecycle \in {"AUTHORITATIVE", "DEGRADED"} => x.commit_recorded

\* Verified evidence that is neither marked for revalidation nor absent is of this process.
Fresh(x) ==
  (/\ ~x.revalidation_required /\ x.integrity = "VERIFIED"
   /\ ~x.absent \/ x.lifecycle = "PREPARED") => x.evidence_epoch >= boot_epoch

\* What a revision that adds no authority keeps.
Unpromoted(x, y) ==
  /\ y.key = x.key /\ y.cluster = x.cluster /\ y.incarnation = x.incarnation
  /\ y.commit_recorded <=> x.commit_recorded
  /\ y.counts_toward_factor => x.counts_toward_factor
  /\ replica_counts_toward_replication_factor(y) => replica_counts_toward_replication_factor(x)
  /\ y.authority = "AUTHORITATIVE_OWNER" => x.authority = "AUTHORITATIVE_OWNER"
  /\ y.lifecycle = "AUTHORITATIVE" => x.lifecycle = "AUTHORITATIVE"
  /\ x.lifecycle \in {"QUARANTINED", "RETIRED", "ABANDONED"} =>
       y.lifecycle \in {"QUARANTINED", "RETIRED", "ABANDONED"}

\* A weakening revision keeps the identity of the record, adds no authority and does not
\* end a committed replica.
LEMMA WeakenedKeeps ==
  ASSUME NEW x \in ReplicaRecord, RecordInv(x), NEW y, Weakened(x, y),
         epoch \in Nat, boot_epoch \in Nat, epoch >= boot_epoch
  PROVE  /\ Unpromoted(x, y) /\ RecordInv(y) /\ (Fresh(x) => Fresh(y))
         /\ is_terminal(y) /\ x.commit_recorded => is_terminal(x)
<1> DEFINE Goal(z) == /\ Unpromoted(x, z) /\ RecordInv(z) /\ (Fresh(x) => Fresh(z))
                      /\ is_terminal(z) /\ x.commit_recorded => is_terminal(x)
<1> USE DEF Unpromoted, RecordInv, Fresh, is_terminal, replica_counts_toward_replication_factor,
            ReplicaRecord
<1>1. Goal(x)
  BY Zenon
<1>2. ~is_terminal(x) => Goal(Quarantined(x)) /\ Goal(Yielded(x))
  BY Zenon DEF Quarantined, Yielded
<1>3. (~x.commit_recorded \/ x.lifecycle \in {"RESERVED", "TRANSFERRING"}) => Goal(Abandoned(x))
  BY Zenon DEF Abandoned
<1>4. Goal(Superseded(x))
  BY Zenon DEF Superseded
<1>5. ASSUME ~is_terminal(x), NEW l \in {"REVALIDATION_REQUIRED", "STALE"}, NEW b \in BOOLEAN
      PROVE  Goal(Fence(x, l, b))
  BY <1>5, Zenon DEF Fence
<1>6. x.lifecycle \in {"RESERVED", "TRANSFERRING"} => Goal([x EXCEPT !.lifecycle = "TRANSFERRING"])
  BY Zenon
<1>7. ASSUME NEW digest \in Digests,
             x.lifecycle \in {"RESERVED", "TRANSFERRING", "TRANSFERRED", "VERIFYING"}
      PROVE  Goal(TransferredRecord(x, digest))
  BY <1>7 DEF TransferredRecord, Digests, Corrupted
<1>8. ASSUME NEW digest \in Digests, NEW verdict \in Verdicts,
             x.lifecycle \in {"TRANSFERRED", "VERIFYING", "PREPARED", "AUTHORITATIVE",
                              "DEGRADED", "REVALIDATION_REQUIRED"}
      PROVE  Goal(VerifiedRecord(x, digest, verdict))
  BY <1>8 DEF VerifiedRecord, Digests, Verdicts, Corrupted, Quarantined
<1> QED
  <2> HIDE DEF Goal
  <2>1. Goal(y)
    BY <1>1, <1>2, <1>3, <1>4, <1>5, <1>6, <1>7, <1>8 DEF Weakened
  <2> QED  BY <2>1, Zenon DEF Goal

\* Neither does retirement add authority.
LEMMA RetiredKeeps ==
  ASSUME NEW x \in ReplicaRecord, RecordInv(x), ~is_terminal(x)
  PROVE  Unpromoted(x, Retired(x)) /\ RecordInv(Retired(x)) /\ Fresh(Retired(x))
BY Zenon DEF Unpromoted, RecordInv, Fresh, is_terminal, replica_counts_toward_replication_factor,
       ReplicaRecord, Retired

\* A strengthening revision starts from verified bytes, keeps the identity of the record and
\* leaves a committed or prepared replica with fresh evidence.
LEMMA StrengthenedKeeps ==
  ASSUME NEW x \in ReplicaRecord, RecordInv(x), NEW y, Strengthened(x, y),
         epoch \in Nat, boot_epoch \in Nat, epoch >= boot_epoch
  PROVE  /\ x.integrity = "VERIFIED" /\ RecordInv(y) /\ (Fresh(x) => Fresh(y))
         /\ y.key = x.key /\ y.cluster = x.cluster /\ ~is_terminal(y)
         /\ x.commit_recorded => y.commit_recorded
<1> DEFINE Goal(z) == /\ x.integrity = "VERIFIED" /\ RecordInv(z) /\ (Fresh(x) => Fresh(z))
                      /\ z.key = x.key /\ z.cluster = x.cluster /\ ~is_terminal(z)
                      /\ x.commit_recorded => z.commit_recorded
<1> USE DEF RecordInv, Fresh, is_terminal, ReplicaRecord
<1>1. ASSUME NEW b \in BOOLEAN, ~x.revalidation_required,
             x.lifecycle \in {"PREPARED", "AUTHORITATIVE", "DEGRADED"},
             x.lifecycle = "PREPARED" \/ ~x.commit_recorded
      PROVE  Goal(Committed(x, b))
  BY <1>1, Zenon DEF Committed
<1>2. x.integrity = "VERIFIED" /\ (x.commit_recorded \/ x.lifecycle = "PREPARED")
        => Goal(Promoted(x))
  BY Zenon DEF Promoted
<1>3. ASSUME NEW b \in BOOLEAN, x.integrity = "VERIFIED", ~is_terminal(x)
      PROVE  Goal(Revalidated(x, b))
  BY <1>3, Zenon DEF Revalidated
<1> QED
  <2> HIDE DEF Goal
  <2>1. Goal(y)
    BY <1>1, <1>2, <1>3 DEF Strengthened
  <2> QED  BY <2>1, Zenon DEF Goal

\* Recovery adds no authority, keeps a counted replica counted and invalidates evidence.
LEMMA RecoveredKeeps ==
  ASSUME TypeOK, NEW r \in DOMAIN replicas, RecordInv(replicas[r])
  PROVE  LET x == replicas[r]
             y == RecoveredReplica(r)
         IN /\ Unpromoted(x, y) /\ RecordInv(y)
            /\ is_terminal(y) /\ x.commit_recorded => is_terminal(x)
            /\ replica_counts_toward_replication_factor(x)
                 => replica_counts_toward_replication_factor(y)
            /\ y.revalidation_required \/ (y.absent /\ y.lifecycle # "PREPARED")
<1> DEFINE x == replicas[r]
           Goal(z) == /\ Unpromoted(x, z) /\ RecordInv(z)
                      /\ is_terminal(z) /\ x.commit_recorded => is_terminal(x)
                      /\ replica_counts_toward_replication_factor(x)
                           => replica_counts_toward_replication_factor(z)
                      /\ z.revalidation_required \/ (z.absent /\ z.lifecycle # "PREPARED")
<1>1. x \in ReplicaRecord
  BY MapValue, Zenon DEF TypeOK
<1>2. \/ is_terminal(x) /\ RecoveredReplica(r) = x
      \/ is_terminal(x) /\ ~x.commit_recorded /\ RecoveredReplica(r) = Abandoned(x)
      \/ /\ ~is_terminal(x) /\ ~x.commit_recorded
         /\ RecoveredReplica(r) \in {Abandoned(Refreshed(x)), Quarantined(Refreshed(x))}
      \/ ~is_terminal(x) /\ RecoveredReplica(r) = Refreshed(x)
  BY <1>1, Zenon DEF RecoveredReplica, Refreshed, ReplicaRecord, is_terminal
<1> HIDE DEF x
<1> USE <1>1 DEF Unpromoted, RecordInv, is_terminal, replica_counts_toward_replication_factor,
                 ReplicaRecord
<1>a. RecordInv(x)
  BY Zenon DEF x
<1>3. is_terminal(x) => Goal(x)
  BY <1>a, Zenon
<1>4. ~x.commit_recorded => /\ is_terminal(x) => Goal(Abandoned(x))
                            /\ Goal(Abandoned(Refreshed(x)))
                            /\ Goal(Quarantined(Refreshed(x)))
  BY <1>a, Zenon DEF Abandoned, Quarantined, Refreshed
<1>5. ~is_terminal(x) => Goal(Refreshed(x))
  BY <1>a, Zenon DEF Refreshed
<1>6. Goal(RecoveredReplica(r))
  <2> HIDE DEF Goal
  <2> QED  BY <1>2, <1>3, <1>4, <1>5, Zenon
<1> QED  BY <1>6, Zenon DEF x

-----------------------------------------------------------------------------
(* The inductive invariant *)

\* Every replica record is consistent, its evidence is fresh where it is believed, and it
\* counts only while its host is live.
ReplicaInv ==
  \A r \in DOMAIN replicas :
    /\ RecordInv(replicas[r])
    /\ Fresh(replicas[r])
    /\ replicas[r].counts_toward_factor => HostIsLive(replicas[r])

\* Cluster evidence that is present was published under an epoch of this process.
ClusterFresh ==
  \A c \in DOMAIN clusters :
    clusters[c].evidence_present => clusters[c].last_evidence_epoch >= boot_epoch

\* The replicas an operation names exist and are of its generation, and only a migration
\* may retire its source.
OperationInv ==
  \A o \in DOMAIN operations :
    /\ operations[o].source \in replicas_of_state(operations[o].key)
    /\ operations[o].destination \in replicas_of_state(operations[o].key)
    /\ operations[o].destructive_move => operations[o].kind = "MIGRATION"

AuthorityInv == /\ TypeOK /\ epoch >= boot_epoch
                /\ ReplicaInv /\ ClusterFresh /\ OperationInv
                /\ SingleOwner /\ OwnerIsNeverRetired

-----------------------------------------------------------------------------
(* What a step does to the replica records *)

\* The replica is weakened, or retired while it owns nothing.
KeptOrRetired(q) ==
  \/ Weakened(replicas[q], replicas'[q])
  \/ /\ ~is_terminal(replicas[q]) /\ replicas'[q] = Retired(replicas[q])
     /\ \A k \in DOMAIN ownership' : ownership'[k] # q

\* A record before any byte has moved.
Blank(x) == /\ x.lifecycle \in {"RESERVED", "TRANSFERRING"} /\ x.integrity = "UNVERIFIED"
            /\ x.authority = "CANDIDATE" /\ ~x.commit_recorded /\ ~x.counts_toward_factor

\* A step after which no replica has more authority than before.
Quiet == /\ DOMAIN replicas \subseteq DOMAIN replicas'
         /\ \A q \in DOMAIN replicas : KeptOrRetired(q)
         /\ \A q \in DOMAIN replicas' \ DOMAIN replicas : Blank(replicas'[q])
         /\ ownership' = ownership /\ boot_epoch' = boot_epoch /\ epoch' >= epoch

\* A step that adds authority to r, advances its replica set and, with ownership, takes the
\* ownership from every other replica.
Gain(r) ==
  /\ r \in DOMAIN replicas /\ DOMAIN replicas' = DOMAIN replicas
  /\ Strengthened(replicas[r], replicas'[r]) /\ HostIsLive(replicas'[r])
  /\ \A q \in DOMAIN replicas \ {r} : KeptOrRetired(q)
  /\ clusters' = clusters /\ epoch' = epoch /\ boot_epoch' = boot_epoch
  /\ sets' = Advance({replicas[r].key})
  /\ \/ /\ ownership' = ownership
        /\ replicas'[r].authority = "AUTHORITATIVE_OWNER" =>
             replicas[r].key \in DOMAIN ownership /\ ownership[replicas[r].key] = r
     \/ /\ ownership' = Put(ownership, replicas[r].key, r)
        /\ replicas'[r].commit_recorded
        /\ \A q \in DOMAIN replicas \ {r} :
             replicas[q].key = replicas[r].key => replicas'[q].authority # "AUTHORITATIVE_OWNER"

\* Unchanged replica and ownership records are a quiet step.
LEMMA UnchangedIsQuiet ==
  ASSUME TypeOK, replicas' = replicas, ownership' = ownership, boot_epoch' = boot_epoch,
         epoch' \in {epoch, epoch + 1}
  PROVE  Quiet
BY DEF Quiet, KeptOrRetired, Weakened, TypeOK

\* So is the revision of one record by a weakening.
LEMMA WeakeningIsQuiet ==
  ASSUME NEW r, NEW v, r \in DOMAIN replicas => Weakened(replicas[r], v), TypeOK,
         replicas' = [replicas EXCEPT ![r] = v],
         UNCHANGED <<ownership, epoch, boot_epoch>>
  PROVE  Quiet
<1>1. DOMAIN replicas' = DOMAIN replicas /\ \A q \in DOMAIN replicas :
        replicas'[q] = IF q = r THEN v ELSE replicas[q]
  BY Zenon DEF TypeOK, IsMap
<1> QED  BY <1>1 DEF Quiet, KeptOrRetired, Weakened, TypeOK

\* So is the registration of a replica.
LEMMA RegistrationIsQuiet ==
  ASSUME NEW r, r \notin DOMAIN replicas, NEW k, NEW c, NEW o,
         NEW l \in {"RESERVED", "TRANSFERRING"}, TypeOK,
         replicas' = Put(replicas, r, NewReplica(k, c, o, l)),
         UNCHANGED <<ownership, epoch, boot_epoch>>
  PROVE  Quiet
<1>1. Blank(NewReplica(k, c, o, l))
  BY Zenon DEF Blank, NewReplica
<1>2. /\ DOMAIN replicas' = DOMAIN replicas \cup {r}
      /\ replicas'[r] = NewReplica(k, c, o, l)
      /\ \A q \in DOMAIN replicas : replicas'[q] = replicas[q]
  BY Zenon DEF Put
<1> HIDE DEF NewReplica
<1> QED  BY <1>1, <1>2 DEF Quiet, KeptOrRetired, Weakened, TypeOK

\* The mutations on states and clusters and most of those on replicas are quiet.
LEMMA StateStepIsQuiet ==
  ASSUME TypeOK, StateStep
  PROVE  Quiet
<1> PICK k \in StateKey : \/ \E spec \in SpecInput : register_state(k, spec)
                          \/ \E spec \in SpecInput : publish_state_generation(k, spec)
                          \/ commit_state_generation(k)
  BY Zenon DEF StateStep
<1>1. CASE \E spec \in SpecInput : register_state(k, spec) \/ publish_state_generation(k, spec)
  BY <1>1, UnchangedIsQuiet, Zenon DEF register_state, publish_state_generation
<1>2. CASE commit_state_generation(k)
  <2>1. PICK superseded :
          replicas' = [r \in DOMAIN replicas |->
                         IF replicas[r].key \in superseded THEN Superseded(replicas[r])
                         ELSE replicas[r]]
    BY <1>2, Zenon DEF commit_state_generation
  <2>2. UNCHANGED <<ownership, epoch, boot_epoch>>
    BY <1>2, Zenon DEF commit_state_generation
  <2> QED  BY <2>1, <2>2 DEF Quiet, KeptOrRetired, Weakened, TypeOK
<1> QED  BY <1>1, <1>2, Zenon

\* A cluster mutation only weakens replica records and touches no operation and no owner.
LEMMA ClusterStepIsQuiet ==
  ASSUME TypeOK, ClusterStep
  PROVE  Quiet
<1>1. ASSUME NEW R, NEW l \in {"REVALIDATION_REQUIRED", "STALE"}, NEW b \in BOOLEAN,
             FenceAll(R, l, b), \A r \in R : ~is_terminal(replicas[r]),
             UNCHANGED <<ownership, epoch, boot_epoch>>
      PROVE  Quiet
  <2>1. replicas' = [r \in DOMAIN replicas |->
                       IF r \in R THEN Fence(replicas[r], l, b) ELSE replicas[r]]
    BY <1>1, Zenon DEF FenceAll
  <2>2. \A r \in DOMAIN replicas : Weakened(replicas[r], replicas'[r])
    BY <1>1, <2>1, Zenon DEF Weakened
  <2>3. DOMAIN replicas' = DOMAIN replicas
    BY <2>1, Zenon
  <2> QED  BY <1>1, <2>2, <2>3 DEF Quiet, KeptOrRetired, TypeOK
<1>2. \A c : \A r \in Hosted(c) : ~is_terminal(replicas[r])
  BY Zenon DEF Hosted
<1> PICK c \in Cluster : \/ \E new_boot \in BOOLEAN : register_cluster(c, new_boot)
                         \/ publish_cluster_evidence(c)
                         \/ mark_cluster_unreachable(c)
                         \/ retire_cluster(c)
  BY Zenon DEF ClusterStep
<1>3. ASSUME NEW new_boot \in BOOLEAN, register_cluster(c, new_boot) PROVE Quiet
  <2> DEFINE i == IF ~(c \in DOMAIN clusters) THEN 1
                  ELSE clusters[c].incarnation
                         + (IF c \in DOMAIN clusters /\ new_boot THEN 1 ELSE 0)
             R == IF c \in DOMAIN clusters /\ new_boot
                  THEN {r \in Hosted(c) : replicas[r].incarnation # i} ELSE {}
  <2>1. FenceAll(R, "REVALIDATION_REQUIRED", FALSE) /\ R \subseteq Hosted(c)
    BY <1>3, Zenon DEF register_cluster
  <2> HIDE DEF R
  <2>2. UNCHANGED <<ownership, epoch, boot_epoch>>
    BY <1>3, Zenon DEF register_cluster
  <2> QED  BY <1>1, <1>2, <2>1, <2>2, Zenon
<1>4. CASE publish_cluster_evidence(c)
  BY <1>4, UnchangedIsQuiet, Zenon DEF publish_cluster_evidence
<1>5. CASE mark_cluster_unreachable(c)
  BY <1>1, <1>2, <1>5, Zenon DEF mark_cluster_unreachable, LiveHosted
<1>6. CASE retire_cluster(c)
  <2>1. FenceAll(LiveHosted(c), "STALE", TRUE) /\ UNCHANGED <<ownership, epoch, boot_epoch>>
    BY <1>6, Zenon DEF retire_cluster
  <2>2. \A r \in LiveHosted(c) : ~is_terminal(replicas[r])
    BY <1>2, Zenon DEF LiveHosted
  <2>3. TRUE \in BOOLEAN /\ "STALE" \in {"REVALIDATION_REQUIRED", "STALE"}
    BY Zenon
  <2> QED  BY <1>1, <2>1, <2>2, <2>3, Zenon
<1> QED  BY <1>3, <1>4, <1>5, <1>6, Zenon

\* The ownership plan weakens every other replica and leaves no other owner.
LEMMA DemotedOthers ==
  ASSUME TypeOK, SingleOwner, OwnerIsNeverRetired, NEW r \in DOMAIN replicas,
         NEW q \in DOMAIN replicas, q # r
  PROVE  LET k == replicas[r].key
         IN /\ Weakened(replicas[q], Demoted(r, k)[q])
            /\ replicas[q].key = k => Demoted(r, k)[q].authority # "AUTHORITATIVE_OWNER"
<1> DEFINE k == replicas[r].key
<1>1. replicas[q] \in ReplicaRecord
  BY MapValue, Zenon DEF TypeOK
<1>2. Yielded(replicas[q]).authority = "AUTHORITATIVE_FOR_REUSE"
  BY <1>1, Zenon DEF Yielded, ReplicaRecord
<1>3. CASE q \in OtherOwner(r, k) /\ ~is_terminal(replicas[q])
  <2>1. Demoted(r, k)[q] = Yielded(replicas[q])
    BY <1>3, Zenon DEF Demoted
  <2> QED  BY <1>2, <1>3, <2>1, Zenon DEF Weakened
<1>4. CASE ~(q \in OtherOwner(r, k) /\ ~is_terminal(replicas[q]))
  <2>1. Demoted(r, k)[q] = replicas[q]
    BY <1>4, Zenon DEF Demoted
  <2>2. ASSUME replicas[q].key = k, replicas[q].authority = "AUTHORITATIVE_OWNER" PROVE FALSE
    <3>1. k \in DOMAIN ownership /\ ownership[k] = q
      BY <2>2, Zenon DEF SingleOwner
    <3>2. q \in OtherOwner(r, k)
      BY <3>1, Zenon DEF OtherOwner
    <3>3. ~is_terminal(replicas[q])
      BY <3>1, Zenon DEF OwnerIsNeverRetired
    <3> QED  BY <1>4, <3>2, <3>3, Zenon
  <2> QED  BY <2>1, <2>2, Zenon DEF Weakened
<1> QED  BY <1>3, <1>4, Zenon

\* The commit plan at most weakens every replica but its target, and leaves no other owner
\* of the generation when it makes one.
LEMMA PlanOthers ==
  ASSUME TypeOK, SingleOwner, OwnerIsNeverRetired, NEW r \in DOMAIN replicas,
         NEW q \in DOMAIN replicas, q # r, NEW make_owner \in BOOLEAN
  PROVE  LET y == plan_authoritative_commit(r, make_owner)[q]
         IN /\ Weakened(replicas[q], y)
            /\ make_owner /\ replicas[q].key = replicas[r].key
                 => y.authority # "AUTHORITATIVE_OWNER"
<1>1. plan_authoritative_commit(r, make_owner)[q] =
        IF make_owner THEN Demoted(r, replicas[r].key)[q] ELSE replicas[q]
  BY DEF plan_authoritative_commit
<1>2. CASE make_owner
  BY <1>1, <1>2, DemotedOthers, Zenon
<1>3. CASE ~make_owner
  BY <1>1, <1>3, Zenon DEF Weakened
<1> QED  BY <1>2, <1>3, Zenon

\* A commit gives authority to one replica alone; an owner is retired with it only when the
\* same commit takes its ownership.
LEMMA CommitIsGain ==
  ASSUME AuthorityInv, NEW r \in DOMAIN replicas, NEW make_owner \in BOOLEAN,
         LET x == replicas[r]
         IN /\ HostIsLive(x) /\ ~x.revalidation_required
            /\ x.lifecycle \in {"PREPARED", "AUTHORITATIVE", "DEGRADED"}
            /\ x.lifecycle = "PREPARED" \/ ~x.commit_recorded,
         NEW retiring \in BOOLEAN, NEW source,
         retiring => /\ make_owner /\ source \in DOMAIN replicas /\ source # r
                     /\ ~is_terminal(replicas[source]) /\ replicas[source].key = replicas[r].key,
         LET planned == plan_authoritative_commit(r, make_owner)
         IN replicas' = IF retiring THEN [planned EXCEPT ![source] = Retired(replicas[source])]
                        ELSE planned,
         ownership' = PlannedOwnership(r, make_owner), sets' = Advance({replicas[r].key}),
         UNCHANGED <<clusters, epoch, boot_epoch>>
  PROVE  Gain(r)
<1> DEFINE planned == plan_authoritative_commit(r, make_owner)
<1> USE DEF AuthorityInv
<1>0. DOMAIN planned = DOMAIN replicas /\ planned[r] = Committed(replicas[r], make_owner)
  BY PlanType, Zenon
<1> HIDE DEF planned
<1>1. DOMAIN replicas' = DOMAIN replicas /\ replicas'[r] = Committed(replicas[r], make_owner)
      /\ \A q \in DOMAIN replicas : replicas'[q] =
           IF retiring /\ q = source THEN Retired(replicas[q]) ELSE planned[q]
  BY <1>0, Zenon DEF planned
<1>2. \A q \in DOMAIN replicas : replicas[q] \in ReplicaRecord
  BY MapValue, Zenon DEF TypeOK
<1>3. Strengthened(replicas[r], replicas'[r])
  BY <1>1, Zenon DEF Strengthened
<1>4. HostIsLive(replicas'[r]) /\ replicas'[r].commit_recorded
      /\ (~make_owner => replicas'[r].authority # "AUTHORITATIVE_OWNER")
  <2>1. LET y == Committed(replicas[r], make_owner)
        IN /\ y.cluster = replicas[r].cluster /\ y.incarnation = replicas[r].incarnation
           /\ y.commit_recorded /\ (~make_owner => y.authority # "AUTHORITATIVE_OWNER")
    BY <1>2, Zenon DEF Committed, ReplicaRecord
  <2> QED  BY <1>1, <2>1, Zenon DEF HostIsLive
<1>5. \A q \in DOMAIN replicas \ {r} : ~(retiring /\ q = source) => KeptOrRetired(q)
  BY <1>1, PlanOthers, Zenon DEF KeptOrRetired, planned
<1>6. make_owner => \A q \in DOMAIN replicas \ {r} :
        replicas[q].key = replicas[r].key => replicas'[q].authority # "AUTHORITATIVE_OWNER"
  <2>1. \A q \in DOMAIN replicas : Retired(replicas[q]).authority = "HISTORICAL"
    BY <1>2, Zenon DEF Retired, ReplicaRecord
  <2> QED  BY <1>1, <2>1, PlanOthers, Zenon DEF planned
<1>7. retiring => KeptOrRetired(source)
  <2>1. retiring => \A k \in DOMAIN ownership' : ownership'[k] # source
    BY Zenon DEF PlannedOwnership, Put, OwnerIsNeverRetired
  <2> QED  BY <1>1, <2>1, Zenon DEF KeptOrRetired
<1> QED  BY <1>1, <1>3, <1>4, <1>5, <1>6, <1>7, Zenon DEF Gain, PlannedOwnership

\* Retirement is quiet: an owner is not retired in place.
LEMMA RetirementIsQuiet ==
  ASSUME AuthorityInv, NEW r, retire_replica(r)
  PROVE  Quiet
<1> USE DEF AuthorityInv
<1>1. /\ ~is_terminal(replicas[r]) /\ r \in DOMAIN replicas
      /\ ~(replicas[r].key \in DOMAIN ownership /\ ownership[replicas[r].key] = r)
      /\ replicas' = [replicas EXCEPT ![r] = Retired(replicas[r])]
      /\ UNCHANGED <<ownership, epoch, boot_epoch>>
  BY Zenon DEF retire_replica, guard_replica
<1>2. \A k \in DOMAIN ownership' : ownership'[k] # r
  BY <1>1, Zenon DEF OwnerIsNeverRetired
<1>3. DOMAIN replicas' = DOMAIN replicas /\ \A q \in DOMAIN replicas :
        replicas'[q] = IF q = r THEN Retired(replicas[r]) ELSE replicas[q]
  BY <1>1, Zenon
<1> QED  BY <1>1, <1>2, <1>3 DEF Quiet, KeptOrRetired, Weakened, TypeOK

\* So is the cancellation of an operation.
LEMMA CancelIsQuiet ==
  ASSUME AuthorityInv, NEW o, cancel_operation(o)
  PROVE  Quiet
<1> USE DEF AuthorityInv
<1> DEFINE r == operations[o].destination
<1>1. CASE r \in DOMAIN replicas /\ ~is_terminal(replicas[r]) /\ ~replicas[r].commit_recorded
  <2> DEFINE v == Abandoned(replicas[r])
  <2>1. /\ Weakened(replicas[r], v) /\ replicas' = [replicas EXCEPT ![r] = v]
        /\ UNCHANGED <<ownership, epoch, boot_epoch>>
    BY <1>1, Zenon DEF cancel_operation, Weakened
  <2> HIDE DEF v, r
  <2> QED  BY <2>1, WeakeningIsQuiet, Zenon
<1>2. CASE ~(r \in DOMAIN replicas /\ ~is_terminal(replicas[r])
             /\ ~replicas[r].commit_recorded)
  BY <1>2, UnchangedIsQuiet, Zenon DEF cancel_operation
<1> QED  BY <1>1, <1>2, Zenon

\* A replica mutation is a quiet step or the gain of exactly one replica.
LEMMA ReplicaStepShape ==
  ASSUME AuthorityInv, ReplicaStep
  PROVE  Quiet \/ \E r \in DOMAIN replicas : Gain(r)
<1> USE DEF AuthorityInv
<1> PICK r \in ReplicaId :
      \/ \E k \in StateKey, c \in Cluster, l \in {"RESERVED", "TRANSFERRING"} :
           register_replica(r, k, c, l)
      \/ \E o \in NamedOperation, failed \in BOOLEAN : record_transfer_progress(r, o, failed)
      \/ \E o \in NamedOperation, digest \in DigestInput :
           record_transfer_completion(r, o, digest)
      \/ \E o \in NamedOperation, digest \in DigestInput, compatibility \in CompatibilityInput :
           verify_replica(r, o, digest, compatibility)
      \/ \E make_owner \in BOOLEAN, strict \in BOOLEAN : commit_replica(r, make_owner, strict)
      \/ retire_replica(r)
      \/ quarantine_replica(r)
      \/ \E compatible \in BOOLEAN : revalidate_replica(r, compatible)
  BY Zenon DEF ReplicaStep
<1>1. ASSUME NEW k \in StateKey, NEW c \in Cluster, NEW l \in {"RESERVED", "TRANSFERRING"},
             register_replica(r, k, c, l)
      PROVE  Quiet
  BY <1>1, RegistrationIsQuiet, Zenon DEF register_replica, Minted
<1>2. ASSUME NEW o \in NamedOperation, NEW failed \in BOOLEAN,
             record_transfer_progress(r, o, failed)
      PROVE  Quiet
  <2> DEFINE v == IF failed THEN Abandoned(replicas[r])
                  ELSE [replicas[r] EXCEPT !.lifecycle = "TRANSFERRING"]
  <2>1. /\ Weakened(replicas[r], v) /\ replicas' = [replicas EXCEPT ![r] = v]
        /\ UNCHANGED <<ownership, epoch, boot_epoch>>
    BY <1>2, Zenon DEF record_transfer_progress, Weakened
  <2> HIDE DEF v
  <2> QED  BY <2>1, WeakeningIsQuiet, Zenon
<1>3. ASSUME NEW o \in NamedOperation, NEW digest \in DigestInput,
             record_transfer_completion(r, o, digest)
      PROVE  Quiet
  <2> DEFINE v == TransferredRecord(replicas[r], digest)
  <2>1. /\ Weakened(replicas[r], v) /\ replicas' = [replicas EXCEPT ![r] = v]
        /\ UNCHANGED <<ownership, epoch, boot_epoch>>
    BY <1>3, Inputs, Zenon DEF record_transfer_completion, Weakened, Digests
  <2> HIDE DEF v
  <2> QED  BY <2>1, WeakeningIsQuiet, Zenon
<1>4. ASSUME NEW o \in NamedOperation, NEW digest \in DigestInput,
             NEW compatibility \in CompatibilityInput,
             verify_replica(r, o, digest, compatibility)
      PROVE  Quiet
  <2> DEFINE v == VerifiedRecord(replicas[r], digest, compatibility)
  <2>1. /\ Weakened(replicas[r], v) /\ replicas' = [replicas EXCEPT ![r] = v]
        /\ UNCHANGED <<ownership, epoch, boot_epoch>>
    BY <1>4, Inputs, Zenon DEF verify_replica, Weakened, Digests, Verdicts
  <2> HIDE DEF v
  <2> QED  BY <2>1, WeakeningIsQuiet, Zenon
<1>5. ASSUME NEW make_owner \in BOOLEAN, NEW strict \in BOOLEAN,
             commit_replica(r, make_owner, strict)
      PROVE  r \in DOMAIN replicas /\ Gain(r)
  <2>1. FALSE \in BOOLEAN
    BY Zenon
  <2> QED  BY <1>5, <2>1, CommitIsGain, Zenon DEF commit_replica
<1>6. CASE retire_replica(r)
  BY <1>6, RetirementIsQuiet, Zenon
<1>7. CASE quarantine_replica(r)
  <2> DEFINE v == Quarantined(replicas[r])
  <2>1. /\ Weakened(replicas[r], v) /\ replicas' = [replicas EXCEPT ![r] = v]
        /\ UNCHANGED <<ownership, epoch, boot_epoch>>
    BY <1>7, Zenon DEF quarantine_replica, guard_replica, Weakened
  <2> HIDE DEF v
  <2> QED  BY <2>1, WeakeningIsQuiet, Zenon
<1>8. ASSUME NEW compatible \in BOOLEAN, revalidate_replica(r, compatible)
      PROVE  r \in DOMAIN replicas /\ Gain(r)
  <2> DEFINE x == replicas[r]
             owns == x.key \in DOMAIN ownership /\ ownership[x.key] = r
             v == Revalidated(x, owns)
  <2>1. /\ r \in DOMAIN replicas /\ replicas' = [replicas EXCEPT ![r] = v]
        /\ x.cluster \in DOMAIN clusters /\ clusters[x.cluster].live_authority
        /\ ~is_terminal(x) /\ x.integrity = "VERIFIED" /\ sets' = Advance({x.key})
        /\ UNCHANGED <<clusters, ownership, epoch, boot_epoch>>
    BY <1>8, Zenon DEF revalidate_replica
  <2>2. Strengthened(x, v)
    BY <2>1, Zenon DEF Strengthened
  <2>3. x \in ReplicaRecord
    BY <2>1, MapValue, Zenon DEF TypeOK
  <2>4. /\ v.cluster = x.cluster /\ v.incarnation = clusters[x.cluster].incarnation
        /\ v.authority = "AUTHORITATIVE_OWNER" => owns
    BY <2>3, Zenon DEF Revalidated, ReplicaRecord
  <2> HIDE DEF v
  <2>5. HostIsLive(v)
    BY <2>1, <2>4, Zenon DEF HostIsLive
  <2>6. DOMAIN replicas' = DOMAIN replicas /\ replicas'[r] = v
        /\ \A q \in DOMAIN replicas \ {r} : replicas'[q] = replicas[q]
    BY <2>1, Zenon
  <2>7. \A q \in DOMAIN replicas \ {r} : KeptOrRetired(q)
    BY <2>6, Zenon DEF KeptOrRetired, Weakened
  <2> QED  BY <2>1, <2>2, <2>4, <2>5, <2>6, <2>7, Zenon DEF Gain
<1> QED  BY <1>1, <1>2, <1>3, <1>4, <1>5, <1>6, <1>7, <1>8, Zenon

\* An operation mutation is a quiet step or the gain of the operation's destination.
LEMMA OperationStepShape ==
  ASSUME AuthorityInv, OperationStep
  PROVE  Quiet \/ \E r \in DOMAIN replicas : Gain(r)
<1> USE DEF AuthorityInv
<1> PICK o \in OperationId :
      \/ \E r, source \in ReplicaId, k \in StateKey, c \in Cluster :
           authorize_replication(o, r, k, source, c)
      \/ \E r, source \in ReplicaId, k \in StateKey, c \in Cluster, retire \in BOOLEAN :
           authorize_migration(o, r, k, retire, source, c)
      \/ \E retire_source \in BOOLEAN : commit_operation(o, retire_source)
      \/ cancel_operation(o)
  BY Zenon DEF OperationStep
<1>1. ASSUME NEW r, NEW source, NEW k, NEW c, NEW kind, NEW b,
             authorize_transaction(o, r, k, kind, b, source, c)
      PROVE  Quiet
  BY <1>1, RegistrationIsQuiet, Zenon DEF authorize_transaction, Minted
<1>2. CASE cancel_operation(o)
  BY <1>2, CancelIsQuiet, Zenon
<1>3. ASSUME NEW retire_source \in BOOLEAN, commit_operation(o, retire_source)
      PROVE  \E r \in DOMAIN replicas : Gain(r)
  <2> DEFINE op == operations[o]
             r == op.destination
             make_owner == op.kind = "MIGRATION" \/ states[op.key].single_owner
             retiring == /\ retire_source
                         /\ op.source \in DOMAIN replicas /\ op.source # r
                         /\ ~is_terminal(replicas[op.source])
  <2>0. o \in DOMAIN operations /\ r \in DOMAIN replicas /\ op.key \in DOMAIN states
    BY <1>3, Zenon DEF commit_operation
  <2>1. states[op.key] \in StateRecord
    BY <2>0, TypedRecords, Zenon
  <2>2. make_owner \in BOOLEAN /\ retiring \in BOOLEAN
    BY <2>1, Zenon DEF StateRecord
  <2>3. LET x == replicas[r]
        IN /\ HostIsLive(x) /\ ~x.revalidation_required /\ x.lifecycle = "PREPARED"
    BY <1>3, Zenon DEF commit_operation
  <2>4. retiring => /\ make_owner /\ op.source \in DOMAIN replicas /\ op.source # r
                    /\ ~is_terminal(replicas[op.source])
                    /\ replicas[op.source].key = replicas[r].key
    <3>1. retire_source => op.destructive_move
      BY <1>3, Zenon DEF commit_operation
    <3> QED  BY <2>0, <3>1, Zenon DEF OperationInv, replicas_of_state
  <2>5. LET planned == plan_authoritative_commit(r, make_owner)
        IN replicas' = IF retiring
                       THEN [planned EXCEPT ![op.source] = Retired(replicas[op.source])]
                       ELSE planned
    BY <1>3, Zenon DEF commit_operation
  <2>6. ownership' = PlannedOwnership(r, make_owner) /\ UNCHANGED <<clusters, epoch, boot_epoch>>
        /\ sets' = Advance({op.key})
    BY <1>3, Zenon DEF commit_operation
  <2>7. op.key = replicas[r].key
    BY <2>0, Zenon DEF OperationInv, replicas_of_state
  <2> HIDE DEF op, r, make_owner, retiring
  <2> QED  BY <2>0, <2>2, <2>3, <2>4, <2>5, <2>6, <2>7, CommitIsGain, Zenon
<1> QED  BY <1>1, <1>2, <1>3, Zenon DEF authorize_replication, authorize_migration

\* A handoff is the gain of the replica it names.
LEMMA OwnershipStepShape ==
  ASSUME AuthorityInv, OwnershipStep
  PROVE  \E r \in DOMAIN replicas : Gain(r)
<1> USE DEF AuthorityInv
<1> PICK k \in StateKey, r \in ReplicaId : transfer_ownership(k, r)
  BY Zenon DEF OwnershipStep
<1> DEFINE x == replicas[r]
<1>1. /\ r \in DOMAIN replicas /\ x.integrity = "VERIFIED" /\ x.key = k /\ HostIsLive(x)
      /\ x.commit_recorded \/ x.lifecycle = "PREPARED"
      /\ replicas' = [Demoted(r, k) EXCEPT ![r] = Promoted(@)]
      /\ ownership' = Put(ownership, k, r) /\ sets' = Advance({k})
      /\ UNCHANGED <<clusters, epoch, boot_epoch>>
  BY Zenon DEF transfer_ownership
<1>2. DOMAIN replicas' = DOMAIN replicas /\ replicas'[r] = Promoted(x)
      /\ \A q \in DOMAIN replicas \ {r} : replicas'[q] = Demoted(r, k)[q]
  BY <1>1, DemotedType, Zenon
<1>3. x \in ReplicaRecord
  BY <1>1, MapValue, Zenon DEF TypeOK
<1>4. HostIsLive(Promoted(x)) /\ Promoted(x).commit_recorded
  BY <1>1, <1>3, Zenon DEF HostIsLive, Promoted, ReplicaRecord
<1>5. Strengthened(x, Promoted(x))
  BY <1>1, Zenon DEF Strengthened
<1>6. \A q \in DOMAIN replicas \ {r} :
        KeptOrRetired(q) /\ (replicas[q].key = k => replicas'[q].authority # "AUTHORITATIVE_OWNER")
  BY <1>1, <1>2, DemotedOthers, Zenon DEF KeptOrRetired
<1> QED  BY <1>1, <1>2, <1>4, <1>5, <1>6, Zenon DEF Gain

-----------------------------------------------------------------------------
(* The inductive step *)

\* What a kept or retired replica record satisfies after the step.
LEMMA KeptRecord ==
  ASSUME AuthorityInv, NEW q \in DOMAIN replicas, KeptOrRetired(q)
  PROVE  /\ Unpromoted(replicas[q], replicas'[q])
         /\ RecordInv(replicas'[q]) /\ Fresh(replicas'[q])
         /\ \/ is_terminal(replicas'[q]) /\ replicas[q].commit_recorded => is_terminal(replicas[q])
            \/ \A k \in DOMAIN ownership' : ownership'[k] # q
<1>1. replicas[q] \in ReplicaRecord /\ RecordInv(replicas[q]) /\ Fresh(replicas[q])
  BY MapValue, Zenon DEF AuthorityInv, TypeOK, ReplicaInv
<1>2. CASE Weakened(replicas[q], replicas'[q])
  BY <1>1, <1>2, WeakenedKeeps, Zenon DEF AuthorityInv, TypeOK
<1>3. CASE ~Weakened(replicas[q], replicas'[q])
  BY <1>1, <1>3, RetiredKeeps, Zenon DEF KeptOrRetired
<1> QED  BY <1>2, <1>3, Zenon

\* A quiet step keeps the records consistent and ownership unique, and counts no replica
\* that did not count before.
LEMMA QuietKeeps ==
  ASSUME AuthorityInv, Quiet
  PROVE  /\ SingleOwner' /\ OwnerIsNeverRetired'
         /\ \A r \in DOMAIN replicas' :
              /\ RecordInv(replicas'[r]) /\ Fresh(replicas[r])'
              /\ replicas'[r].counts_toward_factor =>
                   /\ r \in DOMAIN replicas /\ replicas[r].counts_toward_factor
                   /\ Unpromoted(replicas[r], replicas'[r])
<1>1. \A r \in DOMAIN replicas' \ DOMAIN replicas :
        RecordInv(replicas'[r]) /\ Fresh(replicas'[r])
  BY Zenon DEF Quiet, Blank, RecordInv, Fresh, is_terminal
<1>2. \A r \in DOMAIN replicas :
        /\ Unpromoted(replicas[r], replicas'[r])
        /\ RecordInv(replicas'[r]) /\ Fresh(replicas'[r])
        /\ \/ is_terminal(replicas'[r]) /\ replicas[r].commit_recorded => is_terminal(replicas[r])
           \/ \A k \in DOMAIN ownership' : ownership'[k] # r
  BY KeptRecord, Zenon DEF Quiet
<1>3. \A r \in DOMAIN replicas' : Fresh(replicas'[r]) => Fresh(replicas[r])'
  BY Zenon DEF Fresh, Quiet
<1>4. SingleOwner'
  <2>1. \A r \in DOMAIN replicas' : replicas'[r].authority = "AUTHORITATIVE_OWNER" =>
          r \in DOMAIN replicas /\ replicas[r].authority = "AUTHORITATIVE_OWNER"
          /\ replicas'[r].key = replicas[r].key
    BY <1>2, Zenon DEF Quiet, Blank, Unpromoted
  <2>2. ownership' = ownership /\ SingleOwner
    BY Zenon DEF Quiet, AuthorityInv
  <2> QED  BY <2>1, <2>2, Zenon DEF SingleOwner
<1>5. OwnerIsNeverRetired'
  <2>1. /\ ownership' = ownership /\ DOMAIN replicas \subseteq DOMAIN replicas'
        /\ OwnerIsNeverRetired
    BY Zenon DEF Quiet, AuthorityInv
  <2>2. \A r \in DOMAIN replicas :
          /\ replicas'[r].key = replicas[r].key
          /\ replicas[r].commit_recorded => replicas'[r].commit_recorded
    BY <1>2, Zenon DEF Unpromoted
  <2>3. ASSUME NEW k \in DOMAIN ownership
        PROVE  /\ ownership[k] \in DOMAIN replicas'
               /\ replicas'[ownership[k]].key = k
               /\ replicas'[ownership[k]].commit_recorded
               /\ ~is_terminal(replicas'[ownership[k]])
    <3>1. /\ ownership[k] \in DOMAIN replicas /\ replicas[ownership[k]].key = k
          /\ replicas[ownership[k]].commit_recorded /\ ~is_terminal(replicas[ownership[k]])
      BY <2>1, Zenon DEF OwnerIsNeverRetired
    <3>2. ~is_terminal(replicas'[ownership[k]])
      BY <1>2, <2>1, <3>1, Zenon
    <3> QED  BY <2>1, <2>2, <3>1, <3>2, Zenon
  <2> QED  BY <2>1, <2>3, Zenon DEF OwnerIsNeverRetired
<1>6. \A r \in DOMAIN replicas' : replicas'[r].counts_toward_factor =>
        /\ r \in DOMAIN replicas /\ replicas[r].counts_toward_factor
        /\ Unpromoted(replicas[r], replicas'[r])
  BY <1>2, Zenon DEF Quiet, Blank, Unpromoted
<1> QED  BY <1>1, <1>2, <1>3, <1>4, <1>5, <1>6, Zenon

\* A counted replica whose host was live stays so while its cluster is left alone.
LEMMA QuietReplicaInv ==
  ASSUME AuthorityInv, Quiet, clusters' = clusters
  PROVE  ReplicaInv'
<1>1. ASSUME NEW r \in DOMAIN replicas', replicas'[r].counts_toward_factor
      PROVE  HostIsLive(replicas[r])'
  BY SMTT(60), <1>1, QuietKeeps DEF AuthorityInv, ReplicaInv, Unpromoted, HostIsLive
<1>2. \A r \in DOMAIN replicas' : RecordInv(replicas'[r]) => RecordInv(replicas[r])'
  BY Zenon DEF RecordInv, is_terminal
<1> QED  BY <1>1, <1>2, QuietKeeps, Zenon DEF ReplicaInv

\* A record that still owns a generation after a step that weakens it is committed and not
\* terminal.
LEMMA OwnerKeeps ==
  ASSUME AuthorityInv, NEW k \in DOMAIN ownership, NEW y, Unpromoted(replicas[ownership[k]], y),
         is_terminal(y) /\ replicas[ownership[k]].commit_recorded =>
           is_terminal(replicas[ownership[k]])
  PROVE  y.key = k /\ y.commit_recorded /\ ~is_terminal(y)
<1>1. /\ replicas[ownership[k]].key = k /\ replicas[ownership[k]].commit_recorded
      /\ ~is_terminal(replicas[ownership[k]])
  BY Zenon DEF OwnerIsNeverRetired, AuthorityInv
<1>2. y.key = replicas[ownership[k]].key
      /\ (y.commit_recorded <=> replicas[ownership[k]].commit_recorded)
  BY Zenon DEF Unpromoted
<1> QED  BY <1>1, <1>2, Zenon

\* A gain keeps the records consistent and ownership unique.
LEMMA GainKeeps ==
  ASSUME AuthorityInv, NEW r \in DOMAIN replicas, Gain(r)
  PROVE  ReplicaInv' /\ SingleOwner' /\ OwnerIsNeverRetired'
<1> DEFINE x == replicas[r]
           y == replicas'[r]
<1>1. /\ RecordInv(y) /\ Fresh(y) /\ y.key = x.key /\ ~is_terminal(y)
      /\ x.commit_recorded => y.commit_recorded
  <2>1. x \in ReplicaRecord /\ RecordInv(x) /\ Fresh(x)
    BY MapValue, Zenon DEF AuthorityInv, TypeOK, ReplicaInv
  <2> QED  BY <2>1, StrengthenedKeeps, Zenon DEF AuthorityInv, TypeOK, Gain
<1>2. \A q \in DOMAIN replicas \ {r} :
        /\ Unpromoted(replicas[q], replicas'[q])
        /\ RecordInv(replicas'[q]) /\ Fresh(replicas'[q])
        /\ \/ is_terminal(replicas'[q]) /\ replicas[q].commit_recorded => is_terminal(replicas[q])
           \/ \A k \in DOMAIN ownership' : ownership'[k] # q
  BY KeptRecord, Zenon DEF Gain
<1>3. DOMAIN replicas' = DOMAIN replicas
  BY Zenon DEF Gain
<1>4. ReplicaInv'
  <2>1. \A q \in DOMAIN replicas' : RecordInv(replicas'[q]) /\ Fresh(replicas'[q])
    BY <1>1, <1>2, <1>3, Zenon
  <2>2. \A q \in DOMAIN replicas' : RecordInv(replicas[q])' /\ Fresh(replicas[q])'
    BY <2>1, Zenon DEF RecordInv, is_terminal, Fresh, Gain
  <2>3. HostIsLive(replicas[r])'
    BY Zenon DEF HostIsLive, Gain
  <2>4. ASSUME NEW q \in DOMAIN replicas \ {r}, replicas'[q].counts_toward_factor
        PROVE  HostIsLive(replicas[q])'
    <3>1. /\ replicas[q].counts_toward_factor
          /\ replicas'[q].cluster = replicas[q].cluster
          /\ replicas'[q].incarnation = replicas[q].incarnation
      BY <1>2, <2>4, Zenon DEF Unpromoted
    <3>2. HostIsLive(replicas[q])
      BY <2>4, <3>1, Zenon DEF AuthorityInv, ReplicaInv
    <3>3. clusters' = clusters
      BY Zenon DEF Gain
    <3> QED  BY <3>1, <3>2, <3>3, Zenon DEF HostIsLive
  <2> QED  BY <1>3, <2>2, <2>3, <2>4, Zenon DEF ReplicaInv
<1>5. CASE ownership' = ownership /\ (y.authority = "AUTHORITATIVE_OWNER" =>
             x.key \in DOMAIN ownership /\ ownership[x.key] = r)
  <2>1. SingleOwner'
    <3>1. ASSUME NEW q \in DOMAIN replicas, replicas'[q].authority = "AUTHORITATIVE_OWNER"
          PROVE  replicas'[q].key \in DOMAIN ownership /\ ownership[replicas'[q].key] = q
      <4>1. CASE q = r
        BY <1>1, <1>5, <3>1, <4>1, Zenon
      <4>2. CASE q # r
        <5>1. replicas'[q].key = replicas[q].key /\ replicas[q].authority = "AUTHORITATIVE_OWNER"
          BY <1>2, <3>1, <4>2, Zenon DEF Unpromoted
        <5> QED  BY <5>1, Zenon DEF SingleOwner, AuthorityInv
      <4> QED  BY <4>1, <4>2, Zenon
    <3> QED  BY <1>3, <1>5, <3>1, Zenon DEF SingleOwner
  <2>2. OwnerIsNeverRetired'
    <3>1. ASSUME NEW k \in DOMAIN ownership
          PROVE  /\ ownership[k] \in DOMAIN replicas /\ replicas'[ownership[k]].key = k
                 /\ replicas'[ownership[k]].commit_recorded
                 /\ ~is_terminal(replicas'[ownership[k]])
      <4>1. /\ ownership[k] \in DOMAIN replicas /\ replicas[ownership[k]].key = k
            /\ replicas[ownership[k]].commit_recorded
        BY <3>1, Zenon DEF OwnerIsNeverRetired, AuthorityInv
      <4>2. CASE ownership[k] = r
        BY <1>1, <4>1, <4>2, Zenon
      <4>3. CASE ownership[k] # r
        <5>1. ownership[k] \in DOMAIN replicas \ {r} /\ k \in DOMAIN ownership'
              /\ ownership'[k] = ownership[k]
          BY <1>5, <3>1, <4>1, <4>3, Zenon
        <5> QED  BY <1>2, <4>1, <5>1, OwnerKeeps, Zenon
      <4> QED  BY <4>2, <4>3, Zenon
    <3> QED  BY <1>3, <1>5, <3>1, Zenon DEF OwnerIsNeverRetired, is_terminal
  <2> QED  BY <1>4, <2>1, <2>2, Zenon
<1>6. CASE /\ ownership' = Put(ownership, x.key, r) /\ y.commit_recorded
           /\ \A q \in DOMAIN replicas \ {r} :
                replicas[q].key = x.key => replicas'[q].authority # "AUTHORITATIVE_OWNER"
  <2>0. /\ DOMAIN ownership' = DOMAIN ownership \cup {x.key} /\ ownership'[x.key] = r
        /\ \A k \in DOMAIN ownership \ {x.key} : ownership'[k] = ownership[k]
    BY <1>6, Zenon DEF Put
  <2>1. SingleOwner'
    <3>1. ASSUME NEW q \in DOMAIN replicas, replicas'[q].authority = "AUTHORITATIVE_OWNER"
          PROVE  replicas'[q].key \in DOMAIN ownership' /\ ownership'[replicas'[q].key] = q
      <4>1. CASE q = r
        BY <1>1, <2>0, <4>1, Zenon
      <4>2. CASE q # r
        <5>1. replicas'[q].key = replicas[q].key /\ replicas[q].authority = "AUTHORITATIVE_OWNER"
          BY <1>2, <3>1, <4>2, Zenon DEF Unpromoted
        <5>2. replicas[q].key # x.key
          BY <1>6, <3>1, <4>2, Zenon
        <5>3. replicas[q].key \in DOMAIN ownership /\ ownership[replicas[q].key] = q
          BY <5>1, Zenon DEF SingleOwner, AuthorityInv
        <5> QED  BY <2>0, <5>1, <5>2, <5>3, Zenon
      <4> QED  BY <4>1, <4>2, Zenon
    <3> QED  BY <1>3, <3>1, Zenon DEF SingleOwner
  <2>2. OwnerIsNeverRetired'
    <3>1. ASSUME NEW k \in DOMAIN ownership'
          PROVE  /\ ownership'[k] \in DOMAIN replicas /\ replicas'[ownership'[k]].key = k
                 /\ replicas'[ownership'[k]].commit_recorded
                 /\ ~is_terminal(replicas'[ownership'[k]])
      <4>1. CASE k = x.key
        BY <1>1, <1>6, <2>0, <4>1, Zenon
      <4>2. CASE k # x.key
        <5>1. k \in DOMAIN ownership /\ ownership'[k] = ownership[k]
          BY <2>0, <4>2, Zenon
        <5>2. ownership[k] \in DOMAIN replicas /\ replicas[ownership[k]].key = k
          BY <5>1, Zenon DEF OwnerIsNeverRetired, AuthorityInv
        <5>3. ownership[k] # r
          BY <4>2, <5>2, Zenon
        <5> DEFINE q == ownership[k]
        <5>4. q \in DOMAIN replicas \ {r} /\ k \in DOMAIN ownership' /\ ownership'[k] = q
          BY <3>1, <5>1, <5>2, <5>3, Zenon
        <5>5. Unpromoted(replicas[q], replicas'[q])
              /\ (is_terminal(replicas'[q]) /\ replicas[q].commit_recorded
                    => is_terminal(replicas[q]))
          BY <1>2, <5>4, Zenon
        <5>6. replicas'[q].key = k /\ replicas'[q].commit_recorded /\ ~is_terminal(replicas'[q])
          BY <5>1, <5>5, OwnerKeeps, Zenon
        <5> QED  BY <5>2, <5>4, <5>6, Zenon
      <4> QED  BY <4>1, <4>2, Zenon
    <3> QED  BY <1>3, <3>1, Zenon DEF OwnerIsNeverRetired, is_terminal
  <2> QED  BY <1>4, <2>1, <2>2, Zenon
<1> QED  BY <1>5, <1>6, Zenon DEF Gain

\* The host of the record is live after the step.
LiveAfter(x) == /\ x.cluster \in DOMAIN clusters'
                /\ clusters'[x.cluster].live_authority
                /\ clusters'[x.cluster].incarnation = x.incarnation

\* A quiet step keeps the invariant on replicas when it leaves the hosts of the replicas
\* that still count live.
LEMMA LiveHostsSuffice ==
  ASSUME AuthorityInv, Quiet,
         \A r \in DOMAIN replicas : 
           (/\ replicas[r].counts_toward_factor /\ replicas'[r].counts_toward_factor
            /\ HostIsLive(replicas[r]) /\ ~is_terminal(replicas[r])) => LiveAfter(replicas[r])
  PROVE  ReplicaInv'
<1>1. \A r \in DOMAIN replicas' : RecordInv(replicas'[r]) => RecordInv(replicas[r])'
  BY Zenon DEF RecordInv, is_terminal
<1>2. \A r \in DOMAIN replicas : replicas[r].counts_toward_factor =>
        HostIsLive(replicas[r]) /\ ~is_terminal(replicas[r])
  BY Zenon DEF AuthorityInv, ReplicaInv, RecordInv
<1>3. \A r \in DOMAIN replicas :
        LiveAfter(replicas[r]) /\ Unpromoted(replicas[r], replicas'[r]) => HostIsLive(replicas[r])'
  BY Zenon DEF HostIsLive, LiveAfter, Unpromoted
<1> QED  BY <1>1, <1>2, <1>3, QuietKeeps, Zenon DEF ReplicaInv

\* A fenced replica does not count.
LEMMA FencedDoNotCount ==
  ASSUME TypeOK, NEW R, NEW l, NEW b, FenceAll(R, l, b), NEW r \in R, r \in DOMAIN replicas
  PROVE  ~replicas'[r].counts_toward_factor
<1>1. replicas[r] \in ReplicaRecord
  BY MapValue, Zenon DEF TypeOK
<1>2. replicas'[r] = Fence(replicas[r], l, b)
  BY Zenon DEF FenceAll
<1> QED  BY <1>1, <1>2, Zenon DEF Fence, ReplicaRecord

\* Fencing takes the counted replicas of a cluster out before its live incarnation ends.
LEMMA ClusterStepKeeps ==
  ASSUME AuthorityInv, ClusterStep
  PROVE  ReplicaInv' /\ ClusterFresh'
<1> USE DEF AuthorityInv
<1>0. Quiet
  BY ClusterStepIsQuiet, Zenon
<1>1. \A r \in DOMAIN replicas : replicas[r] \in ReplicaRecord
  BY MapValue, Zenon DEF TypeOK
<1>2. \A d \in DOMAIN clusters : clusters[d] \in ClusterRecord
  BY MapValue, Zenon DEF TypeOK
<1> DEFINE Counted(r) == /\ replicas[r].counts_toward_factor /\ replicas'[r].counts_toward_factor
                         /\ HostIsLive(replicas[r]) /\ ~is_terminal(replicas[r])
<1> SUFFICES ClusterFresh' /\ \A r \in DOMAIN replicas : Counted(r) => LiveAfter(replicas[r])
  BY <1>0, LiveHostsSuffice, Zenon
<1>3. boot_epoch' = boot_epoch /\ epoch \in Nat /\ boot_epoch \in Nat
  BY <1>0, Zenon DEF Quiet, TypeOK
<1> PICK c \in Cluster : \/ \E new_boot \in BOOLEAN : register_cluster(c, new_boot)
                         \/ publish_cluster_evidence(c)
                         \/ mark_cluster_unreachable(c)
                         \/ retire_cluster(c)
  BY Zenon DEF ClusterStep
<1>4. ASSUME NEW new_boot \in BOOLEAN, register_cluster(c, new_boot)
      PROVE  ClusterFresh' /\ \A r \in DOMAIN replicas : Counted(r) => LiveAfter(replicas[r])
  <2> DEFINE registered == c \in DOMAIN clusters
             i == IF ~registered THEN 1
                  ELSE clusters[c].incarnation + (IF registered /\ new_boot THEN 1 ELSE 0)
             R == IF registered /\ new_boot
                  THEN {r \in Hosted(c) : replicas[r].incarnation # i} ELSE {}
  <2>1. FenceAll(R, "REVALIDATION_REQUIRED", FALSE)
    BY <1>4, Zenon DEF register_cluster
  <2>2. /\ DOMAIN clusters' = DOMAIN clusters \cup {c}
        /\ clusters'[c].incarnation = i /\ clusters'[c].live_authority
        /\ clusters'[c].last_evidence_epoch = epoch
        /\ \A d \in DOMAIN clusters \ {c} : clusters'[d] = clusters[d]
    BY <1>4, Zenon DEF register_cluster, Put
  <2>3. ASSUME NEW r \in DOMAIN replicas, Counted(r), replicas[r].cluster = c
        PROVE  clusters[c].incarnation = i
    <3>1. r \notin R
      BY <2>1, <2>3, FencedDoNotCount, Zenon
    <3>2. registered /\ replicas[r].incarnation = clusters[c].incarnation /\ r \in Hosted(c)
      BY <2>3, Zenon DEF HostIsLive, Hosted
    <3>3. clusters[c].incarnation \in Nat
      BY <1>2, <3>2, Zenon DEF ClusterRecord
    <3> QED  BY SMTT(60), <3>1, <3>2, <3>3
  <2> HIDE DEF i, R
  <2>4. \A r \in DOMAIN replicas : Counted(r) => LiveAfter(replicas[r])
    BY <2>2, <2>3, Zenon DEF LiveAfter, HostIsLive
  <2>5. ClusterFresh'
    BY <1>3, <2>2, Zenon DEF ClusterFresh
  <2> QED  BY <2>4, <2>5, Zenon
<1>5. CASE publish_cluster_evidence(c)
  <2>1. /\ DOMAIN clusters' = DOMAIN clusters /\ c \in DOMAIN clusters
        /\ clusters'[c] = Evidenced(clusters[c])
        /\ \A d \in DOMAIN clusters \ {c} : clusters'[d] = clusters[d]
    BY <1>5, Zenon DEF publish_cluster_evidence
  <2>2. LET x == Evidenced(clusters[c])
        IN /\ x.incarnation = clusters[c].incarnation
           /\ x.live_authority <=> clusters[c].live_authority
           /\ x.last_evidence_epoch = epoch
    BY <1>2, <2>1, Zenon DEF Evidenced, ClusterRecord
  <2>3. \A r \in DOMAIN replicas : Counted(r) => LiveAfter(replicas[r])
    BY <2>1, <2>2, Zenon DEF LiveAfter, HostIsLive
  <2>4. ClusterFresh'
    BY <1>3, <2>1, <2>2, Zenon DEF ClusterFresh
  <2> QED  BY <2>3, <2>4, Zenon
<1>6. ASSUME NEW l, NEW b, FenceAll(LiveHosted(c), l, b),
             DOMAIN clusters' = DOMAIN clusters, ~clusters'[c].evidence_present,
             \A d \in DOMAIN clusters \ {c} : clusters'[d] = clusters[d]
      PROVE  ClusterFresh' /\ \A r \in DOMAIN replicas : Counted(r) => LiveAfter(replicas[r])
  <2>1. \A r \in DOMAIN replicas : Counted(r) => replicas[r].cluster # c
    BY SMTT(60), <1>6, FencedDoNotCount DEF LiveHosted, Hosted, HostIsLive
  <2>2. \A r \in DOMAIN replicas : Counted(r) => LiveAfter(replicas[r])
    BY <1>6, <2>1, Zenon DEF LiveAfter, HostIsLive
  <2>3. ClusterFresh'
    BY <1>3, <1>6, Zenon DEF ClusterFresh
  <2> QED  BY <2>2, <2>3, Zenon
<1>7. CASE mark_cluster_unreachable(c)
  <2>1. DOMAIN clusters' = DOMAIN clusters /\ ~clusters'[c].evidence_present
        /\ \A d \in DOMAIN clusters \ {c} : clusters'[d] = clusters[d]
    BY <1>2, <1>7, Zenon DEF mark_cluster_unreachable, ClusterRecord
  <2>2. FenceAll(LiveHosted(c), "STALE", FALSE)
    BY <1>7, Zenon DEF mark_cluster_unreachable
  <2> QED  BY <1>6, <2>1, <2>2, Zenon
<1>8. CASE retire_cluster(c)
  <2>1. DOMAIN clusters' = DOMAIN clusters /\ ~clusters'[c].evidence_present
        /\ \A d \in DOMAIN clusters \ {c} : clusters'[d] = clusters[d]
    BY <1>2, <1>8, Zenon DEF retire_cluster, ClusterRecord
  <2>2. FenceAll(LiveHosted(c), "STALE", TRUE)
    BY <1>8, Zenon DEF retire_cluster
  <2> QED  BY <1>6, <2>1, <2>2, Zenon
<1> QED  BY <1>4, <1>5, <1>7, <1>8, Zenon

-----------------------------------------------------------------------------
(* What a step does to the operation records *)

\* A revision of an operation keeps what it was authorized for, and a finished operation.
SameOrder(x, y) ==
  /\ y.key = x.key /\ y.kind = x.kind /\ y.source = x.source /\ y.destination = x.destination
  /\ y.destructive_move <=> x.destructive_move
  /\ y.set_generation = x.set_generation /\ y.planned_epoch = x.planned_epoch
  /\ OperationIsTerminal(x) => y = x

\* An operation that this step authorizes.
NewOrder(x) ==
  /\ x.key \in DOMAIN sets /\ x.set_generation = sets[x.key].generation
  /\ x.planned_epoch = epoch
  /\ x.destructive_move => x.kind = "MIGRATION"
  /\ x.source \in replicas_of_state(x.key) /\ ~x.source_retired /\ x.state = "RESERVED"
  /\ x.destination \in DOMAIN replicas' \ DOMAIN replicas
  /\ replicas'[x.destination].key = x.key /\ ~replicas'[x.destination].commit_recorded

OperationsShape ==
  /\ DOMAIN operations \subseteq DOMAIN operations'
  /\ \A o \in DOMAIN operations : SameOrder(operations[o], operations'[o])
  /\ \A o \in DOMAIN operations' \ DOMAIN operations : NewOrder(operations'[o])

\* A step that leaves the operations alone has the shape every step has on them.
LEMMA UnchangedOperations ==
  ASSUME operations' = operations
  PROVE  OperationsShape
BY Zenon DEF OperationsShape, SameOrder

\* advance_operation changes at most the state of one operation that is not terminal.
LEMMA AdvancedOperation ==
  ASSUME TypeOK, NEW o, NEW state, advance_operation(o, state)
  PROVE  OperationsShape
<1>1. \A p \in DOMAIN operations : operations[p] \in OperationRecord
  BY MapValue, Zenon DEF TypeOK
<1>2. DOMAIN operations' = DOMAIN operations
      /\ \A p \in DOMAIN operations : operations'[p] =
           IF p = o /\ ~OperationIsTerminal(operations[o])
           THEN [operations[p] EXCEPT !.state = state] ELSE operations[p]
  BY Zenon DEF advance_operation, TypeOK, IsMap
<1> QED  BY <1>1, <1>2, Zenon DEF OperationsShape, SameOrder, OperationRecord

\* Every step keeps the orders of the operations and the outcome of the finished ones.
LEMMA OperationsStep ==
  ASSUME TypeOK, [Next]_vars
  PROVE  OperationsShape
<1>0. \A p \in DOMAIN operations : operations[p] \in OperationRecord
  BY MapValue, Zenon DEF TypeOK
<1>1. CASE StateStep \/ ClusterStep \/ OwnershipStep \/ advance_epoch \/ UNCHANGED vars
  <2>1. operations' = operations
    BY <1>1, Zenon DEF StateStep, register_state, publish_state_generation, commit_state_generation,
         ClusterStep, register_cluster, publish_cluster_evidence, mark_cluster_unreachable,
         retire_cluster, OwnershipStep, transfer_ownership, advance_epoch, vars
  <2> QED  BY <2>1, UnchangedOperations, Zenon
<1>2. CASE ReplicaStep
  <2>1. operations' = operations \/ \E o, state : advance_operation(o, state)
    BY ZenonT(60), <1>2 DEF ReplicaStep, register_replica, record_transfer_progress,
         record_transfer_completion, verify_replica, commit_replica, retire_replica,
         quarantine_replica, revalidate_replica
  <2> QED  BY <2>1, UnchangedOperations, AdvancedOperation, Zenon
<1>3. CASE initialize
  <2>1. DOMAIN operations' = DOMAIN operations
        /\ \A o \in DOMAIN operations : operations'[o] = RecoveredOperation(operations[o])
    BY <1>3, Zenon DEF initialize
  <2> QED  BY ZenonT(60), <1>0, <2>1 DEF OperationsShape, SameOrder, RecoveredOperation, OperationRecord
<1>4. CASE OperationStep
  <2> PICK o \in OperationId :
        \/ \E r, source \in ReplicaId, k \in StateKey, c \in Cluster :
             authorize_replication(o, r, k, source, c)
        \/ \E r, source \in ReplicaId, k \in StateKey, c \in Cluster, retire \in BOOLEAN :
             authorize_migration(o, r, k, retire, source, c)
        \/ \E retire_source \in BOOLEAN : commit_operation(o, retire_source)
        \/ cancel_operation(o)
    BY <1>4, Zenon DEF OperationStep
  <2>1. ASSUME NEW r, NEW source, NEW k, NEW c, NEW kind, NEW b \in BOOLEAN,
               b => kind = "MIGRATION", authorize_transaction(o, r, k, kind, b, source, c)
        PROVE  OperationsShape
    <3>1. o \notin DOMAIN operations /\ r \notin DOMAIN replicas /\ k \in DOMAIN sets
          /\ source \in replicas_of_state(k)
      BY <2>1, Zenon DEF authorize_transaction, Minted, source_candidates, TypeOK
    <3>2. /\ DOMAIN operations' = DOMAIN operations \cup {o}
          /\ \A p \in DOMAIN operations : operations'[p] = operations[p]
          /\ operations'[o] =
               [kind |-> kind, state |-> "RESERVED", key |-> k, source |-> source,
                destination |-> r, set_generation |-> sets[k].generation, destructive_move |-> b,
                destination_committed |-> FALSE, source_retired |-> FALSE,
                planned_epoch |-> epoch]
      BY <2>1, <3>1, Zenon DEF authorize_transaction, Put
    <3>3. r \in DOMAIN replicas' /\ replicas'[r].key = k /\ ~replicas'[r].commit_recorded
      BY <2>1, Zenon DEF authorize_transaction, Put, NewReplica
    <3>4. NewOrder(operations'[o])
      <4> DEFINE v == [kind |-> kind, state |-> "RESERVED", key |-> k, source |-> source,
                destination |-> r, set_generation |-> sets[k].generation, destructive_move |-> b,
                destination_committed |-> FALSE, source_retired |-> FALSE,
                planned_epoch |-> epoch]
      <4>1. /\ v.key = k /\ v.set_generation = sets[k].generation /\ v.planned_epoch = epoch
            /\ v.destructive_move = b /\ v.kind = kind /\ v.source = source
            /\ ~v.source_retired /\ v.state = "RESERVED" /\ v.destination = r
        BY Zenon
      <4>2. operations'[o] = v
        BY <3>2, Zenon
      <4> HIDE DEF v
      <4>3. NewOrder(v)
        BY <2>1, <3>1, <3>3, <4>1, Zenon DEF NewOrder
      <4> QED  BY <4>2, <4>3, Zenon
    <3> QED  BY <3>1, <3>2, <3>4, Zenon DEF OperationsShape, SameOrder
  <2>2. ASSUME NEW v, o \in DOMAIN operations, operations' = [operations EXCEPT ![o] = v],
               SameOrder(operations[o], v)
        PROVE  OperationsShape
    BY <2>2, Zenon DEF OperationsShape, SameOrder
  <2>3. ASSUME NEW retire_source \in BOOLEAN, commit_operation(o, retire_source)
        PROVE  OperationsShape
    <3>1. PICK retiring : operations' = [operations EXCEPT ![o] = Completed(operations[o], retiring)]
      BY <2>3, Zenon DEF commit_operation
    <3>2. o \in DOMAIN operations /\ ~OperationIsTerminal(operations[o])
      BY <2>3, Zenon DEF commit_operation
    <3>3. SameOrder(operations[o], Completed(operations[o], retiring))
      BY <1>0, <3>2, Zenon DEF SameOrder, Completed, OperationRecord
    <3> QED  BY <2>2, <3>1, <3>2, <3>3, Zenon
  <2>4. CASE cancel_operation(o)
    <3> DEFINE v == [operations[o] EXCEPT !.state = "CANCELLED"]
    <3>1. o \in DOMAIN operations /\ ~OperationIsTerminal(operations[o])
          /\ operations' = [operations EXCEPT ![o] = v]
      BY <2>4, Zenon DEF cancel_operation
    <3>2. SameOrder(operations[o], v)
      BY <1>0, <3>1, Zenon DEF SameOrder, OperationRecord
    <3> HIDE DEF v
    <3> QED  BY <2>2, <3>1, <3>2, Zenon
  <2>5. TRUE \in BOOLEAN /\ FALSE \in BOOLEAN
    BY Zenon
  <2> QED  BY <2>1, <2>3, <2>4, <2>5, Zenon DEF authorize_replication, authorize_migration
<1> QED  BY <1>1, <1>2, <1>3, <1>4, Zenon DEF Next

-----------------------------------------------------------------------------
(* The induction *)

\* Recovery drops every piece of live evidence and keeps the rest.
LEMMA RestartKeeps ==
  ASSUME AuthorityInv, initialize
  PROVE  ReplicaInv' /\ ClusterFresh' /\ SingleOwner' /\ OwnerIsNeverRetired'
<1> USE DEF AuthorityInv
<1>1. /\ DOMAIN replicas' = DOMAIN replicas /\ ownership' = ownership
      /\ \A r \in DOMAIN replicas : replicas'[r] = RecoveredReplica(r)
      /\ DOMAIN clusters' = DOMAIN clusters
      /\ \A c \in DOMAIN clusters : clusters'[c] = RecoveredCluster(clusters[c])
  BY Zenon DEF initialize
<1>2. \A c \in DOMAIN clusters :
        /\ ~clusters'[c].evidence_present
        /\ clusters'[c].incarnation = clusters[c].incarnation
        /\ clusters'[c].live_authority <=> clusters[c].live_authority
  <2>1. \A c \in DOMAIN clusters : clusters[c] \in ClusterRecord
    BY MapValue, Zenon DEF TypeOK
  <2>2. ASSUME NEW x \in ClusterRecord
        PROVE  /\ ~RecoveredCluster(x).evidence_present
               /\ RecoveredCluster(x).incarnation = x.incarnation
               /\ RecoveredCluster(x).live_authority <=> x.live_authority
    BY Zenon DEF RecoveredCluster, ClusterRecord
  <2>3. ASSUME NEW c \in DOMAIN clusters
        PROVE  /\ ~clusters'[c].evidence_present
               /\ clusters'[c].incarnation = clusters[c].incarnation
               /\ clusters'[c].live_authority <=> clusters[c].live_authority
    <3>1. clusters'[c] = RecoveredCluster(clusters[c])
      BY <1>1, Zenon
    <3>2. clusters[c] \in ClusterRecord
      BY <2>1, Zenon
    <3> QED  BY <2>2, <3>1, <3>2
  <2> QED  BY <2>3, Zenon
<1>3. \A r \in DOMAIN replicas :
        /\ Unpromoted(replicas[r], replicas'[r]) /\ RecordInv(replicas'[r])
        /\ is_terminal(replicas'[r]) /\ replicas[r].commit_recorded => is_terminal(replicas[r])
        /\ replicas'[r].revalidation_required
             \/ (replicas'[r].absent /\ replicas'[r].lifecycle # "PREPARED")
  BY <1>1, RecoveredKeeps, Zenon DEF ReplicaInv
<1>4. ClusterFresh'
  BY <1>1, <1>2, Zenon DEF ClusterFresh
<1>5. SingleOwner' /\ OwnerIsNeverRetired'
  <2>1. ASSUME NEW r \in DOMAIN replicas, replicas'[r].authority = "AUTHORITATIVE_OWNER"
        PROVE  replicas'[r].key \in DOMAIN ownership /\ ownership[replicas'[r].key] = r
    <3>1. replicas'[r].key = replicas[r].key /\ replicas[r].authority = "AUTHORITATIVE_OWNER"
      BY <1>3, <2>1, Zenon DEF Unpromoted
    <3> QED  BY <3>1, Zenon DEF SingleOwner
  <2>2. ASSUME NEW k \in DOMAIN ownership
        PROVE  /\ ownership[k] \in DOMAIN replicas /\ replicas'[ownership[k]].key = k
               /\ replicas'[ownership[k]].commit_recorded
               /\ ~is_terminal(replicas'[ownership[k]])
    <3>1. ownership[k] \in DOMAIN replicas
      BY Zenon DEF OwnerIsNeverRetired
    <3> HIDE DEF AuthorityInv
    <3> QED  BY <1>3, <3>1, OwnerKeeps
  <2>3. SingleOwner'
    BY <1>1, <2>1, Zenon DEF SingleOwner
  <2>4. OwnerIsNeverRetired'
    BY <1>1, <2>2, Zenon DEF OwnerIsNeverRetired, is_terminal
  <2> QED  BY <2>3, <2>4, Zenon
<1>6. ReplicaInv'
  <2>1. \A r \in DOMAIN replicas' : RecordInv(replicas[r])' /\ Fresh(replicas[r])'
    BY <1>1, <1>3, Zenon DEF RecordInv, is_terminal, Fresh
  <2>2. \A r \in DOMAIN replicas' :
          replicas'[r].counts_toward_factor => HostIsLive(replicas[r])'
    <3> SUFFICES ASSUME NEW r \in DOMAIN replicas, replicas'[r].counts_toward_factor
                 PROVE  HostIsLive(replicas[r])'
      BY <1>1, Zenon
    <3>1. /\ replicas[r].counts_toward_factor
          /\ replicas'[r].cluster = replicas[r].cluster
          /\ replicas'[r].incarnation = replicas[r].incarnation
      BY <1>3, Zenon DEF Unpromoted
    <3>2. HostIsLive(replicas[r])
      BY <3>1, Zenon DEF ReplicaInv
    <3> QED  BY <1>1, <1>2, <3>1, <3>2, Zenon DEF HostIsLive
  <2> QED  BY <2>1, <2>2, Zenon DEF ReplicaInv
<1> QED  BY <1>4, <1>5, <1>6, Zenon

\* Every step is a restart, adds authority to one replica, or adds none.
LEMMA StepShape ==
  ASSUME AuthorityInv, [Next]_vars
  PROVE  initialize \/ Quiet \/ \E r \in DOMAIN replicas : Gain(r)
<1>1. CASE advance_epoch \/ UNCHANGED vars
  BY <1>1, UnchangedIsQuiet, Zenon DEF advance_epoch, vars, AuthorityInv
<1> QED  BY <1>1, StateStepIsQuiet, ClusterStepIsQuiet, ReplicaStepShape,
            OperationStepShape, OwnershipStepShape, Zenon DEF Next, AuthorityInv

\* Every step keeps the generation of every replica.
LEMMA KeysKept ==
  ASSUME AuthorityInv, [Next]_vars
  PROVE  /\ DOMAIN replicas \subseteq DOMAIN replicas'
         /\ \A q \in DOMAIN replicas : replicas'[q].key = replicas[q].key
<1> USE DEF AuthorityInv
<1>1. CASE Quiet
  BY <1>1, KeptRecord, Zenon DEF Quiet, Unpromoted
<1>2. ASSUME NEW r \in DOMAIN replicas, Gain(r)
      PROVE  /\ DOMAIN replicas \subseteq DOMAIN replicas'
             /\ \A q \in DOMAIN replicas : replicas'[q].key = replicas[q].key
  <2>1. replicas[r] \in ReplicaRecord /\ RecordInv(replicas[r])
    BY MapValue, Zenon DEF TypeOK, ReplicaInv
  <2>2. replicas'[r].key = replicas[r].key
    BY <1>2, <2>1, StrengthenedKeeps, Zenon DEF Gain, TypeOK
  <2> QED  BY <1>2, <2>2, KeptRecord, Zenon DEF Gain, Unpromoted
<1>3. CASE initialize
  BY <1>3, RecoveredKeeps, Zenon DEF initialize, Unpromoted, ReplicaInv
<1> QED  BY <1>1, <1>2, <1>3, StepShape, Zenon

\* The empty plane satisfies the inductive invariant.
LEMMA AuthorityInit ==
  ASSUME Init
  PROVE  AuthorityInv
<1>1. /\ DOMAIN replicas = {} /\ DOMAIN clusters = {} /\ DOMAIN operations = {}
      /\ DOMAIN ownership = {} /\ epoch >= boot_epoch
  BY DEF Init
<1>2. ReplicaInv /\ ClusterFresh /\ OperationInv
  BY <1>1, Zenon DEF ReplicaInv, ClusterFresh, OperationInv
<1>3. SingleOwner /\ OwnerIsNeverRetired
  BY <1>1, Zenon DEF SingleOwner, OwnerIsNeverRetired
<1> QED  BY <1>1, <1>2, <1>3, TypeInit, Zenon DEF AuthorityInv

\* Every mutation and every restart preserves the inductive invariant.
LEMMA AuthorityStep ==
  ASSUME AuthorityInv, [Next]_vars
  PROVE  AuthorityInv'
<1>1. TypeOK'
  BY TypeStep, Zenon DEF AuthorityInv
<1>2. OperationInv'
  <2>1. \A o \in DOMAIN operations :
          /\ operations[o].source \in DOMAIN replicas
          /\ replicas[operations[o].source].key = operations[o].key
          /\ operations[o].destination \in DOMAIN replicas
          /\ replicas[operations[o].destination].key = operations[o].key
          /\ operations[o].destructive_move => operations[o].kind = "MIGRATION"
    BY Zenon DEF AuthorityInv, OperationInv, replicas_of_state
  <2>2. OperationsShape
    BY OperationsStep, Zenon DEF AuthorityInv
  <2>3. ASSUME NEW o \in DOMAIN operations'
        PROVE  /\ operations'[o].source \in DOMAIN replicas'
               /\ replicas'[operations'[o].source].key = operations'[o].key
               /\ operations'[o].destination \in DOMAIN replicas'
               /\ replicas'[operations'[o].destination].key = operations'[o].key
               /\ operations'[o].destructive_move => operations'[o].kind = "MIGRATION"
    <3>1. CASE o \in DOMAIN operations
      <4>1. /\ operations'[o].key = operations[o].key /\ operations'[o].kind = operations[o].kind
            /\ operations'[o].source = operations[o].source
            /\ operations'[o].destination = operations[o].destination
            /\ operations'[o].destructive_move <=> operations[o].destructive_move
        BY <2>2, <3>1, Zenon DEF OperationsShape, SameOrder
      <4> QED  BY <2>1, <3>1, <4>1, KeysKept, Zenon
    <3>2. CASE o \notin DOMAIN operations
      <4>1. NewOrder(operations'[o])
        BY <2>2, <2>3, <3>2, Zenon DEF OperationsShape
      <4>2. /\ operations'[o].source \in DOMAIN replicas
            /\ replicas[operations'[o].source].key = operations'[o].key
        BY <4>1, Zenon DEF NewOrder, replicas_of_state
      <4> QED  BY <4>1, <4>2, KeysKept, Zenon DEF NewOrder
    <3> QED  BY <3>1, <3>2, Zenon
  <2> QED  BY <2>3, Zenon DEF OperationInv, replicas_of_state
<1> SUFFICES /\ epoch' >= boot_epoch' /\ ReplicaInv' /\ ClusterFresh'
             /\ SingleOwner' /\ OwnerIsNeverRetired'
  BY <1>1, <1>2, Zenon DEF AuthorityInv
<1>3. ASSUME Quiet PROVE epoch' >= boot_epoch' /\ SingleOwner' /\ OwnerIsNeverRetired'
  <2>1. epoch' >= boot_epoch'
    BY <1>1, <1>3 DEF Quiet, AuthorityInv, TypeOK
  <2> QED  BY <1>3, <2>1, QuietKeeps, Zenon
<1>4. ASSUME Quiet, clusters' = clusters PROVE ReplicaInv' /\ ClusterFresh'
  <2>1. ClusterFresh'
    BY <1>4, Zenon DEF Quiet, ClusterFresh, AuthorityInv
  <2> QED  BY <1>4, <2>1, QuietReplicaInv, Zenon
<1>5. ASSUME NEW r \in DOMAIN replicas, Gain(r)
      PROVE  /\ epoch' >= boot_epoch' /\ ReplicaInv' /\ ClusterFresh'
             /\ SingleOwner' /\ OwnerIsNeverRetired'
  <2>1. epoch' >= boot_epoch' /\ ClusterFresh'
    BY <1>5, Zenon DEF Gain, ClusterFresh, AuthorityInv
  <2> QED  BY <1>5, <2>1, GainKeeps, Zenon
<1>6. CASE StateStep
  <2>1. clusters' = clusters
    BY <1>6, Zenon DEF StateStep, register_state, publish_state_generation, commit_state_generation
  <2> QED  BY <1>3, <1>4, <1>6, <2>1, StateStepIsQuiet, Zenon DEF AuthorityInv
<1>7. CASE ClusterStep
  BY <1>3, <1>7, ClusterStepIsQuiet, ClusterStepKeeps, Zenon DEF AuthorityInv
<1>8. CASE ReplicaStep
  <2>1. clusters' = clusters
    BY ZenonT(60), <1>8 DEF ReplicaStep, register_replica, record_transfer_progress,
         record_transfer_completion, verify_replica, commit_replica, retire_replica,
         quarantine_replica, revalidate_replica
  <2> QED  BY <1>3, <1>4, <1>5, <1>8, <2>1, ReplicaStepShape, Zenon
<1>9. CASE OperationStep
  <2>1. clusters' = clusters
    <3>1. \A o, r, k, kind, b, source, c :
            authorize_transaction(o, r, k, kind, b, source, c) => clusters' = clusters
      BY AuthorizationFrame, Zenon
    <3>2. \A o, b : commit_operation(o, b) => clusters' = clusters
      BY Zenon DEF commit_operation
    <3>3. \A o : cancel_operation(o) => clusters' = clusters
      BY Zenon DEF cancel_operation
    <3> QED  BY <1>9, <3>1, <3>2, <3>3, Zenon DEF OperationStep, authorize_replication,
                                           authorize_migration
  <2> QED  BY <1>3, <1>4, <1>5, <1>9, <2>1, OperationStepShape, Zenon
<1>10. CASE OwnershipStep
  BY <1>5, <1>10, OwnershipStepShape, Zenon
<1>11. CASE initialize
  BY <1>11, RestartKeeps DEF initialize, AuthorityInv, TypeOK
<1>12. CASE advance_epoch \/ UNCHANGED vars
  <2>1. Quiet /\ clusters' = clusters
    BY <1>12, UnchangedIsQuiet, Zenon DEF advance_epoch, vars, AuthorityInv
  <2> QED  BY <1>3, <1>4, <2>1, Zenon
<1> QED  BY <1>6, <1>7, <1>8, <1>9, <1>10, <1>11, <1>12, Zenon DEF Next

-----------------------------------------------------------------------------
(* Theorems *)

\* The invariant the theorems below follow from holds in every reachable state.
THEOREM AuthorityInductive == Spec => []AuthorityInv
<1>1. Init => AuthorityInv
  BY AuthorityInit, Zenon
<1>2. AuthorityInv /\ [Next]_vars => AuthorityInv'
  BY AuthorityStep, Zenon
<1> QED  BY <1>1, <1>2, PTL DEF Spec

\* Every counted replica is hosted by a live cluster at the incarnation it is bound to, for
\* any number of clusters, replicas and operations.
THEOREM CountedReplicasAreHosted == Spec => []CountedOnLiveIncarnation
<1>1. AuthorityInv => CountedOnLiveIncarnation
  BY Zenon DEF AuthorityInv, ReplicaInv, CountedOnLiveIncarnation, authoritative_members,
         replicas_of_state, replica_counts_toward_replication_factor
<1> QED  BY <1>1, AuthorityInductive, PTL

\* At most one replica of a generation holds owner authority: the recorded owner.
THEOREM OwnershipIsUnique == Spec => []SingleOwner
<1>1. AuthorityInv => SingleOwner
  BY Zenon DEF AuthorityInv
<1> QED  BY <1>1, AuthorityInductive, PTL

\* The recorded owner is a committed replica of its generation that is not terminal.
THEOREM OwnersAreAlive == Spec => []OwnerIsNeverRetired
<1>1. AuthorityInv => OwnerIsNeverRetired
  BY Zenon DEF AuthorityInv
<1> QED  BY <1>1, AuthorityInductive, PTL

\* A reusable replica and its cluster have evidence from the running process.
THEOREM ReuseIsEvidenced == Spec => []ReuseNeedsCurrentEvidence
<1>1. AuthorityInv => ReuseNeedsCurrentEvidence
  BY Zenon DEF AuthorityInv, ReplicaInv, ClusterFresh, ReuseNeedsCurrentEvidence, Fresh,
         authoritative_for_reuse, cluster_evidence_is_current, HostIsLive
<1> QED  BY <1>1, AuthorityInductive, PTL

\* Only verified bytes become authoritative.
THEOREM AuthorityIsVerified == Spec => AuthorityNeedsVerifiedBytes
<1>1. ASSUME AuthorityInv, [Next]_vars, NEW r \in DOMAIN replicas,
             replicas'[r].lifecycle = "AUTHORITATIVE", replicas[r].lifecycle # "AUTHORITATIVE"
      PROVE  replicas[r].integrity = "VERIFIED"
  <2>1. ASSUME NEW q \in DOMAIN replicas, KeptOrRetired(q), replicas'[q].lifecycle = "AUTHORITATIVE"
        PROVE  replicas[q].lifecycle = "AUTHORITATIVE"
    BY <1>1, <2>1, KeptRecord, Zenon DEF Unpromoted
  <2>2. CASE Quiet
    BY <1>1, <2>1, <2>2, Zenon DEF Quiet
  <2>3. CASE initialize
    BY <1>1, <2>3, RecoveredKeeps, Zenon DEF initialize, Unpromoted, AuthorityInv, ReplicaInv
  <2>4. ASSUME NEW q \in DOMAIN replicas, Gain(q) PROVE replicas[r].integrity = "VERIFIED"
    <3>1. replicas[q] \in ReplicaRecord /\ RecordInv(replicas[q])
      BY <1>1, MapValue, Zenon DEF AuthorityInv, TypeOK, ReplicaInv
    <3>2. replicas[q].integrity = "VERIFIED"
      BY <1>1, <2>4, <3>1, StrengthenedKeeps, Zenon DEF Gain, AuthorityInv, TypeOK
    <3> QED  BY <1>1, <2>1, <2>4, <3>2, Zenon DEF Gain
  <2> QED  BY <1>1, <2>2, <2>3, <2>4, StepShape, Zenon
<1>2. AuthorityInv /\ [Next]_vars =>
        [\A r \in DOMAIN replicas :
           (/\ replicas'[r].lifecycle = "AUTHORITATIVE"
            /\ replicas[r].lifecycle # "AUTHORITATIVE") => replicas[r].integrity = "VERIFIED"]_vars
  BY <1>1, Zenon
<1> QED  BY <1>2, AuthorityInductive, PTL DEF Spec, AuthorityNeedsVerifiedBytes

\* The outcome of a finished operation never changes.
THEOREM OutcomesAreFinal == Spec => OutcomeIsFinal
<1>1. TypeOK /\ [Next]_vars =>
        [\A o \in DOMAIN operations :
           OperationIsTerminal(operations[o]) => operations'[o] = operations[o]]_vars
  BY OperationsStep, Zenon DEF OperationsShape, SameOrder
<1> QED  BY <1>1, TypeCorrect, PTL DEF Spec, OutcomeIsFinal

-----------------------------------------------------------------------------
(* The replica set generation *)

SetsGrow == /\ DOMAIN sets \subseteq DOMAIN sets'
            /\ \A k \in DOMAIN sets : sets'[k].generation >= sets[k].generation

\* A step that leaves the replica sets alone never moves a set generation back.
LEMMA UnchangedSetsGrow ==
  ASSUME TypeOK, sets' = sets
  PROVE  SetsGrow
<1>1. \A k \in DOMAIN sets : sets[k] \in SetRecord
  BY MapValue, Zenon DEF TypeOK
<1> QED  BY <1>1 DEF SetsGrow, SetRecord

\* Advancing raises the generation of the named sets and of no other.
LEMMA Advanced ==
  ASSUME TypeOK, NEW K, sets' = Advance(K)
  PROVE  /\ SetsGrow /\ DOMAIN sets' = DOMAIN sets
         /\ \A k \in DOMAIN sets \cap K : sets'[k].generation > sets[k].generation
<1>1. \A k \in DOMAIN sets : sets[k] \in SetRecord
  BY MapValue, Zenon DEF TypeOK
<1>2. \A k \in DOMAIN sets : [sets[k] EXCEPT !.generation = @ + 1].generation = sets[k].generation + 1
  BY <1>1, Zenon DEF SetRecord
<1>3. \A k \in DOMAIN sets : sets'[k] =
        IF k \in K THEN [sets[k] EXCEPT !.generation = @ + 1] ELSE sets[k]
  BY Zenon DEF Advance
<1>4. DOMAIN sets' = DOMAIN sets
  BY Zenon DEF Advance
<1> QED  BY <1>1, <1>2, <1>3, <1>4 DEF SetsGrow, SetRecord

\* No step takes a set away or lowers its generation.
LEMMA SetsStep ==
  ASSUME TypeOK, [Next]_vars
  PROVE  SetsGrow
<1>0. \A k \in DOMAIN sets : sets[k] \in SetRecord
  BY MapValue, Zenon DEF TypeOK
<1>1. ASSUME sets' = sets \/ \E K : sets' = Advance(K) PROVE SetsGrow
  BY <1>1, UnchangedSetsGrow, Advanced, Zenon
<1>2. CASE StateStep
  <2> PICK k \in StateKey : \/ \E spec \in SpecInput : register_state(k, spec)
                            \/ \E spec \in SpecInput : publish_state_generation(k, spec)
                            \/ commit_state_generation(k)
    BY <1>2, Zenon DEF StateStep
  <2>1. ASSUME NEW spec, register_state(k, spec) PROVE SetsGrow
    <3>1. k \notin DOMAIN sets
      BY <2>1, Zenon DEF register_state, TypeOK
    <3>2. DOMAIN sets' = DOMAIN sets \cup {k} /\ \A j \in DOMAIN sets : sets'[j] = sets[j]
      BY <2>1, <3>1, Zenon DEF register_state, Put
    <3> QED  BY <1>0, <3>2 DEF SetsGrow, SetRecord
  <2>2. ASSUME NEW spec, publish_state_generation(k, spec) PROVE SetsGrow
    BY <1>1, <2>2, Zenon DEF publish_state_generation
  <2>3. CASE commit_state_generation(k)
    <3>1. PICK superseded : sets' = [j \in DOMAIN sets |->
                  IF j \in superseded
                  THEN [sets[j] EXCEPT !.generation = @ + 1, !.retiring = TRUE]
                  ELSE sets[j]]
      BY <2>3, Zenon DEF commit_state_generation
    <3>2. \A j \in DOMAIN sets :
            [sets[j] EXCEPT !.generation = @ + 1, !.retiring = TRUE].generation
              = sets[j].generation + 1
      BY <1>0, Zenon DEF SetRecord
    <3>3. DOMAIN sets' = DOMAIN sets /\ \A j \in DOMAIN sets :
            sets'[j].generation = sets[j].generation
              \/ sets'[j].generation = sets[j].generation + 1
      BY <3>1, <3>2, Zenon
    <3> QED  BY <1>0, <3>3 DEF SetsGrow, SetRecord
  <2> QED  BY <2>1, <2>2, <2>3, Zenon
<1>3. CASE ClusterStep
  BY ZenonT(60), <1>1, <1>3 DEF ClusterStep, register_cluster, publish_cluster_evidence,
       mark_cluster_unreachable, retire_cluster, FenceAll
<1>4. CASE ReplicaStep
  BY ZenonT(60), <1>1, <1>4 DEF ReplicaStep, register_replica, record_transfer_progress,
       record_transfer_completion, verify_replica, commit_replica, retire_replica,
       quarantine_replica, revalidate_replica
<1>5. CASE OperationStep
  <2>1. \A o, r, k, kind, b, source, c :
          authorize_transaction(o, r, k, kind, b, source, c) => sets' = sets
    BY AuthorizationFrame, Zenon
  <2>2. \A o, b : commit_operation(o, b) => \E K : sets' = Advance(K)
    BY Zenon DEF commit_operation
  <2>3. \A o : cancel_operation(o) => sets' = sets \/ \E K : sets' = Advance(K)
    BY Zenon DEF cancel_operation
  <2> QED  BY <1>1, <1>5, <2>1, <2>2, <2>3, Zenon DEF OperationStep, authorize_replication,
                                               authorize_migration
<1>6. CASE OwnershipStep
  BY <1>1, <1>6, Zenon DEF OwnershipStep, transfer_ownership
<1>7. CASE initialize
  <2>1. \A k \in DOMAIN sets :
          [sets[k] EXCEPT !.revalidation_required = TRUE].generation = sets[k].generation
    BY <1>0, Zenon DEF SetRecord
  <2> QED  BY <1>0, <1>7, <2>1 DEF initialize, SetsGrow, SetRecord
<1>8. CASE advance_epoch \/ UNCHANGED vars
  BY <1>1, <1>8, Zenon DEF advance_epoch, vars
<1> QED  BY <1>2, <1>3, <1>4, <1>5, <1>6, <1>7, <1>8, Zenon DEF Next

-----------------------------------------------------------------------------
(* Membership *)

\* A replica that counts after a kept or retired record counted before it.
LEMMA MembersKept ==
  ASSUME AuthorityInv, NEW q \in DOMAIN replicas, KeptOrRetired(q)
  PROVE  /\ replicas'[q].key = replicas[q].key
         /\ replica_counts_toward_replication_factor(replicas'[q])
              => replica_counts_toward_replication_factor(replicas[q])
BY KeptRecord, Zenon DEF Unpromoted

\* Membership after the step, with every prime pushed to the replica records.
LEMMA MembersAfter ==
  ASSUME NEW k
  PROVE  authoritative_members(k)' =
           {q \in DOMAIN replicas' : /\ replicas'[q].key = k
                                     /\ replica_counts_toward_replication_factor(replicas'[q])}
BY Zenon DEF authoritative_members, replicas_of_state, replica_counts_toward_replication_factor

\* In every step a replica joins the counted membership only with an advance of its set.
LEMMA JoinStep ==
  ASSUME AuthorityInv, [Next]_vars, NEW k \in DOMAIN sets
  PROVE  \/ authoritative_members(k)' \subseteq authoritative_members(k)
         \/ sets'[k].generation > sets[k].generation
<1> DEFINE Members == {q \in DOMAIN replicas :
                         /\ replicas[q].key = k
                         /\ replica_counts_toward_replication_factor(replicas[q])}
<1>0. authoritative_members(k) = Members
  BY Zenon DEF authoritative_members, replicas_of_state
<1>1. CASE Quiet
  <2>1. \A q \in DOMAIN replicas' \ DOMAIN replicas :
          ~replica_counts_toward_replication_factor(replicas'[q])
    BY <1>1, Zenon DEF Quiet, Blank, replica_counts_toward_replication_factor
  <2>2. \A q \in DOMAIN replicas : KeptOrRetired(q)
    BY <1>1, Zenon DEF Quiet
  <2> QED  BY <1>0, <2>1, <2>2, MembersKept, MembersAfter, Zenon
<1>2. CASE initialize
  <2>1. \A q \in DOMAIN replicas :
          /\ replicas'[q].key = replicas[q].key
          /\ replica_counts_toward_replication_factor(replicas'[q])
               => replica_counts_toward_replication_factor(replicas[q])
    BY <1>2, RecoveredKeeps, Zenon DEF initialize, AuthorityInv, ReplicaInv, Unpromoted
  <2>2. DOMAIN replicas' = DOMAIN replicas
    BY <1>2, Zenon DEF initialize
  <2> QED  BY <1>0, <2>1, <2>2, MembersAfter, Zenon
<1>3. ASSUME NEW r \in DOMAIN replicas, Gain(r), replicas[r].key = k
      PROVE  sets'[k].generation > sets[k].generation
  BY <1>3, Advanced, Zenon DEF Gain, AuthorityInv
<1>4. ASSUME NEW r \in DOMAIN replicas, Gain(r), replicas[r].key # k
      PROVE  authoritative_members(k)' \subseteq authoritative_members(k)
  <2>1. replicas'[r].key = replicas[r].key
    BY KeysKept, Zenon
  <2>2. DOMAIN replicas' = DOMAIN replicas /\ \A q \in DOMAIN replicas \ {r} : KeptOrRetired(q)
    BY <1>4, Zenon DEF Gain
  <2> QED  BY <1>0, <1>4, <2>1, <2>2, MembersKept, MembersAfter, Zenon
<1> QED  BY <1>1, <1>2, <1>3, <1>4, StepShape, Zenon

\* Joining the counted membership advances the replica set, for every set.
THEOREM JoinsAdvance == Spec => JoinAdvancesSet
<1>1. AuthorityInv /\ [Next]_vars =>
        [\A k \in DOMAIN sets :
           /\ sets'[k].generation >= sets[k].generation
           /\ authoritative_members(k)' \subseteq authoritative_members(k)
                \/ sets'[k].generation > sets[k].generation]_vars
  BY JoinStep, SetsStep, Zenon DEF SetsGrow, AuthorityInv
<1> QED  BY <1>1, AuthorityInductive, PTL DEF Spec, JoinAdvancesSet

\* A restart keeps membership and ownership, whatever was in flight.
THEOREM RestartsKeepMembership == Spec => RestartKeepsMembership
<1>1. ASSUME AuthorityInv, [Next]_vars, boot_epoch' # boot_epoch
      PROVE  /\ ownership' = ownership
             /\ \A k \in StateKey : authoritative_members(k)' = authoritative_members(k)
  <2>1. initialize
    BY <1>1, StepShape, Zenon DEF Quiet, Gain
  <2>2. DOMAIN replicas' = DOMAIN replicas /\ ownership' = ownership
        /\ \A q \in DOMAIN replicas : replicas'[q] = RecoveredReplica(q)
    BY <2>1, Zenon DEF initialize
  <2>3. \A q \in DOMAIN replicas :
          /\ replicas'[q].key = replicas[q].key
          /\ replica_counts_toward_replication_factor(replicas'[q])
               <=> replica_counts_toward_replication_factor(replicas[q])
    BY <1>1, <2>2, RecoveredKeeps, Zenon DEF AuthorityInv, ReplicaInv, Unpromoted
  <2> QED  BY <2>2, <2>3, MembersAfter, Zenon DEF authoritative_members, replicas_of_state
<1>2. AuthorityInv /\ [Next]_vars =>
        [boot_epoch' # boot_epoch =>
           /\ ownership' = ownership
           /\ \A k \in StateKey : authoritative_members(k)' = authoritative_members(k)]_vars
  BY <1>1, Zenon
<1> QED  BY <1>2, AuthorityInductive, PTL DEF Spec, RestartKeepsMembership

-----------------------------------------------------------------------------
(* Operations *)

\* The states an operation of this coordinator can be in: a commit goes from PREPARED to
\* COMPLETE in one mutation, so the stages between them are never recorded.
RecordedState == OperationState \ {"COMMITTED", "ADDED_TO_REPLICA_SET", "SOURCE_RETIRING"}

\* The replica set has moved on since the operation was authorized.
Outdated(o) == sets[operations[o].key].generation > operations[o].set_generation

\* An operation in flight was authorized at a generation its set has had.  Its destination
\* was committed, or the process restarted, only at the price of the operation: the set
\* moved on, or the destination is quarantined or gone.
TransactionInv ==
  \A o \in DOMAIN operations :
    LET op == operations[o]
        x == replicas[op.destination]
    IN /\ op.state \in RecordedState
       /\ op.key \in DOMAIN sets /\ sets[op.key].generation >= op.set_generation
       /\ ~OperationIsTerminal(op) /\ x.commit_recorded => Outdated(o)
       /\ ~OperationIsTerminal(op) /\ op.planned_epoch < boot_epoch =>
            Outdated(o) \/ x.lifecycle \in {"QUARANTINED", "RETIRED", "ABANDONED"}

\* Recovery leaves an operation in flight only with an unknown outcome.
LEMMA RecoveredState ==
  ASSUME NEW x \in OperationRecord, x.state \in RecordedState
  PROVE  /\ RecoveredOperation(x).state \in RecordedState
         /\ RecoveredOperation(x).state = "COMPLETE" => x.state = "COMPLETE"
         /\ RecoveredOperation(x).source_retired <=> x.source_retired
         /\ ~OperationIsTerminal(RecoveredOperation(x)) =>
              ~OperationIsTerminal(x) /\ classify_recovery(x.state) = "OUTCOME_UNKNOWN"
<1>1. CASE OperationIsTerminal(x)
  BY <1>1, Zenon DEF RecoveredOperation
<1>2. CASE ~OperationIsTerminal(x)
  <2>1. /\ RecoveredOperation(x).state = classify_recovery(x.state)
        /\ RecoveredOperation(x).source_retired <=> x.source_retired
    BY <1>2, Zenon DEF RecoveredOperation, OperationRecord
  <2>2. x.state \in {"RESERVED", "TRANSFERRING", "TRANSFERRED", "VERIFYING", "PREPARED",
                     "OUTCOME_UNKNOWN"}
    BY <1>2, Zenon DEF RecordedState, OperationState, OperationIsTerminal
  <2>3. classify_recovery(x.state) \in {"ABANDONED", "OUTCOME_UNKNOWN"}
    BY <2>2, Zenon DEF classify_recovery
  <2> QED  BY <1>2, <2>1, <2>3, Zenon DEF RecordedState, OperationState, OperationIsTerminal
<1> QED  BY <1>1, <1>2, Zenon

\* The steps by which an operation in flight changes.
LEMMA OperationRevisions ==
  ASSUME TypeOK, [Next]_vars, NEW o \in DOMAIN operations
  PROVE  \/ operations'[o] = operations[o]
         \/ \E state \in {"FAILED", "TRANSFERRING", "TRANSFERRED", "PREPARED", "CANCELLED"} :
              operations'[o] = [operations[o] EXCEPT !.state = state]
         \/ \E retire_source \in BOOLEAN : commit_operation(o, retire_source)
         \/ initialize
<1> DEFINE Reported == {"FAILED", "TRANSFERRING", "TRANSFERRED", "PREPARED"}
<1>1. ASSUME NEW p, NEW state \in Reported, advance_operation(p, state)
      PROVE  operations'[o] = operations[o]
             \/ operations'[o] = [operations[o] EXCEPT !.state = state]
  BY <1>1, Zenon DEF advance_operation, TypeOK, IsMap
<1>2. CASE StateStep \/ ClusterStep \/ OwnershipStep \/ advance_epoch \/ UNCHANGED vars
  <2>1. operations' = operations
    BY <1>2, Zenon DEF StateStep, register_state, publish_state_generation, commit_state_generation,
         ClusterStep, register_cluster, publish_cluster_evidence, mark_cluster_unreachable,
         retire_cluster, OwnershipStep, transfer_ownership, advance_epoch, vars
  <2> QED  BY <2>1, Zenon
<1>3. CASE ReplicaStep
  <2>1. \A r, p, failed : record_transfer_progress(r, p, failed) =>
          \E state \in Reported : advance_operation(p, state)
    BY Zenon DEF record_transfer_progress
  <2>2. \A r, p, digest : record_transfer_completion(r, p, digest) =>
          operations' = operations \/ \E state \in Reported : advance_operation(p, state)
    BY Zenon DEF record_transfer_completion
  <2>3. \A r, p, digest, verdict : verify_replica(r, p, digest, verdict) =>
          \E state \in Reported : advance_operation(p, state)
    BY Zenon DEF verify_replica
  <2>4. operations' = operations
        \/ \E p : \E state \in Reported : advance_operation(p, state)
    <3> HIDE DEF Reported
    <3> QED  BY <1>3, <2>1, <2>2, <2>3, Zenon DEF ReplicaStep, register_replica, commit_replica,
                          retire_replica, quarantine_replica, revalidate_replica
  <2> QED  BY <1>1, <2>4, Zenon
<1>4. CASE OperationStep
  <2> PICK p \in OperationId :
        \/ \E r, source \in ReplicaId, k \in StateKey, c \in Cluster :
             authorize_replication(p, r, k, source, c)
        \/ \E r, source \in ReplicaId, k \in StateKey, c \in Cluster, retire \in BOOLEAN :
             authorize_migration(p, r, k, retire, source, c)
        \/ \E retire_source \in BOOLEAN : commit_operation(p, retire_source)
        \/ cancel_operation(p)
    BY <1>4, Zenon DEF OperationStep
  <2>1. ASSUME NEW r, NEW source, NEW k, NEW c, NEW kind, NEW b,
               authorize_transaction(p, r, k, kind, b, source, c)
        PROVE  operations'[o] = operations[o]
    BY <2>1, Zenon DEF authorize_transaction, Minted, Put
  <2>2. ASSUME NEW retire_source \in BOOLEAN, commit_operation(p, retire_source), p # o
        PROVE  operations'[o] = operations[o]
    <3>1. PICK v : operations' = [operations EXCEPT ![p] = v]
      BY <2>2, Zenon DEF commit_operation
    <3> QED  BY <2>2, <3>1, Zenon
  <2>3. CASE cancel_operation(p)
    BY <2>3, Zenon DEF cancel_operation, TypeOK, IsMap
  <2> QED  BY <2>1, <2>2, <2>3, Zenon DEF authorize_replication, authorize_migration
<1> QED  BY <1>2, <1>3, <1>4, Zenon DEF Next

\* Every step records one of these states.
LEMMA RecordedStates ==
  ASSUME TypeOK, TransactionInv, [Next]_vars, NEW o \in DOMAIN operations
  PROVE  operations'[o].state \in RecordedState
<1>0. operations[o] \in OperationRecord /\ operations[o].state \in RecordedState
  BY MapValue, Zenon DEF TypeOK, TransactionInv
<1>1. ASSUME NEW retire_source, commit_operation(o, retire_source)
      PROVE  operations'[o].state \in RecordedState
  <2>1. PICK retiring : operations'[o] = Completed(operations[o], retiring)
    BY <1>1, Zenon DEF commit_operation
  <2> QED  BY <1>0, <2>1, Zenon DEF Completed, OperationRecord, RecordedState, OperationState
<1>2. CASE initialize
  BY <1>0, <1>2, RecoveredState, Zenon DEF initialize
<1>3. ASSUME NEW state \in {"FAILED", "TRANSFERRING", "TRANSFERRED", "PREPARED", "CANCELLED"},
             operations'[o] = [operations[o] EXCEPT !.state = state]
      PROVE  operations'[o].state \in RecordedState
  BY <1>0, <1>3, Zenon DEF OperationRecord, RecordedState, OperationState
<1> QED  BY <1>0, <1>1, <1>2, <1>3, OperationRevisions, Zenon

\* What a step does to the destination of an operation: the set moves on, or the replica
\* stays uncommitted and out of service.
LEMMA DestinationStep ==
  ASSUME AuthorityInv, [Next]_vars, NEW r \in DOMAIN replicas, replicas[r].key \in DOMAIN sets
  PROVE  \/ sets'[replicas[r].key].generation > sets[replicas[r].key].generation
         \/ /\ replicas'[r].commit_recorded <=> replicas[r].commit_recorded
            /\ replicas[r].lifecycle \in {"QUARANTINED", "RETIRED", "ABANDONED"} =>
                 replicas'[r].lifecycle \in {"QUARANTINED", "RETIRED", "ABANDONED"}
<1>1. CASE KeptOrRetired(r)
  BY <1>1, KeptRecord, Zenon DEF Unpromoted
<1>2. CASE initialize
  BY <1>2, RecoveredKeeps, Zenon DEF initialize, Unpromoted, AuthorityInv, ReplicaInv
<1>3. ASSUME Gain(r) PROVE sets'[replicas[r].key].generation > sets[replicas[r].key].generation
  BY <1>3, Advanced, Zenon DEF Gain, AuthorityInv
<1> QED  BY <1>1, <1>2, <1>3, StepShape, Zenon DEF Quiet, Gain

\* Recovery quarantines the uncommitted destination of an operation of unknown outcome.
LEMMA RecoveredDestination ==
  ASSUME TypeOK, NEW r \in DOMAIN replicas, ~replicas[r].commit_recorded,
         RecoveredTo(r, "OUTCOME_UNKNOWN") # {}
  PROVE  RecoveredReplica(r).lifecycle \in {"QUARANTINED", "RETIRED", "ABANDONED"}
<1>1. replicas[r] \in ReplicaRecord
  BY MapValue, Zenon DEF TypeOK
<1> QED  BY <1>1, Zenon DEF RecoveredReplica, ReplicaRecord, is_terminal, Abandoned, Quarantined

\* Every step preserves the invariant on operations and on current generations.
LEMMA TransactionStep ==
  ASSUME AuthorityInv, TransactionInv, [Next]_vars
  PROVE  TransactionInv'
<1> USE DEF AuthorityInv
<1>1. OperationsShape /\ SetsGrow
  BY OperationsStep, SetsStep, Zenon
<1>2. TypeOK' /\ epoch \in Nat /\ boot_epoch \in Nat /\ boot_epoch' \in Nat
  BY TypeStep, Zenon DEF TypeOK
<1>3. \A k \in DOMAIN sets : /\ sets[k].generation \in Nat /\ sets'[k].generation \in Nat
                             /\ k \in DOMAIN sets'
  <2>1. \A k \in DOMAIN sets : sets[k] \in SetRecord
    BY MapValue, Zenon DEF TypeOK
  <2>2. \A k \in DOMAIN sets' : sets'[k] \in SetRecord
    BY <1>2, MapValue, Zenon DEF TypeOK
  <2> QED  BY <1>1, <2>1, <2>2, Zenon DEF SetsGrow, SetRecord
<1> SUFFICES ASSUME NEW o \in DOMAIN operations'
             PROVE  LET op == operations'[o]
                        x == replicas'[op.destination]
                        outdated == sets'[op.key].generation > op.set_generation
                    IN /\ op.state \in RecordedState
                       /\ op.key \in DOMAIN sets' /\ sets'[op.key].generation >= op.set_generation
                       /\ ~OperationIsTerminal(op) /\ x.commit_recorded => outdated
                       /\ ~OperationIsTerminal(op) /\ op.planned_epoch < boot_epoch' =>
                            outdated \/ x.lifecycle \in {"QUARANTINED", "RETIRED", "ABANDONED"}
  BY Zenon DEF TransactionInv, Outdated, OperationIsTerminal
<1>4. CASE o \notin DOMAIN operations
  <2>1. NewOrder(operations'[o])
    BY <1>1, <1>4, Zenon DEF OperationsShape
  <2>2. ~initialize
    BY <1>4, Zenon DEF initialize
  <2>3. boot_epoch' = boot_epoch
    BY <2>2, StepShape, Zenon DEF Quiet, Gain
  <2> DEFINE y == operations'[o]
             k == y.key
  <2>4. y.planned_epoch >= boot_epoch' /\ y.planned_epoch \in Nat
    BY <1>2, <2>1, <2>3, Zenon DEF NewOrder
  <2>5. ~(y.planned_epoch < boot_epoch')
    BY <1>2, <2>4, NotBefore, Zenon
  <2>6. k \in DOMAIN sets /\ k \in DOMAIN sets' /\ y.set_generation = sets[k].generation
        /\ ~replicas'[y.destination].commit_recorded /\ y.state = "RESERVED"
    BY <1>3, <2>1, Zenon DEF NewOrder
  <2>7. sets'[k].generation >= y.set_generation
    BY <1>1, <2>6, Zenon DEF SetsGrow
  <2>8. y.state \in RecordedState
    BY <2>6, Zenon DEF RecordedState, OperationState
  <2> QED  BY <2>5, <2>6, <2>7, <2>8, Zenon
<1>5. CASE o \in DOMAIN operations
  <2> DEFINE op == operations[o]
             r == op.destination
             k == op.key
             y == operations'[o]
             Gone == {"QUARANTINED", "RETIRED", "ABANDONED"}
  <2>1. SameOrder(op, y) /\ y.state \in RecordedState
    BY <1>1, <1>5, RecordedStates, Zenon DEF OperationsShape
  <2>2. r \in DOMAIN replicas /\ replicas[r].key = k
    BY <1>5, Zenon DEF OperationInv, replicas_of_state
  <2>3. /\ k \in DOMAIN sets /\ sets[k].generation >= op.set_generation
        /\ ~OperationIsTerminal(op) /\ replicas[r].commit_recorded
             => sets[k].generation > op.set_generation
        /\ ~OperationIsTerminal(op) /\ op.planned_epoch < boot_epoch =>
             sets[k].generation > op.set_generation \/ replicas[r].lifecycle \in Gone
        /\ op.state \in RecordedState
    BY <1>5, Zenon DEF TransactionInv, Outdated
  <2>4. op \in OperationRecord
    BY <1>5, MapValue, Zenon DEF TypeOK
  <2>5. k \in DOMAIN sets' /\ sets'[k].generation >= sets[k].generation
    BY <1>1, <2>3, Zenon DEF SetsGrow
  <2>6. sets[k].generation \in Nat /\ sets'[k].generation \in Nat /\ op.set_generation \in Nat
        /\ op.planned_epoch \in Nat
    BY <1>3, <2>3, <2>4, Zenon DEF OperationRecord
  <2>7. ~OperationIsTerminal(y) => ~OperationIsTerminal(op)
    BY <2>1, Zenon DEF SameOrder
  <2>8. sets'[k].generation >= op.set_generation
        /\ (sets[k].generation > op.set_generation => sets'[k].generation > op.set_generation)
        /\ (sets'[k].generation > sets[k].generation => sets'[k].generation > op.set_generation)
    <3> DEFINE now == sets[k].generation
               next == sets'[k].generation
               planned == op.set_generation
    <3>1. now \in Nat /\ next \in Nat /\ planned \in Nat /\ now >= planned /\ next >= now
      BY <2>3, <2>5, <2>6, Zenon
    <3> HIDE DEF now, next, planned
    <3>2. next >= planned /\ (now > planned => next > planned) /\ (next > now => next > planned)
      BY <3>1, StaysAhead, Zenon
    <3> QED  BY <3>2, Zenon DEF now, next, planned
  <2>9. ~OperationIsTerminal(y) /\ replicas'[r].commit_recorded
          => sets'[k].generation > op.set_generation
    BY <2>2, <2>3, <2>7, <2>8, DestinationStep, Zenon
  <2>10. ~OperationIsTerminal(y) /\ op.planned_epoch < boot_epoch' =>
           sets'[k].generation > op.set_generation \/ replicas'[r].lifecycle \in Gone
    <3>1. CASE initialize
      <4>1. y = RecoveredOperation(op) /\ replicas'[r] = RecoveredReplica(r)
        BY <1>5, <2>2, <3>1, Zenon DEF initialize
      <4>2. ~OperationIsTerminal(y) => o \in RecoveredTo(r, "OUTCOME_UNKNOWN")
        BY <1>5, <2>3, <2>4, <4>1, RecoveredState, Zenon DEF RecoveredTo
      <4> QED  BY <2>2, <2>3, <2>7, <2>8, <4>1, <4>2, RecoveredDestination, Zenon
    <3>2. CASE boot_epoch' = boot_epoch
      BY <2>2, <2>3, <2>7, <2>8, <3>2, DestinationStep, Zenon
    <3> QED  BY <3>1, <3>2, StepShape, Zenon DEF Quiet, Gain
  <2> QED  BY <2>1, <2>5, <2>8, <2>9, <2>10, Zenon DEF SameOrder
<1> QED  BY <1>4, <1>5, Zenon

\* The two invariants hold in every reachable state.
THEOREM TransactionInductive == Spec => [](AuthorityInv /\ TransactionInv)
<1>1. Init => AuthorityInv /\ TransactionInv
  BY AuthorityInit DEF Init, TransactionInv
<1>2. AuthorityInv /\ TransactionInv /\ [Next]_vars => AuthorityInv' /\ TransactionInv'
  BY AuthorityStep, TransactionStep, Zenon
<1> QED  BY <1>1, <1>2, PTL DEF Spec

\* An operation is completed, and its source retired, by its commit alone.
LEMMA OnlyCommitCompletes ==
  ASSUME AuthorityInv, TransactionInv, [Next]_vars, NEW o \in DOMAIN operations,
         \/ operations'[o].state = "COMPLETE" /\ operations[o].state # "COMPLETE"
         \/ operations'[o].source_retired /\ ~operations[o].source_retired
  PROVE  \E retire_source \in BOOLEAN : commit_operation(o, retire_source)
<1>1. operations[o] \in OperationRecord /\ operations[o].state \in RecordedState
  BY MapValue, Zenon DEF AuthorityInv, TypeOK, TransactionInv
<1>2. ~initialize
  <2>1. initialize => operations'[o] = RecoveredOperation(operations[o])
    BY Zenon DEF initialize
  <2> QED  BY <1>1, <2>1, RecoveredState, Zenon
<1>3. ASSUME NEW state \in {"FAILED", "TRANSFERRING", "TRANSFERRED", "PREPARED", "CANCELLED"},
             operations'[o] = [operations[o] EXCEPT !.state = state]
      PROVE  FALSE
  BY <1>1, <1>3, Zenon DEF OperationRecord
<1> QED  BY <1>2, <1>3, OperationRevisions, Zenon DEF AuthorityInv

\* Only operations planned by the running process are committed.
THEOREM CommitsAreOfThisProcess == Spec => CommitsBelongToThisProcess
<1>1. ASSUME AuthorityInv, TransactionInv, [Next]_vars, NEW o \in DOMAIN operations,
             operations'[o].state = "COMPLETE", operations[o].state # "COMPLETE"
      PROVE  operations[o].planned_epoch >= boot_epoch
  <2> PICK retire_source \in BOOLEAN : commit_operation(o, retire_source)
    BY <1>1, OnlyCommitCompletes, Zenon
  <2>1. /\ ~OperationIsTerminal(operations[o])
        /\ sets[operations[o].key].generation = operations[o].set_generation
        /\ replicas[operations[o].destination].lifecycle = "PREPARED"
    BY Zenon DEF commit_operation
  <2>2. operations[o] \in OperationRecord /\ boot_epoch \in Nat
    BY <1>1, MapValue, Zenon DEF AuthorityInv, TypeOK
  <2>3. ~Outdated(o)
    BY <2>1, <2>2 DEF Outdated, OperationRecord
  <2>4. ~(operations[o].planned_epoch < boot_epoch)
    BY <1>1, <2>1, <2>3, Zenon DEF TransactionInv
  <2> QED  BY <2>2, <2>4 DEF OperationRecord
<1>2. AuthorityInv /\ TransactionInv /\ [Next]_vars =>
        [\A o \in DOMAIN operations :
           (operations'[o].state = "COMPLETE" /\ operations[o].state # "COMPLETE")
             => operations[o].planned_epoch >= boot_epoch]_vars
  BY <1>1, Zenon
<1> QED  BY <1>2, TransactionInductive, PTL DEF Spec, CommitsBelongToThisProcess

\* A commit leaves its destination counted, whether or not it retires the source.
THEOREM CommitsLeaveAuthority == Spec => CommitLeavesAuthority
<1>1. ASSUME AuthorityInv, TransactionInv, [Next]_vars, NEW o \in DOMAIN operations,
             \/ operations'[o].state = "COMPLETE" /\ operations[o].state # "COMPLETE"
             \/ operations'[o].source_retired /\ ~operations[o].source_retired
      PROVE  operations[o].destination \in authoritative_members(operations[o].key)'
  <2> PICK retire_source \in BOOLEAN : commit_operation(o, retire_source)
    BY <1>1, OnlyCommitCompletes, Zenon
  <2> DEFINE op == operations[o]
             r == op.destination
             make_owner == op.kind = "MIGRATION" \/ states[op.key].single_owner
             retiring == /\ retire_source
                         /\ op.source \in DOMAIN replicas /\ op.source # r
                         /\ ~is_terminal(replicas[op.source])
             planned == plan_authoritative_commit(r, make_owner)
  <2>1. r \in DOMAIN replicas /\ op.key \in DOMAIN states /\ replicas[r].key = op.key
    BY <1>1, Zenon DEF commit_operation, AuthorityInv, OperationInv, replicas_of_state
  <2>2. make_owner \in BOOLEAN /\ replicas[r] \in ReplicaRecord
    <3>1. states[op.key] \in StateRecord /\ replicas[r] \in ReplicaRecord
      BY <1>1, <2>1, TypedRecords, Zenon DEF AuthorityInv
    <3> QED  BY <3>1, Zenon DEF StateRecord
  <2>3. replicas' = IF retiring THEN [planned EXCEPT ![op.source] = Retired(replicas[op.source])]
                    ELSE planned
    BY Zenon DEF commit_operation
  <2>4. DOMAIN planned = DOMAIN replicas /\ planned[r] = Committed(replicas[r], make_owner)
    BY <1>1, <2>1, <2>2, PlanType, Zenon DEF AuthorityInv
  <2>5. retiring => op.source # r
    BY Zenon
  <2> HIDE DEF planned, make_owner, retiring
  <2>6. r \in DOMAIN replicas' /\ replicas'[r] = Committed(replicas[r], make_owner)
    BY <2>1, <2>3, <2>4, <2>5, Zenon
  <2>7. /\ Committed(replicas[r], make_owner).key = replicas[r].key
        /\ replica_counts_toward_replication_factor(Committed(replicas[r], make_owner))
    BY <2>2, Zenon DEF Committed, replica_counts_toward_replication_factor, ReplicaRecord
  <2>8. operations'[o].key = operations[o].key
    BY <1>1, OperationsStep, Zenon DEF OperationsShape, SameOrder, AuthorityInv
  <2>9. /\ replicas'[r].key = operations'[o].key
        /\ replica_counts_toward_replication_factor(replicas'[r])
    BY <2>1, <2>6, <2>7, <2>8, Zenon
  <2> QED  BY <2>6, <2>9, Zenon DEF authoritative_members, replicas_of_state,
                             replica_counts_toward_replication_factor
<1>2. AuthorityInv /\ TransactionInv /\ [Next]_vars =>
        [\A o \in DOMAIN operations :
           (\/ operations'[o].state = "COMPLETE" /\ operations[o].state # "COMPLETE"
            \/ operations'[o].source_retired /\ ~operations[o].source_retired)
             => operations[o].destination \in authoritative_members(operations[o].key)']_vars
  BY <1>1, Zenon
<1> QED  BY <1>2, TransactionInductive, PTL DEF Spec, CommitLeavesAuthority

-----------------------------------------------------------------------------
(* State generations *)

\* One generation of a lineage is current outside branches, for any number of generations
\* and lineages.
THEOREM LineagesHaveOneCurrent == Spec => []OneCurrentPerLineage
<1>1. Init => OneCurrentPerLineage
  BY DEF Init, OneCurrentPerLineage
<1>2. ASSUME TypeOK, OneCurrentPerLineage, [Next]_vars PROVE OneCurrentPerLineage'
  <2>0. \A k \in DOMAIN states : states[k] \in StateRecord
    BY <1>2, MapValue, Zenon DEF TypeOK
  <2>1. ASSUME states' = states PROVE OneCurrentPerLineage'
    BY <1>2, <2>1, Zenon DEF OneCurrentPerLineage
  <2>2. ASSUME NEW k, NEW spec, states' = Put(states, k, materialize(spec))
        PROVE  OneCurrentPerLineage'
    <3>1. states'[k].lifecycle = "STAGED"
      BY <2>2, Zenon DEF Put, materialize
    <3>2. DOMAIN states' = DOMAIN states \cup {k} /\ \A j \in DOMAIN states \ {k} : states'[j] = states[j]
      BY <2>2, Zenon DEF Put
    <3> QED  BY <1>2, <3>1, <3>2, Zenon DEF OneCurrentPerLineage
  <2>3. ASSUME NEW k, NEW spec, publish_state_generation(k, spec) PROVE OneCurrentPerLineage'
    <3>1. k \in DOMAIN states /\ states' = [states EXCEPT ![k] = materialize(spec)]
      BY <2>3, Zenon DEF publish_state_generation
    <3>2. states' = Put(states, k, materialize(spec))
      BY <1>2, <3>1, Zenon DEF Put, TypeOK, IsMap
    <3> QED  BY <2>2, <3>2, Zenon
  <2>4. ASSUME NEW k, commit_state_generation(k) PROVE OneCurrentPerLineage'
    <3> DEFINE S == IF states[k].branch THEN {} ELSE OtherCurrent(k)
    <3>1. k \in DOMAIN states /\ states' = [j \in DOMAIN states |->
            IF j = k THEN [states[j] EXCEPT !.lifecycle = "CURRENT"]
            ELSE IF j \in S THEN [states[j] EXCEPT !.lifecycle = "HISTORICAL"] ELSE states[j]]
      BY <2>4, Zenon DEF commit_state_generation
    <3>2. ASSUME NEW j \in DOMAIN states
          PROVE  /\ states'[j].lineage = states[j].lineage /\ states'[j].branch <=> states[j].branch
                 /\ j # k /\ states'[j].lifecycle = "CURRENT" =>
                      j \notin S /\ states[j].lifecycle = "CURRENT"
      BY <2>0, <3>1, Zenon DEF StateRecord
    <3>3. \A j \in DOMAIN states \ S :
            (/\ IdOf(j) = IdOf(k) /\ states[j].lineage = states[k].lineage
             /\ states[j].lifecycle = "CURRENT") => states[k].branch
      BY Zenon DEF OtherCurrent
    <3>4. DOMAIN states' = DOMAIN states
      BY <3>1, Zenon
    <3> HIDE DEF S
    <3> QED  BY <1>2, <3>1, <3>2, <3>3, <3>4 DEF OneCurrentPerLineage
  <2>5. CASE StateStep
    BY <2>2, <2>3, <2>4, <2>5, Zenon DEF StateStep, register_state
  <2>6. CASE ClusterStep \/ ReplicaStep \/ OwnershipStep
    BY ZenonT(60), <2>1, <2>6 DEF ClusterStep, register_cluster, publish_cluster_evidence,
         mark_cluster_unreachable, retire_cluster, ReplicaStep, register_replica,
         record_transfer_progress, record_transfer_completion, verify_replica, commit_replica,
         retire_replica, quarantine_replica, revalidate_replica, OwnershipStep,
         transfer_ownership
  <2>7. CASE OperationStep
    <3>1. \A o, r, k, kind, b, source, c :
            authorize_transaction(o, r, k, kind, b, source, c) => states' = states
      BY AuthorizationFrame, Zenon
    <3>2. \A o, b : commit_operation(o, b) => states' = states
      BY Zenon DEF commit_operation
    <3>3. \A o : cancel_operation(o) => states' = states
      BY Zenon DEF cancel_operation
    <3> QED  BY <2>1, <2>7, <3>1, <3>2, <3>3, Zenon DEF OperationStep, authorize_replication,
                                                 authorize_migration
  <2>8. CASE initialize \/ advance_epoch \/ UNCHANGED vars
    BY <2>1, <2>8, Zenon DEF initialize, advance_epoch, vars
  <2> QED  BY <1>2, <2>5, <2>6, <2>7, <2>8, Zenon DEF Next
<1> QED  BY <1>1, <1>2, TypeCorrect, PTL DEF Spec

-----------------------------------------------------------------------------
(* One host, one replica *)

\* A replica that a cluster still hosts as committed, counted or fenced.
Standing(x) == x.commit_recorded /\ ~is_terminal(x)

\* No cluster hosts two committed replicas of a generation.
OneStanding ==
  \A q, r \in DOMAIN replicas :
    (/\ Standing(replicas[q]) /\ Standing(replicas[r])
     /\ replicas[q].key = replicas[r].key /\ replicas[q].cluster = replicas[r].cluster) => q = r

\* While the operation may still commit, no committed replica is where its destination is.
FreeDestination(o) ==
  \A r \in DOMAIN replicas :
    (/\ ~OperationIsTerminal(operations[o])
     /\ sets[operations[o].key].generation = operations[o].set_generation
     /\ Standing(replicas[r]) /\ replicas[r].key = operations[o].key)
    => replicas[r].cluster # replicas[operations[o].destination].cluster

HostInv == OneStanding /\ \A o \in DOMAIN operations : FreeDestination(o)

\* A step after which no replica but those of J is newly committed, none moves, and none
\* comes back from retirement.
JoinsIn(J) ==
  /\ DOMAIN replicas \subseteq DOMAIN replicas'
  /\ \A q \in DOMAIN replicas : /\ replicas'[q].key = replicas[q].key
                                /\ replicas'[q].cluster = replicas[q].cluster
                                /\ Standing(replicas'[q]) => Standing(replicas[q]) \/ q \in J
  /\ \A q \in DOMAIN replicas' \ DOMAIN replicas : ~Standing(replicas'[q])

\* A kept or retired replica stays where it is, uncommitted or retired if it was.
LEMMA KeptStands ==
  ASSUME AuthorityInv, NEW q \in DOMAIN replicas, KeptOrRetired(q)
  PROVE  /\ replicas'[q].key = replicas[q].key /\ replicas'[q].cluster = replicas[q].cluster
         /\ Standing(replicas'[q]) => Standing(replicas[q])
<1>1. replicas[q] \in ReplicaRecord /\ Unpromoted(replicas[q], replicas'[q])
  BY MapValue, KeptRecord, Zenon DEF AuthorityInv, TypeOK
<1>2. is_terminal(replicas[q]) => is_terminal(replicas'[q])
  BY <1>1, Zenon DEF KeptOrRetired, Weakened, is_terminal, Abandoned, Superseded, ReplicaRecord
<1> QED  BY <1>1, <1>2, Zenon DEF Unpromoted, Standing

\* A quiet step commits nothing and revives nothing.
LEMMA QuietJoinsNone ==
  ASSUME AuthorityInv, Quiet
  PROVE  JoinsIn({})
BY KeptStands, Zenon DEF JoinsIn, Quiet, Blank, Standing

\* The gain of a replica commits no other one.
LEMMA GainJoinsOne ==
  ASSUME AuthorityInv, NEW r \in DOMAIN replicas, Gain(r)
  PROVE  JoinsIn({r}) /\ sets' = Advance({replicas[r].key})
<1>1. replicas'[r].key = replicas[r].key /\ replicas'[r].cluster = replicas[r].cluster
  <2>1. replicas[r] \in ReplicaRecord /\ RecordInv(replicas[r])
    BY MapValue, Zenon DEF AuthorityInv, TypeOK, ReplicaInv
  <2> QED  BY <2>1, StrengthenedKeeps, Zenon DEF Gain, AuthorityInv, TypeOK
<1> QED  BY <1>1, KeptStands, Zenon DEF JoinsIn, Gain

\* Revalidation commits nothing either.
LEMMA RevalidationJoinsNone ==
  ASSUME AuthorityInv, NEW r \in DOMAIN replicas, revalidate_replica(r, TRUE)
  PROVE  JoinsIn({})
<1>1. replicas[r] \in ReplicaRecord
  BY MapValue, Zenon DEF AuthorityInv, TypeOK
<1>2. PICK owns : replicas' = [replicas EXCEPT ![r] = Revalidated(replicas[r], owns)]
  BY Zenon DEF revalidate_replica
<1>3. ~is_terminal(replicas[r])
  BY Zenon DEF revalidate_replica
<1>4. /\ Revalidated(replicas[r], owns).key = replicas[r].key
      /\ Revalidated(replicas[r], owns).cluster = replicas[r].cluster
      /\ Revalidated(replicas[r], owns).commit_recorded = replicas[r].commit_recorded
  BY <1>1, Zenon DEF Revalidated, ReplicaRecord
<1>5. /\ DOMAIN replicas' = DOMAIN replicas
      /\ \A q \in DOMAIN replicas :
           replicas'[q] = IF q = r THEN Revalidated(replicas[r], owns) ELSE replicas[q]
  BY <1>2, Zenon DEF AuthorityInv, TypeOK, IsMap
<1> QED  BY <1>3, <1>4, <1>5, Zenon DEF JoinsIn, Standing

\* Neither does a restart, and what was retired or abandoned before it stays so.
LEMMA RestartJoinsNone ==
  ASSUME AuthorityInv, initialize
  PROVE  JoinsIn({}) /\ DOMAIN operations' = DOMAIN operations
<1>1. /\ DOMAIN replicas' = DOMAIN replicas /\ DOMAIN operations' = DOMAIN operations
      /\ \A q \in DOMAIN replicas : replicas'[q] = RecoveredReplica(q)
  BY Zenon DEF initialize
<1>2. ASSUME NEW q \in DOMAIN replicas
      PROVE  /\ Unpromoted(replicas[q], RecoveredReplica(q))
             /\ is_terminal(replicas[q]) => is_terminal(RecoveredReplica(q))
  <2>1. replicas[q] \in ReplicaRecord /\ RecordInv(replicas[q])
    BY MapValue, Zenon DEF AuthorityInv, TypeOK, ReplicaInv
  <2>2. Unpromoted(replicas[q], RecoveredReplica(q))
    BY <2>1, RecoveredKeeps, Zenon DEF AuthorityInv
  <2>3. is_terminal(replicas[q])
          => RecoveredReplica(q) = replicas[q] \/ RecoveredReplica(q) = Abandoned(replicas[q])
    BY <2>1, Zenon DEF RecoveredReplica, ReplicaRecord, is_terminal
  <2>4. is_terminal(Abandoned(replicas[q]))
    BY <2>1, Zenon DEF Abandoned, ReplicaRecord, is_terminal
  <2> QED  BY <2>2, <2>3, <2>4, Zenon
<1>3. \A q \in DOMAIN replicas : /\ replicas'[q].key = replicas[q].key
                                 /\ replicas'[q].cluster = replicas[q].cluster
                                 /\ Standing(replicas'[q]) => Standing(replicas[q])
  BY <1>1, <1>2, Zenon DEF Unpromoted, Standing
<1> QED  BY <1>1, <1>3, Zenon DEF JoinsIn

\* When nothing joins, no cluster comes to host two replicas.
LEMMA StandingKept ==
  ASSUME HostInv, JoinsIn({})
  PROVE  OneStanding'
<1>1. OneStanding' = \A q, r \in DOMAIN replicas' :
        (/\ Standing(replicas'[q]) /\ Standing(replicas'[r])
         /\ replicas'[q].key = replicas'[r].key
         /\ replicas'[q].cluster = replicas'[r].cluster) => q = r
  BY Zenon DEF OneStanding, Standing, is_terminal
<1> QED  BY <1>1, Zenon DEF HostInv, OneStanding, JoinsIn

\* An operation that was in flight keeps its destination free unless a replica of its own
\* generation joins.
LEMMA DestinationKept ==
  ASSUME AuthorityInv, TransactionInv, HostInv, [Next]_vars, TypeOK',
         NEW J, JoinsIn(J), NEW o \in DOMAIN operations,
         \A r \in J : r \in DOMAIN replicas /\ replicas[r].key # operations[o].key
  PROVE  FreeDestination(o)'
<1>0. OperationsShape /\ SetsGrow
  BY OperationsStep, SetsStep, Zenon DEF AuthorityInv
<1>1. SameOrder(operations[o], operations'[o])
  BY <1>0, Zenon DEF OperationsShape
<1>2. /\ operations[o].destination \in DOMAIN replicas
      /\ operations[o].key \in DOMAIN sets
      /\ sets[operations[o].key].generation >= operations[o].set_generation
  BY Zenon DEF AuthorityInv, OperationInv, replicas_of_state, TransactionInv
<1>3. /\ sets[operations[o].key] \in SetRecord /\ sets'[operations[o].key] \in SetRecord
      /\ operations[o] \in OperationRecord
      /\ sets'[operations[o].key].generation >= sets[operations[o].key].generation
  <2>1. /\ TypeOK /\ operations[o].key \in DOMAIN sets'
        /\ sets'[operations[o].key].generation >= sets[operations[o].key].generation
    BY <1>0, <1>2, Zenon DEF SetsGrow, AuthorityInv
  <2>2. sets[operations[o].key] \in SetRecord /\ operations[o] \in OperationRecord
    BY <1>2, <2>1, TypedRecords, Zenon
  <2>3. \A k \in DOMAIN sets' : sets'[k] \in SetRecord
    <3>1. IsMap(sets', StateKey, SetRecord)
      BY Zenon DEF TypeOK
    <3> QED  BY <3>1, MapValue, Zenon
  <2> QED  BY <2>1, <2>2, <2>3, Zenon
<1>4. sets'[operations[o].key].generation = operations[o].set_generation
        => sets[operations[o].key].generation = operations[o].set_generation
  BY <1>2, <1>3 DEF SetRecord, OperationRecord
<1>5. ASSUME NEW r \in DOMAIN replicas', ~OperationIsTerminal(operations'[o]),
             sets'[operations'[o].key].generation = operations'[o].set_generation,
             Standing(replicas'[r]), replicas'[r].key = operations'[o].key
      PROVE  replicas'[r].cluster # replicas'[operations'[o].destination].cluster
  <2>1. /\ ~OperationIsTerminal(operations[o]) /\ operations'[o].key = operations[o].key
        /\ operations'[o].set_generation = operations[o].set_generation
        /\ operations'[o].destination = operations[o].destination
    BY <1>1, <1>5, Zenon DEF SameOrder
  <2>2. r \in DOMAIN replicas /\ Standing(replicas[r]) /\ replicas[r].key = operations[o].key
    BY <1>5, <2>1, Zenon DEF JoinsIn
  <2>3. replicas[r].cluster # replicas[operations[o].destination].cluster
    BY <1>4, <1>5, <2>1, <2>2, Zenon DEF HostInv, FreeDestination
  <2> QED  BY <1>2, <2>1, <2>2, <2>3, Zenon DEF JoinsIn
<1> QED  BY <1>5, Zenon DEF FreeDestination, Standing, is_terminal, OperationIsTerminal

\* An authorized destination is a cluster without a committed replica of the generation.
LEMMA AuthorizationKeepsHosts ==
  ASSUME AuthorityInv, TransactionInv, HostInv, TypeOK', Next,
         NEW o, NEW r, NEW k, NEW source, NEW c, authorize_replication(o, r, k, source, c)
  PROVE  HostInv'
<1> DEFINE order == [kind |-> "REPLICATION", state |-> "RESERVED", key |-> k, source |-> source,
                     destination |-> r, set_generation |-> sets[k].generation,
                     destructive_move |-> FALSE, destination_committed |-> FALSE,
                     source_retired |-> FALSE, planned_epoch |-> epoch]
<1>1. /\ r \notin DOMAIN replicas /\ o \notin DOMAIN operations /\ c \in legal_destinations(k)
      /\ operations' = Put(operations, o, order)
      /\ replicas' = Put(replicas, r, NewReplica(k, c, o, "RESERVED"))
      /\ UNCHANGED <<ownership, epoch, boot_epoch>>
  BY Zenon DEF authorize_replication, authorize_transaction, Minted
<1>2. JoinsIn({})
  BY <1>1, RegistrationIsQuiet, QuietJoinsNone, Zenon DEF AuthorityInv
<1>3. /\ DOMAIN operations' = DOMAIN operations \cup {o}
      /\ operations'[o].key = k /\ operations'[o].destination = r
  BY <1>1, Zenon DEF Put
<1>4. replicas'[r].cluster = c
  BY <1>1, Zenon DEF Put, NewReplica
<1>5. ASSUME NEW q \in DOMAIN replicas', Standing(replicas'[q]), replicas'[q].key = k
      PROVE  replicas'[q].cluster # c
  <2>1. q \in DOMAIN replicas /\ Standing(replicas[q]) /\ replicas[q].key = k
        /\ replicas'[q].cluster = replicas[q].cluster
    BY <1>2, <1>5, Zenon DEF JoinsIn
  <2> QED  BY <1>1, <2>1, Zenon DEF legal_destinations, replicas_of_state, Standing
<1>6. FreeDestination(o)'
  BY <1>3, <1>4, <1>5, Zenon DEF FreeDestination, Standing, is_terminal
<1>7. \A p \in DOMAIN operations : FreeDestination(p)'
  BY <1>2, DestinationKept
<1> QED  BY <1>2, <1>3, <1>6, <1>7, StandingKept, Zenon DEF HostInv

\* A commit makes its destination the only replica of the generation on its cluster, and
\* outdates every other operation on the generation.
LEMMA CommitKeepsHosts ==
  ASSUME AuthorityInv, TransactionInv, HostInv, TypeOK', Next,
         NEW o \in DOMAIN operations, commit_operation(o, FALSE)
  PROVE  HostInv'
<1> DEFINE d == operations[o].destination
           k == operations[o].key
<1>1. /\ d \in DOMAIN replicas /\ replicas[d].key = k /\ k \in DOMAIN sets
      /\ ~OperationIsTerminal(operations[o])
      /\ sets[k].generation = operations[o].set_generation
      /\ sets' = Advance({k}) /\ DOMAIN operations' = DOMAIN operations
  <2>1. /\ ~OperationIsTerminal(operations[o])
        /\ sets[k].generation = operations[o].set_generation /\ sets' = Advance({k})
    BY Zenon DEF commit_operation
  <2>2. DOMAIN operations' = DOMAIN operations
    BY Zenon DEF commit_operation
  <2> QED  BY <2>1, <2>2, Zenon DEF AuthorityInv, OperationInv, replicas_of_state, TransactionInv
<1>2. JoinsIn({d})
  <2> DEFINE make_owner == operations[o].kind = "MIGRATION" \/ states[k].single_owner
             planned == plan_authoritative_commit(d, make_owner)
  <2>1. replicas' = planned
    BY Zenon DEF commit_operation
  <2>2. states[k] \in StateRecord
    BY <1>1, TypedRecords, Zenon DEF AuthorityInv
  <2>3. make_owner \in BOOLEAN
    BY <2>2, Zenon DEF StateRecord
  <2>4. DOMAIN planned = DOMAIN replicas /\ planned[d] = Committed(replicas[d], make_owner)
    BY <1>1, <2>3, PlanType, Zenon DEF AuthorityInv
  <2> HIDE DEF planned, make_owner
  <2>5. replicas[d] \in ReplicaRecord
    BY <1>1, TypedRecords, Zenon DEF AuthorityInv
  <2>6. replicas'[d].key = replicas[d].key /\ replicas'[d].cluster = replicas[d].cluster
    BY <2>1, <2>4, <2>5, Zenon DEF Committed, ReplicaRecord
  <2>7. \A q \in DOMAIN replicas : q # d => KeptOrRetired(q)
    BY <1>1, <2>1, <2>3, PlanOthers, Zenon DEF planned, KeptOrRetired, AuthorityInv
  <2> QED  BY <2>1, <2>4, <2>6, <2>7, KeptStands, Zenon DEF JoinsIn
<1> HIDE DEF d, k
<1>3. \A q \in DOMAIN replicas : Standing(replicas[q]) /\ replicas[q].key = k
        => replicas[q].cluster # replicas[d].cluster
  BY <1>1, Zenon DEF HostInv, FreeDestination, d, k
<1>4. OneStanding'
  <2>1. ASSUME NEW q \in DOMAIN replicas', NEW r \in DOMAIN replicas',
               Standing(replicas'[q]), Standing(replicas'[r]),
               replicas'[q].key = replicas'[r].key, replicas'[q].cluster = replicas'[r].cluster
        PROVE  q = r
    <3>1. /\ q \in DOMAIN replicas /\ r \in DOMAIN replicas
          /\ replicas[q].key = replicas[r].key /\ replicas[q].cluster = replicas[r].cluster
          /\ Standing(replicas[q]) \/ q = d
          /\ Standing(replicas[r]) \/ r = d
      BY <1>2, <2>1, Zenon DEF JoinsIn
    <3> QED  BY <1>1, <1>3, <3>1, Zenon DEF HostInv, OneStanding
  <2> QED  BY <2>1, Zenon DEF OneStanding, Standing, is_terminal
<1>5. ASSUME NEW p \in DOMAIN operations PROVE FreeDestination(p)'
  <2>1. CASE operations[p].key # k
    BY <1>1, <1>2, <2>1, DestinationKept
  <2>2. CASE operations[p].key = k
    <3>1. sets[k].generation >= operations[p].set_generation
          /\ sets'[k].generation > sets[k].generation
      BY <1>1, <2>2, Advanced, Zenon DEF TransactionInv, AuthorityInv
    <3>2. sets[k] \in SetRecord /\ sets'[k] \in SetRecord /\ operations[p] \in OperationRecord
      <4>1. k \in DOMAIN sets'
        BY <1>1, SetsStep, Zenon DEF SetsGrow, AuthorityInv
      <4>2. sets'[k] \in SetRecord
        BY <4>1, MapValue, Zenon DEF TypeOK
      <4> QED  BY <1>1, <4>2, TypedRecords, Zenon DEF AuthorityInv
    <3>3. sets'[k].generation # operations[p].set_generation
      BY <3>1, <3>2 DEF SetRecord, OperationRecord
    <3>4. SameOrder(operations[p], operations'[p])
      BY OperationsStep, Zenon DEF OperationsShape, AuthorityInv
    <3> QED  BY <2>2, <3>3, <3>4, Zenon DEF SameOrder, FreeDestination
  <2> QED  BY <2>1, <2>2, Zenon
<1> QED  BY <1>1, <1>4, <1>5, Zenon DEF HostInv

\* Steps that leave every join of a replica to the commit of an operation: what callers do,
\* and restarts.
HostedStep ==
  \/ \E o, r, k, source, c : authorize_replication(o, r, k, source, c)
  \/ \E r \in DOMAIN replicas : record_transfer_completion(r, replicas[r].operation, "MATCH")
  \/ \E r \in DOMAIN replicas : verify_replica(r, replicas[r].operation, "MATCH", "COMPATIBLE")
  \/ \E o \in DOMAIN operations : commit_operation(o, FALSE)
  \/ \E o \in DOMAIN operations : cancel_operation(o)
  \/ \E r \in DOMAIN replicas : retire_replica(r)
  \/ \E r \in DOMAIN replicas : revalidate_replica(r, TRUE)
  \/ \E c \in DOMAIN clusters : register_cluster(c, TRUE)
  \/ \E c \in DOMAIN clusters : mark_cluster_unreachable(c)
  \/ initialize

\* They keep one host for one replica.
LEMMA HostStep ==
  ASSUME AuthorityInv, TransactionInv, HostInv, [Next /\ HostedStep]_vars
  PROVE  AuthorityInv' /\ TransactionInv' /\ HostInv'
<1>1. [Next]_vars
  BY Zenon
<1>2. AuthorityInv' /\ TransactionInv' /\ TypeOK'
  BY <1>1, AuthorityStep, TransactionStep, Zenon DEF AuthorityInv
<1>3. ASSUME JoinsIn({}), DOMAIN operations' = DOMAIN operations PROVE HostInv'
  BY <1>1, <1>2, <1>3, StandingKept, DestinationKept DEF HostInv
<1>4. ASSUME Quiet, DOMAIN operations' = DOMAIN operations PROVE HostInv'
  BY <1>3, <1>4, QuietJoinsNone, Zenon
<1>5. ASSUME UNCHANGED vars PROVE HostInv'
  BY <1>4, <1>5, UnchangedIsQuiet, Zenon DEF vars, AuthorityInv
<1>6. ASSUME NEW o, NEW r, NEW source, NEW k, NEW c, authorize_replication(o, r, k, source, c),
             Next
      PROVE  HostInv'
  BY <1>2, <1>6, AuthorizationKeepsHosts, Zenon
<1>7. ASSUME NEW o, NEW state, advance_operation(o, state)
      PROVE  DOMAIN operations' = DOMAIN operations
  BY <1>7, Zenon DEF advance_operation
<1>8. ASSUME NEW r \in DOMAIN replicas,
             record_transfer_completion(r, replicas[r].operation, "MATCH")
      PROVE  HostInv'
  <2> DEFINE v == TransferredRecord(replicas[r], "MATCH")
  <2>1. /\ Weakened(replicas[r], v) /\ replicas' = [replicas EXCEPT ![r] = v]
        /\ UNCHANGED <<ownership, epoch, boot_epoch>>
    BY <1>8, Zenon DEF record_transfer_completion, Weakened, Digests
  <2>2. DOMAIN operations' = DOMAIN operations
    BY <1>7, <1>8, Zenon DEF record_transfer_completion
  <2> HIDE DEF v
  <2> QED  BY <1>4, <2>1, <2>2, WeakeningIsQuiet, Zenon DEF AuthorityInv
<1>9. ASSUME NEW r \in DOMAIN replicas,
             verify_replica(r, replicas[r].operation, "MATCH", "COMPATIBLE")
      PROVE  HostInv'
  <2> DEFINE v == VerifiedRecord(replicas[r], "MATCH", "COMPATIBLE")
  <2>1. /\ Weakened(replicas[r], v) /\ replicas' = [replicas EXCEPT ![r] = v]
        /\ UNCHANGED <<ownership, epoch, boot_epoch>>
    BY <1>9, Zenon DEF verify_replica, Weakened, Digests, Verdicts
  <2>2. DOMAIN operations' = DOMAIN operations
    BY <1>7, <1>9, Zenon DEF verify_replica
  <2> HIDE DEF v
  <2> QED  BY <1>4, <2>1, <2>2, WeakeningIsQuiet, Zenon DEF AuthorityInv
<1>10. ASSUME NEW o \in DOMAIN operations, cancel_operation(o), Next PROVE HostInv'
  <2>1. DOMAIN operations' = DOMAIN operations
    BY <1>10, Zenon DEF cancel_operation
  <2>2. Quiet
    BY <1>10, CancelIsQuiet, Zenon
  <2> QED  BY <1>4, <2>1, <2>2, Zenon
<1>11. ASSUME NEW r \in DOMAIN replicas, retire_replica(r) PROVE HostInv'
  <2>1. operations' = operations
    BY <1>11, Zenon DEF retire_replica
  <2>2. Quiet
    BY <1>11, RetirementIsQuiet, Zenon
  <2> QED  BY <1>4, <2>1, <2>2, Zenon
<1>12. ASSUME NEW r \in DOMAIN replicas, revalidate_replica(r, TRUE) PROVE HostInv'
  <2>1. operations' = operations
    BY <1>12, Zenon DEF revalidate_replica
  <2> QED  BY <1>3, <1>12, <2>1, RevalidationJoinsNone, Zenon
<1>13. ASSUME NEW c \in DOMAIN clusters, register_cluster(c, TRUE) \/ mark_cluster_unreachable(c)
       PROVE  HostInv'
  <2>1. operations' = operations
    BY <1>13, Zenon DEF register_cluster, mark_cluster_unreachable
  <2>2. ClusterStep
    BY <1>13, Zenon DEF ClusterStep, AuthorityInv, TypeOK, IsMap
  <2> QED  BY <1>4, <2>1, <2>2, ClusterStepIsQuiet, Zenon DEF AuthorityInv
<1>14. ASSUME initialize PROVE HostInv'
  BY <1>3, <1>14, RestartJoinsNone, Zenon
<1> QED  BY <1>2, <1>5, <1>6, <1>8, <1>9, <1>10, <1>11, <1>12, <1>13, <1>14, CommitKeepsHosts,
            Zenon DEF HostedStep
=============================================================================
