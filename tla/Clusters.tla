------------------------------ MODULE Clusters ------------------------------
(***************************************************************************)
(* The mutations on clusters (fabric_state.cpp): registration and          *)
(* reincarnation, evidence, loss and retirement, each with the fencing of  *)
(* the replicas the cluster hosts.                                         *)
(***************************************************************************)
EXTENDS ControlPlane

\* What losing its hosting incarnation does to a replica record: a committed authority
\* falls to the given lifecycle.
Fence(x, lifecycle, absent) ==
  [x EXCEPT !.authority = "FENCED", !.counts_toward_factor = FALSE, !.absent = absent,
            !.revalidation_required = TRUE,
            !.lifecycle = IF @ \in {"AUTHORITATIVE", "DEGRADED"} THEN lifecycle ELSE @]

\* Fence the replicas of R and advance the replica set of each of them, once per set:
\* every effect is computed from the plane before the mutation.
FenceAll(R, lifecycle, absent) ==
  LET K == {replicas[r].key : r \in R} IN
  /\ CanAdvance(K)
  /\ replicas' = [r \in DOMAIN replicas |->
                    IF r \in R THEN Fence(replicas[r], lifecycle, absent) ELSE replicas[r]]
  /\ sets' = Advance(K)

\* The non-terminal replicas on the cluster.
Hosted(c) == {r \in DOMAIN replicas : replicas[r].cluster = c /\ ~is_terminal(replicas[r])}

\* new_boot: the registration forces a reincarnation or names another worker boot.
register_cluster(c, new_boot) ==
  LET known == c \in DOMAIN clusters
      reincarnated == known /\ new_boot
      incarnation == IF ~known THEN 1
                     ELSE clusters[c].incarnation + (IF reincarnated THEN 1 ELSE 0)
      lost == IF reincarnated
              THEN {r \in Hosted(c) : replicas[r].incarnation # incarnation} ELSE {}
  IN /\ incarnation <= MaxIncarnation
     /\ clusters' = Put(clusters, c,
                      [incarnation |-> incarnation, live_authority |-> TRUE,
                       evidence_present |-> TRUE,
                       lifecycle |-> IF reincarnated THEN "REINCARNATED" ELSE "ACTIVE",
                       last_evidence_epoch |-> epoch])
     /\ FenceAll(lost, "REVALIDATION_REQUIRED", FALSE)
     /\ UNCHANGED <<states, operations, ownership, epoch, boot_epoch>>

\* The record a publication of evidence leaves.
Evidenced(x) == [x EXCEPT !.evidence_present = TRUE, !.last_evidence_epoch = epoch,
                          !.lifecycle = IF @ \in {"SUSPECT", "UNREACHABLE", "REINCARNATED"}
                                        THEN "ACTIVE" ELSE @]

publish_cluster_evidence(c) ==
  /\ c \in DOMAIN clusters
  /\ clusters[c].live_authority
  /\ clusters' = [clusters EXCEPT ![c] = Evidenced(@)]
  /\ UNCHANGED <<states, sets, replicas, operations, ownership, epoch, boot_epoch>>

\* The live replicas the loss of the cluster's current incarnation takes down.
LiveHosted(c) == {r \in Hosted(c) : replicas[r].incarnation = clusters[c].incarnation}

mark_cluster_unreachable(c) ==
  /\ c \in DOMAIN clusters
  /\ clusters[c].live_authority
  /\ clusters' = [clusters EXCEPT ![c] =
       [@ EXCEPT !.live_authority = FALSE, !.lifecycle = "UNREACHABLE",
                 !.evidence_present = FALSE]]
  /\ FenceAll(LiveHosted(c), "STALE", FALSE)
  /\ UNCHANGED <<states, operations, ownership, epoch, boot_epoch>>

\* Unlike loss, retirement of a cluster that is not live fences its replicas again.
retire_cluster(c) ==
  /\ c \in DOMAIN clusters
  /\ clusters' = [clusters EXCEPT ![c] =
       [@ EXCEPT !.live_authority = FALSE, !.lifecycle = "RETIRED",
                 !.evidence_present = FALSE]]
  /\ FenceAll(LiveHosted(c), "STALE", TRUE)
  /\ UNCHANGED <<states, operations, ownership, epoch, boot_epoch>>
=============================================================================
