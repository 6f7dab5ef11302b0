------------------------------- MODULE Fabric -------------------------------
(***************************************************************************)
(* The control plane as its callers see it: every public mutation of       *)
(* ccsf::Fabric as one atomic step (Impl::mutate holds commit_mutex_ from  *)
(* the first read to the last applied effect), interleaved with crashes    *)
(* and restarts of the coordinator.  Requests arrive in any order, late    *)
(* and repeated ones included.                                             *)
(***************************************************************************)
EXTENDS StateGenerations, Clusters, Operations, Lifecycle

CONSTANTS
  SpecInput,           \* the governed contents registrations and publications carry
  DigestInput,         \* what measured digests are worth
  CompatibilityInput   \* the verdicts compatibility evidence leads to

ASSUME Inputs ==
  /\ SpecInput \subseteq StateSpec
  /\ DigestInput \subseteq {"MISSING", "MISMATCH", "MATCH"}
  /\ CompatibilityInput \subseteq {"COMPATIBLE", "INCOMPATIBLE", "UNKNOWN",
                                   "REVALIDATION_REQUIRED"}

\* The operation a message may name, zero for none.
NamedOperation == OperationId \cup {0}

StateStep == \E k \in StateKey :
  \/ \E spec \in SpecInput : register_state(k, spec)
  \/ \E spec \in SpecInput : publish_state_generation(k, spec)
  \/ commit_state_generation(k)

ClusterStep == \E c \in Cluster :
  \/ \E new_boot \in BOOLEAN : register_cluster(c, new_boot)
  \/ publish_cluster_evidence(c)
  \/ mark_cluster_unreachable(c)
  \/ retire_cluster(c)

ReplicaStep == \E r \in ReplicaId :
  \/ \E k \in StateKey, c \in Cluster, l \in {"RESERVED", "TRANSFERRING"} :
       register_replica(r, k, c, l)
  \/ \E o \in NamedOperation, failed \in BOOLEAN : record_transfer_progress(r, o, failed)
  \/ \E o \in NamedOperation, digest \in DigestInput : record_transfer_completion(r, o, digest)
  \/ \E o \in NamedOperation, digest \in DigestInput, compatibility \in CompatibilityInput :
       verify_replica(r, o, digest, compatibility)
  \/ \E make_owner \in BOOLEAN, strict \in BOOLEAN : commit_replica(r, make_owner, strict)
  \/ retire_replica(r)
  \/ quarantine_replica(r)
  \/ \E compatible \in BOOLEAN : revalidate_replica(r, compatible)

OperationStep == \E o \in OperationId :
  \/ \E r, source \in ReplicaId, k \in StateKey, c \in Cluster :
       authorize_replication(o, r, k, source, c)
  \/ \E r, source \in ReplicaId, k \in StateKey, c \in Cluster, retire \in BOOLEAN :
       authorize_migration(o, r, k, retire, source, c)
  \/ \E retire_source \in BOOLEAN : commit_operation(o, retire_source)
  \/ cancel_operation(o)

OwnershipStep == \E k \in StateKey, r \in ReplicaId : transfer_ownership(k, r)

Next == StateStep \/ ClusterStep \/ ReplicaStep \/ OperationStep \/ OwnershipStep
        \/ initialize \/ advance_epoch

Spec == Init /\ [][Next]_vars

-----------------------------------------------------------------------------
(* Counting and fencing *)

\* A replica that counts toward the replication factor is hosted by a cluster that still
\* holds live authority at the incarnation the replica is bound to: loss, reincarnation,
\* retirement and restart take every replica they affect out of the counted membership.
CountedOnLiveIncarnation ==
  \A k \in StateKey : \A r \in authoritative_members(k) : HostIsLive(replicas[r])

\* Bytes that never passed integrity verification never gain authority: whatever path makes
\* a replica AUTHORITATIVE (commit with waived requirements, operation commit, handoff,
\* revalidation) starts from a record whose integrity is VERIFIED.
AuthorityNeedsVerifiedBytes ==
  [][\A r \in DOMAIN replicas :
       (/\ replicas'[r].lifecycle = "AUTHORITATIVE"
        /\ replicas[r].lifecycle # "AUTHORITATIVE") => replicas[r].integrity = "VERIFIED"]_vars

\* A replica is reusable only on evidence gathered since the coordinator process started:
\* the replica was verified or revalidated and its cluster published evidence in an epoch
\* of this process, also when it was retired or fenced and restored in between.
ReuseNeedsCurrentEvidence ==
  \A r \in DOMAIN replicas :
    authoritative_for_reuse(r) =>
      /\ replicas[r].evidence_epoch >= boot_epoch
      /\ clusters[replicas[r].cluster].last_evidence_epoch >= boot_epoch

\* A coordinator restart keeps the counted membership of every generation and every
\* recorded owner, whatever happens to the operations in flight.
RestartKeepsMembership ==
  [][boot_epoch' # boot_epoch =>
       /\ ownership' = ownership
       /\ \A k \in StateKey : authoritative_members(k)' = authoritative_members(k)]_vars

-----------------------------------------------------------------------------
(* Ownership *)

\* At most one replica of a generation holds owner authority, and it is the one the
\* ownership record names.
SingleOwner ==
  \A r \in DOMAIN replicas :
    replicas[r].authority = "AUTHORITATIVE_OWNER" =>
      replicas[r].key \in DOMAIN ownership /\ ownership[replicas[r].key] = r

\* The recorded owner of a generation is a committed replica of that generation and is
\* never retired or abandoned while it is the owner: ownership is handed over first.
OwnerIsNeverRetired ==
  \A k \in DOMAIN ownership :
    /\ ownership[k] \in DOMAIN replicas
    /\ replicas[ownership[k]].key = k
    /\ replicas[ownership[k]].commit_recorded
    /\ ~is_terminal(replicas[ownership[k]])

-----------------------------------------------------------------------------
(* Transactions *)

\* A replica joins the counted membership of a generation only in a step that advances the
\* replica set generation, so an operation authorized before it can no longer commit.
JoinAdvancesSet ==
  [][\A k \in DOMAIN sets :
       /\ sets'[k].generation >= sets[k].generation
       /\ authoritative_members(k)' \subseteq authoritative_members(k)
            \/ sets'[k].generation > sets[k].generation]_vars

\* An operation in flight across a coordinator restart never completes: only operations
\* planned by this process commit, also when the destination is revalidated afterwards.
CommitsBelongToThisProcess ==
  [][\A o \in DOMAIN operations :
       (operations'[o].state = "COMPLETE" /\ operations[o].state # "COMPLETE")
         => operations[o].planned_epoch >= boot_epoch]_vars

\* The commit of an operation leaves its destination counted, also when the source is
\* retired in the same step, and no other step retires the source for an operation.
CommitLeavesAuthority ==
  [][\A o \in DOMAIN operations :
       (\/ operations'[o].state = "COMPLETE" /\ operations[o].state # "COMPLETE"
        \/ operations'[o].source_retired /\ ~operations[o].source_retired)
         => operations[o].destination \in authoritative_members(operations[o].key)']_vars

\* The outcome of a finished operation is final under late progress, verification,
\* cancellation, commit and recovery.
OutcomeIsFinal ==
  [][\A o \in DOMAIN operations :
       OperationIsTerminal(operations[o]) => operations'[o] = operations[o]]_vars

-----------------------------------------------------------------------------
(* State generations *)

\* At most one generation of a state identity and lineage is current outside declared
\* branches, whatever is republished, committed again or superseded.
OneCurrentPerLineage ==
  \A j, k \in DOMAIN states :
    (/\ IdOf(j) = IdOf(k) /\ states[j].lineage = states[k].lineage
     /\ states[j].lifecycle = "CURRENT" /\ states[k].lifecycle = "CURRENT"
     /\ ~states[j].branch /\ ~states[k].branch) => j = k

-----------------------------------------------------------------------------
(* Statements of the documentation that the code does not keep *)

\* guard_replica reports of a retired or abandoned replica that it "accepts no further
\* transitions".
TerminalReplicaIsFinal ==
  [][\A r \in DOMAIN replicas :
       is_terminal(replicas[r]) => is_terminal(replicas'[r])]_vars

\* "every generation of a state identity must share one lineage".
OneLineagePerState ==
  \A j, k \in DOMAIN states : IdOf(j) = IdOf(k) => states[j].lineage = states[k].lineage

\* A set is reported as REVALIDATION_REQUIRED only while "verification evidence is stale or
\* absent for a member".
RevalidationReportIsAccurate ==
  \A k \in DOMAIN sets :
    replica_set_state(k) = "REVALIDATION_REQUIRED" =>
      \E r \in authoritative_members(k) : ~authoritative_for_reuse(r)
=============================================================================
