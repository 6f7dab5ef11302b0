------------------------------ MODULE Replicas ------------------------------
(***************************************************************************)
(* The mutations on replicas (fabric_replica.cpp): registration, transfer, *)
(* verification, commit, retirement, quarantine and revalidation.          *)
(***************************************************************************)
EXTENDS ControlPlane

guard_replica(r) == /\ r \in DOMAIN replicas
                    /\ HostIsLive(replicas[r])
                    /\ ~is_terminal(replicas[r])

\* A destination or registered copy before any byte has moved.
NewReplica(k, c, o, lifecycle) ==
  [key |-> k, cluster |-> c, incarnation |-> clusters[c].incarnation, operation |-> o,
   lifecycle |-> lifecycle, integrity |-> "UNVERIFIED", compatibility |-> "UNKNOWN",
   authority |-> "CANDIDATE", absent |-> FALSE, commit_recorded |-> FALSE,
   counts_toward_factor |-> FALSE, revalidation_required |-> FALSE, evidence_epoch |-> 0]

\* An operation the registration names would only narrow the operations that later progress
\* may name, so none is named.
register_replica(r, k, c, lifecycle) ==
  /\ Minted(replicas, ReplicaId, r)
  /\ k \in DOMAIN states
  /\ c \in DOMAIN clusters /\ clusters[c].live_authority
  /\ replicas' = Put(replicas, r, NewReplica(k, c, 0, lifecycle))
  /\ UNCHANGED <<states, sets, clusters, operations, ownership, epoch, boot_epoch>>

\* Faulty variant: the terminal check is missing.
AdvanceTerminalToo(o, state) ==
  operations' = IF o \in DOMAIN operations
                THEN [operations EXCEPT ![o].state = state] ELSE operations

\* advance_operation: an unknown or terminal operation is left alone.
advance_operation(o, state) ==
  operations' = IF o \in DOMAIN operations /\ ~OperationIsTerminal(operations[o])
                THEN [operations EXCEPT ![o].state = state] ELSE operations

\* o is the operation the message names, zero when it names none.
record_transfer_progress(r, o, failed) ==
  /\ guard_replica(r)
  /\ o = 0 \/ replicas[r].operation \in {0, o}
  /\ replicas[r].lifecycle \in {"RESERVED", "TRANSFERRING"}
  /\ replicas' = [replicas EXCEPT ![r] =
                    IF failed THEN Abandoned(@) ELSE [@ EXCEPT !.lifecycle = "TRANSFERRING"]]
  /\ advance_operation(o, IF failed THEN "FAILED" ELSE "TRANSFERRING")
  /\ UNCHANGED <<states, sets, clusters, ownership, epoch, boot_epoch>>

\* What a measured digest that differs from the state's digest does to a replica record.
Corrupted(x) == [x EXCEPT !.integrity = "MISMATCH", !.lifecycle = "CORRUPT",
                          !.authority = "FENCED", !.counts_toward_factor = FALSE]

\* The record a completed transfer leaves; digest: what the measured digest is worth,
\* MISSING, MISMATCH or MATCH.
TransferredRecord(x, digest) ==
  CASE digest = "MISSING"  -> [x EXCEPT !.integrity = "UNKNOWN", !.lifecycle = "TRANSFERRED"]
    [] digest = "MISMATCH" -> [Corrupted(x) EXCEPT !.absent = FALSE]
    [] digest = "MATCH"    -> [x EXCEPT !.integrity = "UNVERIFIED",
                                        !.lifecycle = "TRANSFERRED", !.absent = FALSE]

record_transfer_completion(r, o, digest) ==
  /\ guard_replica(r)
  /\ replicas[r].lifecycle \in {"RESERVED", "TRANSFERRING", "TRANSFERRED", "VERIFYING"}
  /\ replicas' = [replicas EXCEPT ![r] = TransferredRecord(@, digest)]
  /\ IF digest = "MATCH" THEN advance_operation(o, "TRANSFERRED") ELSE UNCHANGED operations
  /\ UNCHANGED <<states, sets, clusters, ownership, epoch, boot_epoch>>

\* The record a verification leaves: digest as above, compatibility the result of
\* evaluate_compatibility, consulted only when the digest is accepted.
VerifiedRecord(x, digest, compatibility) ==
  LET y == [x EXCEPT !.evidence_epoch = epoch]
      z == [y EXCEPT !.integrity = "VERIFIED", !.compatibility = compatibility]
  IN CASE digest = "MISMATCH" -> Corrupted(y)
       [] digest = "MISSING"  -> [y EXCEPT !.integrity = "UNVERIFIED",
                                           !.lifecycle = "TRANSFERRED"]
       [] digest = "MATCH" /\ compatibility = "INCOMPATIBLE" -> Quarantined(z)
       [] digest = "MATCH" /\ compatibility \in {"UNKNOWN", "REVALIDATION_REQUIRED"} ->
            [z EXCEPT !.lifecycle = "REVALIDATION_REQUIRED"]
       [] digest = "MATCH" /\ compatibility = "COMPATIBLE" ->
            [z EXCEPT !.lifecycle = "PREPARED", !.absent = FALSE,
                      !.revalidation_required = FALSE]

\* Neither the operation the message names nor the set generation is checked here.
verify_replica(r, o, digest, compatibility) ==
  /\ guard_replica(r)
  /\ replicas[r].lifecycle \in {"TRANSFERRED", "VERIFYING", "PREPARED", "AUTHORITATIVE",
                                "DEGRADED", "REVALIDATION_REQUIRED"}
  /\ replicas' = [replicas EXCEPT ![r] = VerifiedRecord(@, digest, compatibility)]
  /\ advance_operation(o, IF digest = "MATCH" /\ compatibility = "COMPATIBLE"
                          THEN "PREPARED" ELSE "FAILED")
  /\ UNCHANGED <<states, sets, clusters, ownership, epoch, boot_epoch>>

-----------------------------------------------------------------------------
\* The record an authoritative commit leaves.
Committed(x, make_owner) ==
  [x EXCEPT !.lifecycle = "AUTHORITATIVE", !.integrity = "VERIFIED",
            !.compatibility = "COMPATIBLE", !.absent = FALSE, !.commit_recorded = TRUE,
            !.counts_toward_factor = TRUE,
            !.authority = IF make_owner THEN "AUTHORITATIVE_OWNER"
                          ELSE "AUTHORITATIVE_FOR_REUSE"]

\* The other replica that owns the key now, as a set of at most one.
OtherOwner(r, k) == {q \in DOMAIN replicas : k \in DOMAIN ownership /\ ownership[k] = q /\ q # r}

\* What giving up ownership does to the previous owner's record.
Yielded(x) == [x EXCEPT !.authority = "AUTHORITATIVE_FOR_REUSE"]

\* Faulty variant: the previous owner keeps its authority.
NotDemoted(r, k) == replicas

\* The records after ownership of the key passes to r: the previous owner keeps authority
\* for reuse unless it is terminal.
Demoted(r, k) ==
  [q \in DOMAIN replicas |->
     IF q \in OtherOwner(r, k) /\ ~is_terminal(replicas[q])
     THEN Yielded(replicas[q]) ELSE replicas[q]]

\* The conditions plan_authoritative_commit checks.
MayCommit(r, make_owner, takeover) ==
  LET k == replicas[r].key IN
  /\ states[k].single_owner => make_owner
  /\ make_owner => OtherOwner(r, k) = {} \/ takeover

\* Faulty variant: a takeover demotes the previous owner and returns.
PlanDemotionOnly(r, make_owner) ==
  IF make_owner /\ OtherOwner(r, replicas[r].key) # {} THEN Demoted(r, replicas[r].key)
  ELSE [replicas EXCEPT ![r] = Committed(@, make_owner)]

\* The replica records it leaves; its set effects are Advance({k}).
plan_authoritative_commit(r, make_owner) ==
  LET k == replicas[r].key
      base == IF make_owner THEN Demoted(r, k) ELSE replicas
  IN [base EXCEPT ![r] = Committed(@, make_owner)]

PlannedOwnership(r, make_owner) ==
  IF make_owner THEN Put(ownership, replicas[r].key, r) ELSE ownership

\* strict: the request kept both verification requirements; it may waive them.
commit_replica(r, make_owner, strict) ==
  /\ r \in DOMAIN replicas
  /\ LET x == replicas[r] IN
     /\ ~x.commit_recorded
     /\ x.key \in DOMAIN states
     /\ HostIsLive(x)
     /\ x.lifecycle \in {"PREPARED", "AUTHORITATIVE", "DEGRADED"}
     /\ strict => x.integrity = "VERIFIED" /\ x.compatibility = "COMPATIBLE"
     /\ ~x.revalidation_required
     /\ Cardinality(authoritative_members(x.key)) < MaxReplicasPerState
     /\ MayCommit(r, make_owner, FALSE)
     /\ CanAdvance({x.key})
     /\ sets' = Advance({x.key})
  /\ replicas' = plan_authoritative_commit(r, make_owner)
  /\ ownership' = PlannedOwnership(r, make_owner)
  /\ UNCHANGED <<states, clusters, operations, epoch, boot_epoch>>

\* Faulty variant: the owner may be retired in place.
RetireOwnerToo(r) ==
  /\ guard_replica(r)
  /\ CanAdvance({replicas[r].key})
  /\ sets' = Advance({replicas[r].key})
  /\ replicas' = [replicas EXCEPT ![r] = Retired(@)]
  /\ UNCHANGED <<states, clusters, operations, ownership, epoch, boot_epoch>>

retire_replica(r) ==
  /\ guard_replica(r)
  /\ LET k == replicas[r].key IN
     /\ ~(k \in DOMAIN ownership /\ ownership[k] = r)
     /\ CanAdvance({k})
     /\ sets' = Advance({k})
  /\ replicas' = [replicas EXCEPT ![r] = Retired(@)]
  /\ UNCHANGED <<states, clusters, operations, ownership, epoch, boot_epoch>>

quarantine_replica(r) ==
  /\ guard_replica(r)
  /\ CanAdvance({replicas[r].key})
  /\ sets' = Advance({replicas[r].key})
  /\ replicas' = [replicas EXCEPT ![r] = Quarantined(@)]
  /\ UNCHANGED <<states, clusters, operations, ownership, epoch, boot_epoch>>

\* Faulty variant: the replica stays bound to the incarnation that wrote it.
RevalidatedUnbound(x, owns) ==
  [x EXCEPT !.revalidation_required = FALSE, !.evidence_epoch = epoch, !.absent = FALSE,
            !.lifecycle = IF x.commit_recorded THEN "AUTHORITATIVE" ELSE "PREPARED",
            !.counts_toward_factor = x.commit_recorded,
            !.authority = IF owns THEN "AUTHORITATIVE_OWNER" ELSE "AUTHORITATIVE_FOR_REUSE"]

\* The record a revalidation leaves: bound to the incarnation that is live now.
Revalidated(x, owns) ==
  [x EXCEPT !.incarnation = clusters[x.cluster].incarnation, !.revalidation_required = FALSE,
            !.evidence_epoch = epoch, !.absent = FALSE,
            !.lifecycle = IF x.commit_recorded THEN "AUTHORITATIVE" ELSE "PREPARED",
            !.counts_toward_factor = x.commit_recorded,
            !.authority = IF ~x.commit_recorded THEN "CANDIDATE"
                          ELSE IF owns THEN "AUTHORITATIVE_OWNER"
                          ELSE "AUTHORITATIVE_FOR_REUSE"]

\* Faulty variant: the integrity of the bytes is not looked at.
RevalidateAnyBytes(r, cluster_compatible) ==
  /\ r \in DOMAIN replicas
  /\ LET x == replicas[r] IN
     /\ ~is_terminal(x)
     /\ x.cluster \in DOMAIN clusters /\ clusters[x.cluster].live_authority
     /\ x.compatibility = "COMPATIBLE" \/ cluster_compatible
     /\ CanAdvance({x.key})
     /\ sets' = Advance({x.key})
     /\ replicas' = [replicas EXCEPT ![r] =
                       Revalidated(@, x.key \in DOMAIN ownership /\ ownership[x.key] = r)]
  /\ UNCHANGED <<states, clusters, operations, ownership, epoch, boot_epoch>>

\* cluster_compatible: the hosting cluster's descriptor evaluates to COMPATIBLE, consulted
\* only when the record itself is not.
revalidate_replica(r, cluster_compatible) ==
  /\ r \in DOMAIN replicas
  /\ LET x == replicas[r] IN
     /\ ~is_terminal(x)
     /\ x.cluster \in DOMAIN clusters /\ clusters[x.cluster].live_authority
     /\ x.lifecycle # "CORRUPT" /\ x.integrity = "VERIFIED"
     /\ x.key \in DOMAIN states
     /\ x.compatibility = "COMPATIBLE" \/ cluster_compatible
     /\ CanAdvance({x.key})
     /\ sets' = Advance({x.key})
     /\ replicas' = [replicas EXCEPT ![r] =
                       Revalidated(@, x.key \in DOMAIN ownership /\ ownership[x.key] = r)]
  /\ UNCHANGED <<states, clusters, operations, ownership, epoch, boot_epoch>>
=============================================================================
