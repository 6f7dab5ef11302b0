----------------------------- MODULE Operations -----------------------------
(***************************************************************************)
(* The transactions (fabric_ops.cpp): authorization of a replication or a  *)
(* migration, its commit or cancellation, and the ownership handoff.       *)
(***************************************************************************)
EXTENDS Replicas

\* The replicas select_source_replica can return: the caller names the cluster it prefers,
\* and among the authoritative replicas on one cluster the lowest identity wins.
source_candidates(k) ==
  LET A == {r \in replicas_of_state(k) : authoritative_for_reuse(r)} IN
  {r \in A : \A q \in A : replicas[q].cluster = replicas[r].cluster => r <= q}

\* Destinations evaluate_placement may choose, prices and ranking aside.  Under the default
\* policy the freshness of a destination's evidence is not consulted.
legal_destinations(k) ==
  {c \in DOMAIN clusters :
     /\ clusters[c].lifecycle # "RETIRED"
     /\ clusters[c].live_authority
     /\ ~\E r \in replicas_of_state(k) : /\ replicas[r].cluster = c
                                         /\ ~is_terminal(replicas[r])
                                         /\ replicas[r].commit_recorded}

authorize_transaction(o, r, k, kind, destructive, source, c) ==
  /\ Minted(operations, OperationId, o)
  /\ Minted(replicas, ReplicaId, r)
  /\ k \in DOMAIN states /\ states[k].lifecycle = "CURRENT"
  /\ operation_capacity_available(IdOf(k))
  /\ source \in source_candidates(k)
  /\ c \in legal_destinations(k) /\ c # replicas[source].cluster
  /\ operations' = Put(operations, o,
       [kind |-> kind, state |-> "RESERVED", key |-> k, source |-> source, destination |-> r,
        set_generation |-> sets[k].generation, destructive_move |-> destructive,
        destination_committed |-> FALSE, source_retired |-> FALSE, planned_epoch |-> epoch])
  /\ replicas' = Put(replicas, r, NewReplica(k, c, o, "RESERVED"))
  /\ UNCHANGED <<states, sets, clusters, ownership, epoch, boot_epoch>>

authorize_replication(o, r, k, source, c) ==
  authorize_transaction(o, r, k, "REPLICATION", FALSE, source, c)

authorize_migration(o, r, k, retire_source_after_commit, source, c) ==
  authorize_transaction(o, r, k, "MIGRATION", retire_source_after_commit, source, c)

\* The operation record a commit leaves.
Completed(op, retiring) ==
  [op EXCEPT !.state = "COMPLETE", !.destination_committed = TRUE,
             !.source_retired = @ \/ retiring]

\* The destination becomes authoritative, and with retire_source the source is retired in
\* the same mutation.
commit_operation(o, retire_source) ==
  /\ o \in DOMAIN operations
  /\ LET op == operations[o]
         r == op.destination
         x == replicas[r]
         k == op.key
         make_owner == op.kind = "MIGRATION" \/ states[k].single_owner
         takeover == op.kind = "MIGRATION" \/ op.destructive_move
         retiring == /\ retire_source
                     /\ op.source \in DOMAIN replicas /\ op.source # r
                     /\ ~is_terminal(replicas[op.source])
     IN /\ ~OperationIsTerminal(op)
        /\ retire_source => op.destructive_move
        /\ r \in DOMAIN replicas /\ k \in DOMAIN states
        /\ sets[k].generation = op.set_generation
        /\ x.lifecycle = "PREPARED" /\ x.integrity = "VERIFIED"
        /\ x.compatibility = "COMPATIBLE" /\ ~x.revalidation_required
        /\ HostIsLive(x)
        /\ Cardinality(authoritative_members(k)) < MaxReplicasPerState
        /\ MayCommit(r, make_owner, takeover)
        /\ CanAdvance({k})
        /\ operations' = [operations EXCEPT ![o] = Completed(@, retiring)]
        /\ LET planned == plan_authoritative_commit(r, make_owner) IN
           replicas' = IF retiring
                       THEN [planned EXCEPT ![op.source] = Retired(replicas[op.source])]
                       ELSE planned
        /\ ownership' = PlannedOwnership(r, make_owner)
        /\ sets' = Advance({k})
  /\ UNCHANGED <<states, clusters, epoch, boot_epoch>>

\* A committed or terminal operation keeps its outcome.
cancel_operation(o) ==
  /\ o \in DOMAIN operations
  /\ ~OperationIsTerminal(operations[o]) /\ ~operations[o].destination_committed
  /\ operations' = [operations EXCEPT ![o].state = "CANCELLED"]
  /\ LET r == operations[o].destination
         k == operations[o].key
     IN IF r \in DOMAIN replicas /\ ~is_terminal(replicas[r]) /\ ~replicas[r].commit_recorded
        THEN /\ CanAdvance({k})
             /\ replicas' = [replicas EXCEPT ![r] = Abandoned(@)]
             /\ sets' = Advance({k})
        ELSE UNCHANGED <<replicas, sets>>
  /\ UNCHANGED <<states, clusters, ownership, epoch, boot_epoch>>

\* The record of the replica ownership is handed to.
Promoted(x) == [x EXCEPT !.authority = "AUTHORITATIVE_OWNER", !.lifecycle = "AUTHORITATIVE",
                         !.commit_recorded = TRUE, !.counts_toward_factor = TRUE]

\* The new owner must be verified and hosted live; its lifecycle is not consulted once it
\* has been committed.
transfer_ownership(k, r) ==
  /\ k \in DOMAIN states /\ states[k].single_owner
  /\ k \in DOMAIN ownership
  /\ r \in DOMAIN replicas
  /\ LET x == replicas[r] IN
     /\ x.integrity = "VERIFIED" /\ x.compatibility = "COMPATIBLE"
     /\ x.commit_recorded \/ x.lifecycle = "PREPARED"
     /\ x.key = k
     /\ HostIsLive(x)
  /\ CanAdvance({k})
  /\ replicas' = [Demoted(r, k) EXCEPT ![r] = Promoted(@)]
  /\ ownership' = Put(ownership, k, r)
  /\ sets' = Advance({k})
  /\ UNCHANGED <<states, clusters, operations, epoch, boot_epoch>>
=============================================================================
