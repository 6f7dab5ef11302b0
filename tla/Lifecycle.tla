----------------------------- MODULE Lifecycle ------------------------------
(***************************************************************************)
(* The life of the coordinator process (fabric_lifecycle.cpp): the restart *)
(* that reloads the durable plane and recovers it conservatively, and the  *)
(* explicit epoch advance.  That every mutation is durable as a whole      *)
(* before it is applied, so that a crash loses no applied mutation and     *)
(* keeps no part of one, is the subject of the module Journal.             *)
(***************************************************************************)
EXTENDS ControlPlane

classify_recovery(state) ==
  CASE state \in {"RESERVED", "TRANSFERRING"} -> "ABANDONED"
    [] state \in {"TRANSFERRED", "VERIFYING", "PREPARED", "SOURCE_RETIRING"} ->
         "OUTCOME_UNKNOWN"
    [] state \in {"COMMITTED", "ADDED_TO_REPLICA_SET"} -> "COMPLETE"
    [] OTHER -> state

\* The in-flight operations of the key's replica whose recovery has the given outcome.
RecoveredTo(r, outcome) ==
  {o \in DOMAIN operations : /\ operations[o].destination = r
                             /\ ~OperationIsTerminal(operations[o])
                             /\ classify_recovery(operations[o].state) = outcome}

\* Faulty variants: evidence survives the restart; a destination of unknown outcome is not
\* quarantined; the commit record of a destination is not looked at.
RecoveredWithEvidence(r) ==
  IF RecoveredTo(r, "ABANDONED") # {} /\ ~replicas[r].commit_recorded
  THEN Abandoned(replicas[r]) ELSE replicas[r]

RecoveredUnquarantined(r) ==
  IF is_terminal(replicas[r]) THEN replicas[r]
  ELSE [replicas[r] EXCEPT !.revalidation_required = TRUE, !.absent = FALSE]

RecoveredUncommitted(r) ==
  IF is_terminal(replicas[r]) THEN replicas[r]
  ELSE IF RecoveredTo(r, "OUTCOME_UNKNOWN") # {} THEN Quarantined(replicas[r])
  ELSE [replicas[r] EXCEPT !.revalidation_required = TRUE, !.absent = FALSE]

\* Live evidence is invalidated, committed membership survives.
RecoveredReplica(r) ==
  LET x == replicas[r]
      y == IF is_terminal(x) THEN x
           ELSE [x EXCEPT !.revalidation_required = TRUE, !.absent = FALSE]
  IN IF RecoveredTo(r, "ABANDONED") # {} /\ ~y.commit_recorded THEN Abandoned(y)
     ELSE IF RecoveredTo(r, "OUTCOME_UNKNOWN") # {} /\ ~y.commit_recorded /\ ~is_terminal(y)
     THEN Quarantined(y)
     ELSE y

RecoveredOperation(op) ==
  IF OperationIsTerminal(op) THEN op
  ELSE [op EXCEPT !.state = classify_recovery(op.state),
                  !.destination_committed = classify_recovery(op.state) = "COMPLETE"]

RecoveredCluster(x) == [x EXCEPT !.evidence_present = FALSE,
                                 !.lifecycle = IF @ = "ACTIVE" THEN "SUSPECT" ELSE @]

\* A crash at any point followed by the restart against the same durable directory.
initialize ==
  /\ epoch < MaxEpoch
  /\ epoch' = epoch + 1
  /\ boot_epoch' = epoch'
  /\ clusters' = [c \in DOMAIN clusters |-> RecoveredCluster(clusters[c])]
  /\ replicas' = [r \in DOMAIN replicas |-> RecoveredReplica(r)]
  /\ operations' = [o \in DOMAIN operations |-> RecoveredOperation(operations[o])]
  /\ sets' = [k \in DOMAIN sets |-> [sets[k] EXCEPT !.revalidation_required = TRUE]]
  /\ UNCHANGED <<states, ownership>>

advance_epoch ==
  /\ epoch < MaxEpoch
  /\ epoch' = epoch + 1
  /\ UNCHANGED <<states, sets, clusters, replicas, operations, ownership, boot_epoch>>
=============================================================================
