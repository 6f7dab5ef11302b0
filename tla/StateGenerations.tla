-------------------------- MODULE StateGenerations --------------------------
(***************************************************************************)
(* The mutations on state generations (fabric_state.cpp): registration,    *)
(* publication of a staged generation, and the authoritative commit that   *)
(* supersedes the current generation of the lineage.                       *)
(***************************************************************************)
EXTENDS ControlPlane

\* The governed content of a registration that the model tells apart.
StateSpec == [lineage: Lineage, branch: BOOLEAN, single_owner: BOOLEAN]

materialize(spec) == [lifecycle |-> "STAGED", lineage |-> spec.lineage,
                      branch |-> spec.branch, single_owner |-> spec.single_owner]

\* Registration of a generation that is already registered changes nothing.
register_state(k, spec) ==
  /\ k \notin DOMAIN states
  /\ \A j \in DOMAIN states : IdOf(j) = IdOf(k) => states[j].lineage = spec.lineage
  /\ spec.branch => \E j \in DOMAIN states : IdOf(j) = IdOf(k)
  /\ states' = Put(states, k, materialize(spec))
  /\ sets' = Put(sets, k, [generation |-> 1, retiring |-> FALSE,
                           revalidation_required |-> FALSE])
  /\ UNCHANGED <<clusters, replicas, operations, ownership, epoch, boot_epoch>>

\* A staged generation is rewritten as a whole; one that left STAGED is not.
publish_state_generation(k, spec) ==
  /\ k \in DOMAIN states
  /\ states[k].lifecycle = "STAGED"
  /\ states' = [states EXCEPT ![k] = materialize(spec)]
  /\ UNCHANGED <<sets, clusters, replicas, operations, ownership, epoch, boot_epoch>>

\* What the supersession of its generation does to a replica record.
Superseded(x) ==
  [x EXCEPT !.lifecycle = IF @ \in {"AUTHORITATIVE", "DEGRADED", "REVALIDATION_REQUIRED"}
                          THEN "SUPERSEDED" ELSE @,
            !.authority = "HISTORICAL",
            !.counts_toward_factor = FALSE]

\* Faulty variant: only older generations are superseded.
OtherCurrentOlder(k) == {j \in DOMAIN states : /\ IdOf(j) = IdOf(k) /\ j[2] < k[2]
                                               /\ states[j].lifecycle = "CURRENT"
                                               /\ states[j].lineage = states[k].lineage}

\* The other current generations of the key's state identity and lineage.
OtherCurrent(k) == {j \in DOMAIN states : /\ IdOf(j) = IdOf(k)
                                          /\ states[j].lifecycle = "CURRENT"
                                          /\ states[j].lineage = states[k].lineage}

commit_state_generation(k) ==
  /\ k \in DOMAIN states
  /\ states[k].lifecycle # "CURRENT"
  /\ LET superseded == IF states[k].branch THEN {} ELSE OtherCurrent(k) IN
     /\ Cardinality({j \in superseded : ~states[j].branch}) <= 1
     /\ CanAdvance(superseded)
     /\ states' = [j \in DOMAIN states |->
                     IF j = k THEN [states[j] EXCEPT !.lifecycle = "CURRENT"]
                     ELSE IF j \in superseded THEN [states[j] EXCEPT !.lifecycle = "HISTORICAL"]
                     ELSE states[j]]
     /\ replicas' = [r \in DOMAIN replicas |->
                       IF replicas[r].key \in superseded THEN Superseded(replicas[r])
                       ELSE replicas[r]]
     /\ sets' = [j \in DOMAIN sets |->
                   IF j \in superseded
                   THEN [sets[j] EXCEPT !.generation = @ + 1, !.retiring = TRUE]
                   ELSE sets[j]]
  /\ UNCHANGED <<clusters, operations, ownership, epoch, boot_epoch>>
=============================================================================
