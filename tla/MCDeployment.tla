---------------------------- MODULE MCDeployment ----------------------------
(***************************************************************************)
(* Finite deployments: a state whose first replica is authoritative on     *)
(* cluster c1, served by agent a1, and a second cluster served by agent    *)
(* a2, with agents a3 and a4 as the processes that may replace a2: a3 has  *)
(* an id of its own, a4 the id of a2.                                      *)
(***************************************************************************)
EXTENDS Deployment, TLC

CONSTANTS a1, a2, a3, a4, k1, k2, c1, c2, s1, l1

TwoClusters == [a \in Agent |-> IF a = a1 THEN c1 ELSE c2]
Processes == [a \in Agent |-> IF a = a3 THEN 2 ELSE 1]

Ask(request, o) == [Frame("CONTROL_REQUEST") EXCEPT !.request = request, !.operation = o]
About(request, r) == [Frame("CONTROL_REQUEST") EXCEPT !.request = request, !.replica = r]

\* A controller replicates, waits and commits; another interferes; one reincarnates a cluster
\* before or after the copy is authorized, or migrates the state to the same destination.
Replicate == << {Ask("AUTHORIZE_REPLICATION", 0)}, {Ask("AWAIT_OPERATION", 1)},
                {Ask("COMMIT_OPERATION", 1)} >>
Interfere == << {Ask("CANCEL_OPERATION", 1), About("COMMIT_REPLICA", 2)} >>
Twice == << Replicate[1] \cup {Ask("REINCARNATE_CLUSTER", 0)},
            {Ask("AUTHORIZE_MIGRATION", 0), Ask("REINCARNATE_CLUSTER", 0)} >> \o Tail(Replicate)
Shutdown == << {Ask("SHUTDOWN", 0)} >>
Look == << {Ask("STATUS", 0)} >>

\* The bytes of the source may be replaced by others.
Replaced == {<<a1, 1, "MISMATCH">>}

NoSpec == {}

\* The plane after the source was registered, transferred, verified and committed.
SeededPlane ==
  LET key == <<s1, 1>> IN
  /\ states = key :> [lifecycle |-> "CURRENT", lineage |-> l1, branch |-> FALSE,
                      single_owner |-> FALSE]
  /\ sets = key :> [generation |-> 2, retiring |-> FALSE, revalidation_required |-> FALSE]
  /\ clusters = [c \in {c1, c2} |->
       [incarnation |-> 1, live_authority |-> TRUE, evidence_present |-> TRUE,
        lifecycle |-> "ACTIVE", last_evidence_epoch |-> 2]]
  /\ replicas = 1 :>
       [key |-> key, cluster |-> c1, incarnation |-> 1, operation |-> 0,
        lifecycle |-> "AUTHORITATIVE", integrity |-> "VERIFIED",
        compatibility |-> "COMPATIBLE", authority |-> "AUTHORITATIVE_FOR_REUSE",
        absent |-> FALSE, commit_recorded |-> TRUE, counts_toward_factor |-> TRUE,
        revalidation_required |-> FALSE, evidence_epoch |-> 2]
  /\ operations = << >> /\ ownership = << >> /\ epoch = 2 /\ boot_epoch = 2

Seeded(booted, scripts, startable) ==
  /\ SeededPlane
  /\ ProcessesInit(booted, scripts, startable,
                   [a \in Agent |-> IF a = a1 THEN 1 :> "MATCH" ELSE << >>])

\* A cluster's agent is replaced, by a process with an id of its own or with the same; an
\* agent is killed, or bytes are replaced; another controller interferes; two transfers go to
\* one agent; the coordinator is shut down during a transfer, under another controller, and
\* while an agent connects.
DeploymentInit ==
  \/ faults = MaxFaults /\ \E a \in {a3, a4} : Seeded({a1, a2}, k1 :> Replicate, {a})
  \/ faults = 0         /\ Seeded({a1, a2}, k1 :> Replicate, {})
  \/ faults = MaxFaults /\ Seeded({a1, a2}, k1 :> SubSeq(Replicate, 1, 2) @@ k2 :> Interfere, {})
  \/ faults = MaxFaults /\ Seeded({a1, a2}, k1 :> Twice, {})
  \/ faults = MaxFaults /\ Seeded({a1, a2}, k1 :> (SubSeq(Replicate, 1, 1) \o Shutdown), {})
  \/ faults = MaxFaults /\ Seeded({a1}, k1 :> Look @@ k2 :> Shutdown, {})
  \/ faults = MaxFaults /\ Seeded({a1}, k2 :> Shutdown, {a3})

DeploymentSpec == DeploymentInit /\ [][DeploymentNext]_all_vars /\ Fairness
=============================================================================
