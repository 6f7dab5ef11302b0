# A verification of the Cross-Cluster State Fabric

The fabric keeps, for every generation of a piece of state, which clusters hold a
copy of it, which copies are authoritative, which one owns it, and which transfers
between clusters are in flight. One coordinator process holds this control plane in
memory, makes every change durable in a journal before it is visible, and recovers
it conservatively after a crash. An agent process per cluster registers with the
coordinator, pulls copies from other agents and reports what it measured; controllers
send requests. A planner chooses destinations from published evidence, prices and
policies. This directory models the control plane, its durability, the processes around
it and the planner in TLA+, checks them with TLC on small instances, and proves their
safety properties with TLAPS for all instances.

## The system and what models it

| Part | Source | Module |
| --- | --- | --- |
| Maps, records, effects, counting rule, authority | `detail/control_plane.*`, `model.cpp`, `authority.cpp` | `ControlPlane` |
| State generations | `fabric_state.cpp` | `StateGenerations` |
| Clusters, evidence, fencing | `fabric_state.cpp` | `Clusters` |
| Replicas | `fabric_replica.cpp` | `Replicas` |
| Replication, migration, ownership | `fabric_ops.cpp` | `Operations` |
| Recovery and epochs | `fabric_lifecycle.cpp` | `Lifecycle` |
| All mutations together | `detail/fabric_impl.hpp` | `Fabric` |
| Journal, snapshot, checkpoint, crash | `detail/control_plane.cpp`, `detail/platform_io.cpp`, `fabric_lifecycle.cpp` | `Journal` |
| What the store promises | (specification) | `AtomicStore` |
| Connections | `transport.cpp`, `protocol.hpp` | `Transport` |
| Cluster agent | `cluster_agent.cpp` | `ClusterAgent` |
| Coordinator server | `coordinator.cpp` | `Coordinator` |
| Coordinator, agents and controllers together | `coordinator.cpp` (client) | `Deployment` |
| Prices, sizes, reuse | `cost.cpp`, `cost.hpp`, `model.cpp` | `Cost` |
| Compatibility | `compatibility.cpp`, `fabric_state.cpp` | `Compatibility` |
| Hard constraints, scores, choice | `placement.cpp`, `policy.hpp` | `Placement` |
| Replicate or reconstruct | `economics.cpp` | `Economics` |
| Replication policies | `model.cpp`, `policy.hpp` | `ReplicationPolicy` |
| Evidence view, plans, planned authorization | `fabric_ops.cpp` | `Planner` |
| The questions of a caller | `fabric_ops.cpp`, `economics.cpp`, `model.cpp` | `Planning` |

`MCFabric`, `MCJournal`, `MCDeployment` and `MCPlanning` add the inputs, the initial
states and the symmetries of the instances. The theorems are in `FabricProofs` (types,
authority, transactions), `JournalProofs` (durability), `DeploymentProofs`, `TransferProofs`
and `StorageProofs` (lemmas about the processes), `GuaranteeProofs` (the deployment as a
whole, and the planner's callers), `PolicyProofs` (prices, requirements, scores, the choice)
and `PlanningProofs` (the questions of a caller, plans).

### The control plane

The variables `states`, `sets`, `clusters`, `replicas`, `operations` and `ownership`
are the maps of `ControlPlane` as functions whose domain is the set of registered
identities; `epoch` is `coordinator_epoch`, and `boot_epoch`, read by properties only,
is the epoch the running process started with.

Every public mutation of `ccsf::Fabric` is one action of the same name.
`Impl::mutate` holds `commit_mutex_` from the first read to the last applied effect,
so a mutation is atomic with respect to the others; several effects on one record are
computed from the plane before the mutation and the last one wins, which the actions
reproduce (a commit that also retires the source advances the set once, not twice).
A refused request changes nothing and is a stuttering step. A mutation that reports
an error after `commit_before_return` does change the plane and is an ordinary step.

Guards keep all the conditions that depend on modelled state. Data is abstracted to
what the guards tell apart: a measured digest is missing, matches or does not match; a
compatibility verdict is one of four values; a registration carries a lineage, a branch
flag and whether its consistency mode wants a single owner. Requests that name an old
epoch, boot, incarnation or generation are refused by the code and are not listed as
inputs. RESERVED stands for PLANNED, RESERVED and STAGING. The policies are the default
ones, and in `Operations` the destination is a free choice among those that the hard
constraints on modelled state allow; `Planner` makes that choice as the code does.

`Lifecycle!initialize` is a crash at any moment followed by the restart: evidence is
withdrawn, operations in flight are abandoned or become OUTCOME_UNKNOWN with a
quarantined destination, and the epoch advances. It takes for granted that a mutation
is on disk as a whole before it is applied. That is the subject of `Journal`.

### The store

`Journal` has the plane in memory, the snapshot file, the journal file and a phase
that says where the running call stands: `append` writes the record, `apply` makes it
visible, `replace_snapshot` and `reset_journal` are the two renames of a checkpoint,
`append_failed` and `checkpoint_failed` are failing writes, `append_crashed` and
`crash` end the process anywhere, and `initialize` loads what is on disk. `load`
applies the scanned records to the snapshot without looking at their sequence numbers,
exactly as the code does. A torn record at the end of the journal is tolerated by
`scan_journal`; one with records behind it makes the scan fail, or, while the bytes
behind it fit into the length it declares, swallows them.

A record of the plane is the number of the mutation that wrote it and whether its
evidence is live. `issued`, `acked`, `served` and `tainted` are history variables.
`tainted` is set when a failed append has left something in the journal, or when a
mutation was applied without being durable (`require_durable_commits` off), until the
next complete checkpoint. A rename is assumed to be atomic and durable;
`atomic_replace` ignores the result of the directory flush.

`AtomicStore` is the promise: a mutation commits as a whole, is published after that,
survives a crash, and one in flight survives a crash whole or not at all. While the
store is tainted nothing is promised. `Journal!KeepsPromise` is this specification
under the mapping *stored* = the versions a restart would read, *view* = the versions
in memory while the process serves.

### The deployment

`Transport` gives every client a connection to the coordinator: two ordered queues, and
for each end whether it is open. Once the peer has closed, a send fails or loses the
frame, and a receive fails or still finds a frame that was under way; closing an end drops
what it had not read. A connection is never re-established. `close()` is taken to wake a
thread that is blocked on the socket, as `closesocket()` does on Windows; POSIX does not
promise that for `close()`, and shutdown depends on it.

`ClusterAgent` is the agent's control thread: `start`, `hello_acked` and `evidence_acked`
are the registration, `take_intent`, `first_chunk`, `last_chunk`, `result_acked` and
`verify_acked` one transfer, `drop_frame` and `await_fails` what else the wait for an
acknowledgement does. `store` is its `ReplicaStore`. The bytes of a pull may be replaced
at the source between two chunks, and a process may be killed anywhere.

`Coordinator` has the workers. `worker[x]` is where the thread of connection x stands. A
handler is cut wherever another thread can come between two of its parts: after the call
to the fabric, around every send, between the check of a waiter and its sleep, between an
answer and the test of `shutdown_requested`. Everything a worker does to the plane is an
action of `Fabric`, or a refusal without effect where that action is not enabled. A
report names its incarnation, and `names_host` compares it as `guard_replica` does.
Controllers send the requests of a script, one at a time.

An agent registers with its process id as boot identity, and the cluster's record keeps the
last one (`boots`). A registration with another id starts a new incarnation and fences what
was written under the old one; a registration with the recorded id is taken for the same
process and keeps the incarnation, whatever the new process has in its store, which is
nothing. `ProcessId` gives each process its id, and no assumption says that ids differ:
ids repeat after a restart of a host or a container. The properties are therefore about ids
where the code compares ids (`IncarnationsAreDistinct`), and about incarnations that one
process was given (`SoleHolder`) where they speak of a store (`RecordedBytesAreStored`).

### The planner

`Cost`, `Compatibility`, `Placement`, `Economics` and `ReplicationPolicy` are operators.
Integers have the width `MaxInt`, so that saturation and overflow occur at small values.
Overflow of the product in `saturating_mul` is undefined in C++: a build either tests the
product or folds the test away and wraps, and `Build` is the choice. Negating the least
integer, in `normalize_cost`, is undefined as well: no price that `price_bytes` computes is
that integer, and the assumptions exclude it from what a caller quotes. Replica counts have
the width `CountRange`, in which the headroom of the diverse forms wraps, and predicted
durations wrap at the width of the ticks. The hard constraints are a sequence of named
conditions of which the first that fails rejects; the score is the sum of sixteen
contributions, each added with saturation.

`Planner` builds the request from the plane: the evidence view of each cluster, one entry
per authoritative member, the candidates in the order of their identities. A transfer is
priced by the size its source's record states, which is the registration's for a registered
replica and the state's for a copy. The planner then composes the plan with the
authorization, so that two operations may be planned from the same plane before either
commits, with losses, returns, revalidations and restarts of the coordinator between.
`Planning` adds the questions a caller may ask with evidence of its own. Each is answered,
changed in one respect and asked again, which makes monotonicity and independence of order
action properties.

## The runs

The liveness properties of `deployment` assume weak fairness of each worker thread, of the
accept loop, of each agent's control thread and of each controller's wait for its answer:
an operating system runs a thread that can run, and every receive returns when a frame or
a close arrives. Nothing is assumed about processes being started or killed, or requests
being sent. All other properties are invariants, action properties or a safety refinement.

| Run | Instance | Properties |
| --- | --- | --- |
| `fencing` | one owned state, one cluster with two incarnations, two replicas, two epochs of the process | `TypeOK`, `CountedOnLiveIncarnation`, `SingleOwner`, `OwnerIsNeverRetired`, `ReuseNeedsCurrentEvidence` |
| `transactions` | two clusters, two replicas, one operation, one restart | `RestartKeepsMembership`, `JoinAdvancesSet`, `CommitsBelongToThisProcess`, `CommitLeavesAuthority`, `OutcomeIsFinal` |
| `generations` | three generations, two lineages, branches, one replica whose digest matches or not and whose compatibility is found or unknown | `OneCurrentPerLineage`, `AuthorityNeedsVerifiedBytes` |
| `deployment` | two clusters, four agent processes, two of one process id, two controllers, two operations, one fault | `DeploymentType`, `RecordedBytesAreStored`, `IncarnationsAreDistinct`, `HandledRequestsStayConnected`, `FencedAgentChangesNothing`, `LinkLossEndsAgent`, `TransferIsReported`, `ShutdownCompletes` |
| `planning` | three clusters in two regions, three replicas, two operations, one restart; 8-bit prices, 3-bit counts | `PlanIsLegal`, `NoDuplicateHost`, `KnownPriceIsExact`, `RequirementsSettle`, `MissingEvidenceNeverHelps`, `ChoiceIgnoresOrder`, `DearerTransferNeverPreferred` |
| `journal` | two records, four mutations, a checkpoint every two, both settings of `require_durable_commits` | `TypeOK`, `ServedIsDurable`, `CrashedStoreOpens`, `NewProcessHasNewEpoch`, `KeepsPromise` |

The bounds are small because a violation needs few actors: ownership needs an old and
a new owner; fencing needs one incarnation to lose and one to return with; a
transaction needs a source, a destination and a restart between any two of its steps;
supersession needs a branch beside two ordinary generations; the journal needs a
mutation before, in and after a checkpoint with a failure or a crash in between. The
replica set generation is capped by a guard (`MaxSetGeneration`), as are incarnations
and epochs; the proofs hold for every bound.

A deployment needs a source and a destination, a process that replaces one of them, with an
id of its own or with the same, a second controller to interfere, and one fault:
`MCDeployment` has one initial state for each such situation instead of all at once, each
with the source already committed. The controllers' scripts there replicate, wait, commit,
migrate, cancel, reincarnate, query and shut down; the remaining control requests are the
same `Fabric` actions that the other runs take directly. An agent gives up the wait for an
acknowledgement after `kMaxFrames` = 8 other frames; `MaxAckFrames` is 2 there, the least
with which a transfer can still be acknowledged, so that the intent of a second operation
fills the wait. A plan needs two clusters of one region and one of another, and two
operations that overlap, and a restart between them. The prices of the questions are chosen
around zero, the cap of the scores and the largest integer, the counts around the one from
which headroom wraps.

The journal, deployment and planning instances may stop when their mutations, scripts or
identities are used up, so deadlock is not checked there; in the others it is.

### Where the code and its own words disagree

Six runs check a sentence of the repository and end in a counterexample.

* `terminal_replica`: a retired replica "accepts no further transitions", yet
  `transfer_ownership` makes it authoritative again.
* `boot_identity`: "every cluster agent process start mints a fresh `ClusterIncarnationId`
  and a fresh `WorkerBootId`", yet the boot identity is the process id, and a process that
  has the id of its predecessor is given the predecessor's incarnation.
* `lineage`: "every generation of a state identity must share one lineage", yet
  `publish_state_generation` does not check it.
* `revalidation_report`: "verification evidence is stale or absent for a member" is
  still reported after every member has been revalidated, because recovery sets a flag
  on the set that no mutation clears.
* `torn_record`: a truncated tail is "discarded as an unacknowledged mutation", yet
  after a failed append the mutations acknowledged behind the torn record are discarded
  with it.
* `diversity_floor`: "a candidate can only satisfy a diversity floor it actually
  improves", yet the floor is compared with the number of members, not with the number of
  regions they are in, so after a loss two members of one region satisfy a floor of two
  and a third cluster of that region is chosen.

Other differences that the models reproduce and no run checks:

* A fenced report is acknowledged like any other: the error report is put together after
  the acknowledgement was sent (`coordinator.cpp:626`).
* A waiter can miss the notification between its check and its sleep, because
  `notify_all` is called without the mutex, and nothing wakes it at shutdown.
* The worker of a dead session erases the map entry of its cluster, even if a newer
  session holds it by then.
* `cost_sum` takes a price that is unknown and zero for a component that does not apply.
* A transfer duration without evidence of bandwidth or size is 0, and is scored as known.
* A minimum durability of ARCHIVAL is satisfied by DURABLE.
* The retention limit is checked by commits and not by revalidation.
* A verification that finds a mismatch fences a counted replica without advancing the replica
  set generation; the comment on `bump_replica_set_effect` says that verification never fences
  a pending operation and that fences always do.
* `request_stop` closes the sessions of registered agents. An agent that has connected and is
  not registered yet is never closed, and `serve()` waits for its worker
  (`LateRegistration`, which `ShutdownCompletes` excepts).
* An intent that arrives while an agent waits for an acknowledgement is dropped, and enough
  of them end the wait (`WaitOverrun`, which `TransferIsReported` excepts).
* A diverse policy made for one of the two greatest counts has a maximum of 0 or 1, and what
  takes effect is a single replica (`WrappedPolicyIsSingle`).

## The proofs

The theorems are about the specifications the runs check, for every value of the constants
that the named assumptions allow: `MintedIds`, `Bounds` and `Inputs` (the fabric),
`JournalBounds`, `Peers`, `Configured`, `AckFrames` and `Measured` (the deployment),
`CostAssumption`, `CountAssumption`, `PlacementAssumption`, `CompatibilityAssumption`,
`PlannerAssumption` and `PlanningAssumption` (the planner). They say that identities are
numbers, that there are finitely many where the code's are 64-bit, that an agent belongs to
one cluster, and that records a caller hands in have the types of the C++ structures. TLC
evaluates each of them in the runs of its component.

**Types.** `TypeCorrect` proves `TypeOK` of `Fabric`, one lemma per component.

**Authority.** The safety invariants are not inductive: that a counted replica is
hosted live depends on what fencing did to it, and revalidation can only restore what a
commit recorded. `AuthorityInv` adds to every replica record what its commit flag,
integrity, authority and evidence epoch imply about each other, to clusters that
evidence present means evidence of this process, and to operations that their source and
destination exist. Each step is first shown to have a *shape*: it weakens replicas, it
is the gain of authority by one replica, it is a cluster step or it is the restart. The
invariant is then proved once per shape. From it follow `CountedOnLiveIncarnation`,
`SingleOwner`, `OwnerIsNeverRetired`, `ReuseNeedsCurrentEvidence`,
`AuthorityNeedsVerifiedBytes` and `OutcomeIsFinal`.

**Transactions.** `TransactionInv` says that an operation whose destination was already
committed on its own, or that was planned by an earlier process, can no longer commit:
its set has moved on or its destination is out of play. This is what makes
`CommitsBelongToThisProcess` true although a destination may be revalidated.
`JoinAdvancesSet`, `RestartKeepsMembership`, `CommitLeavesAuthority` and
`OneCurrentPerLineage` are proved beside it.

**Durability.** The first part of `JournalProofs` is about `load` alone: an appended
record is applied last, a torn tail adds nothing, and replaying a journal over a
snapshot that contains it changes nothing (this is what a crash between the two renames
relies on). The inductive invariant carries the existence of a last put and of a highest
epoch in the journal (`WellFormed`). `JournalInv` says what is on disk in each phase: the
served plane, the plane the running mutation will produce, or the recovered plane with a
higher epoch. From it follow `ServedIsDurable`, `CrashedStoreOpens`,
`NewProcessHasNewEpoch` and the refinement `KeepsPromise`.

**The deployment.** `DeploymentRuns` starts the processes, with any agents booted and any
scripts of requests, over any plane that satisfies `AuthorityInv`, the empty one included.
`ProcessInv` types the frames in the queues and what each worker and agent holds, and
follows an intent: it is only addressed to a session of the cluster that hosts its replica,
so a report is about a replica of its sender's cluster. `DeploymentImplementsFabric` is the
refinement: every step of a worker, an agent or a controller is a step of `Fabric` or leaves
the plane alone, so that what is proved of the fabric holds under every interleaving
(`DeploymentKeepsGuarantees`). `DeploymentType`, `HandledRequestsStayConnected` and
`FencedAgentChangesNothing` follow from `DeploymentInv`. Requests are refused where an
action is not ENABLED, but a refusal changes nothing, so no proof needs to know when.

**The bytes.** `RecordedBytesAreStored` needs `CopyInv`. A transfer is a *token*: the
authorization makes it, and it is with the worker that sends the intent, under way, with
the agent that executes it, or spent by a matching result, in one of these places at a
time. An agent therefore writes the bytes of a copy at most once and not after reporting
them. So every recorded copy has a *holder*, the process that reported it: it has the
incarnation the copy is bound to, and stores the bytes while it serves (`BytesInv`).
Another process can have that incarnation too, if it has the same id: processes that claim
one incarnation have one process id, and the cluster's record names it while the
incarnation is current (`ClaimInv`, from which `IncarnationsAreDistinct` follows). Where an
incarnation has one process, that process is the holder, which is `RecordedBytesAreStored`;
of a process that inherited its incarnation nothing is claimed. `CopyRuns` starts where
every recorded copy has a holder among the processes that serve (`CopiesStart`), and leaves
out the controllers' TRANSFER_COMPLETION and REVALIDATE_REPLICA requests: with those a
controller vouches for bytes in an agent's place, and the plane records what it was told.

**Hosts.** `NoDuplicateHost` is about operations authorized from the planner's choice
(`PlannedRuns`): `commit_replica` and `transfer_ownership` can commit a replica outside any
operation and do not look for another one in its cluster. Restarts of the coordinator are
steps of `PlannedRuns`. `HostInv` adds that no committed replica is at the destination of
an operation that may still commit, that is, one whose set generation is the current one. A
commit advances the set, which disables every other operation headed for the same cluster;
`TransactionInv` supplies that a replica committed once is not committed again, and a
restart commits nothing and revives nothing (`RestartJoinsNone`).

**Questions.** `QuestionRuns` is any sequence of questions and changes of questions beside
any steps of the fabric, from a question that is well formed and answered (`QuestionInv`).
`KnownPriceIsExact`, `RequirementsSettle` and `DearerTransferNeverPreferred` lift the
lemmas on single calls (`ScaledPriceFits`, `EffectiveCountsAreOrdered`,
`EffectiveRequirementsAreFinal`, `EffectiveDiversity`, `DearerTransferIsNeverPreferred`) to
them. The proof of the last is that saturation is monotone and the comparison transitive on
equal evidence. That a policy keeps the form it was made with (`MadePolicyIsEffective`)
needs room for the headroom of the diverse forms; without it the outcome is
`WrappedPolicyIsSingle`.

**The choice.** The score is a recursion over the sixteen contributions. Its existence and
its monotonicity are proved by induction in the form of sets: a set of numbers that contains
0 and the successor of each of its members contains all (`ByInduction`, from the
least-element principle of the library). The comparator is a strict order, total on
different clusters, and scores, diversities, affinities and identities are bounded, so an
unbeaten candidate exists and all unbeaten ones have the same rank; hence
`ChoiceIgnoresOrder`, for any number of candidates, repeated ones included.
`MissingEvidenceNeverHelps` compares a request with the one in which a candidate has lost its
transfer or storage price or its expected reuse. No hard constraint that rejected it accepts
it now; the sixteen factors are the same or have become unknown; an unknown factor
contributes the least for every sign of the weight, through saturation; so its rank has not
risen, while all other ranks are unchanged.

**Plans.** `PlansAreLegal` shows that the request `plan_into` builds from any well-typed plane
is well formed, so that an accepted candidate was chosen or none, and reads the constraints
on liveness and on duplicate destinations off the table. Its hypothesis is that the policy
leaves `allow_same_cluster` at its default, false; a policy that sets it asks for the
opposite. That the plane is well typed in every run is `TypeCorrect`, and `HostsInductive`
for the planner's callers.

TLC finds each inductive invariant true in all states of the corresponding runs, the
initial ones included, so the hypotheses of these theorems are satisfied there.

Only model-checked: the six statements under *Where the code and its own words disagree*,
which are false; and the liveness properties `LinkLossEndsAgent`, `TransferIsReported` and
`ShutdownCompletes`, since the prover handles neither fairness nor ENABLED.

## Not modelled

* The publication of policies and compatibility descriptors, and their validation: a
  policy is data of a request.
* Malformed frames, oversized payloads and unknown requests, which end a connection or are
  refused before any state is read; the bodies of responses; heartbeats, which nothing
  sends.
* The authority assessment under other than the default reuse rules, and the texts of
  reasons and explanations.
* The record limit and the cross-record validation of the loader, and the identity counter
  after a reload. An instance cannot reach the limit, and validation only refuses.
* Byte codecs, checksums and digests (`encoding.cpp`, `protocol.cpp`, `bytes.cpp`,
  `digest.cpp`, `crc32c.cpp`): functions on byte strings, out of reach of an
  explicit-state checker. Their effect on the scan of the journal and on the verdict of a
  measurement is modelled.
* Socket and process I/O below the connection, the programs, the CUDA backend, examples
  and benchmarks.
