--------------------------- MODULE TransferProofs ----------------------------
(***************************************************************************)
(* What the plane says of a transferred copy is true of the bytes, for     *)
(* every number of agents, controllers, replicas and connections.          *)
(*                                                                         *)
(* A transfer is followed as a token: the authorization makes one, and it  *)
(* is in one place at a time, with the worker that sends the intent, under *)
(* way to an agent, with the agent that executes it, or spent, once the    *)
(* matching result is reported.  An agent therefore writes the bytes of a  *)
(* copy at most once, and not after it has reported them.  A second        *)
(* argument is about incarnations: processes of a cluster that are given   *)
(* the same one have the same process id, because the record of a cluster  *)
(* names the boot that has its current incarnation.                        *)
(***************************************************************************)
EXTENDS DeploymentProofs

-----------------------------------------------------------------------------
(* The inductive invariant *)

\* The record says, or has said, that the bytes arrived.
Written(x) ==
  \/ x.lifecycle \in {"TRANSFERRED", "VERIFYING", "PREPARED", "AUTHORITATIVE", "DEGRADED",
                      "REVALIDATION_REQUIRED"}
  \/ x.integrity = "VERIFIED"

\* The replica is the destination of a replication or a migration.
IsCopy(r) == r \in DOMAIN replicas /\ replicas[r].operation # 0

Recorded(r) == IsCopy(r) /\ Written(replicas[r])

Stored(a, r) == r \in DOMAIN store[a] /\ store[a][r] = "MATCH"

\* The places of a transfer into r that is not finished.
IntentFor(f, r) == f.type = "TRANSFER_INTENT" /\ f.replica = r
Sends(x, r) == worker[x] \in {"lookup", "intent"} /\ work[x].replica = r
Awaits(a, r) == \E f \in Frames(down[a]) : IntentFor(f, r)
Executes(a, r) == agent[a] \in {"pull", "receive"} /\ transfer[a].intent.replica = r

\* A result that says the bytes match is under way, or was applied.
MatchFor(f, r) == f.type = "TRANSFER_RESULT" /\ f.outcome = "MATCH" /\ f.replica = r
Finished(r) == Recorded(r) \/ \E a \in Agent : \E f \in Frames(up[a]) : MatchFor(f, r)

\* A transfer is in one place.
OnePlace(r) ==
  /\ \A x, y \in Client : Sends(x, r) /\ Sends(y, r) => x = y
  /\ \A a, b \in Agent : Awaits(a, r) /\ Awaits(b, r) => a = b
  /\ \A a, b \in Agent : Executes(a, r) /\ Executes(b, r) => a = b
  /\ \A x \in Client, a \in Agent : Sends(x, r) => ~Awaits(a, r) /\ ~Executes(a, r)
  /\ \A a, b \in Agent : Awaits(a, r) => ~Executes(b, r)
  /\ Finished(r) => /\ \A x \in Client : ~Sends(x, r)
                    /\ \A a \in Agent : ~Awaits(a, r) /\ ~Executes(a, r)

\* An intent is under way at most once over one connection.
NoRepeat(s) ==
  \A i, j \in DOMAIN s :
    (s[i].type = "TRANSFER_INTENT" /\ IntentFor(s[j], s[i].replica)) => i = j

\* Transfers are made into copies, and every one is in one place.
TransferInv ==
  /\ \A r \in NamedReplica :
       /\ OnePlace(r)
       /\ \A x \in Client : Sends(x, r) => IsCopy(r)
       /\ \A a \in Agent : Awaits(a, r) \/ Executes(a, r) => IsCopy(r)
       /\ \A a \in Agent : \A f \in Frames(up[a]) : MatchFor(f, r) => IsCopy(r)
  /\ \A a \in Agent : NoRepeat(down[a])

\* The process was given the incarnation, or is about to be.
Claims(a, n) ==
  /\ n # 0
  /\ \/ incarnation[a] = n
     \/ worker[a] \in {"hello", "hello_ack"} /\ work[a].incarnation = n
     \/ \E f \in Frames(down[a]) : f.type = "HELLO_ACK" /\ f.incarnation = n

\* Processes of a cluster that claim the same incarnation have the same id, none claims a
\* future one, and the record names the boot of those that claim the current one.
ClaimInv ==
  /\ \A a, b \in Agent : \A n \in Nat :
       Claims(a, n) /\ Claims(b, n) /\ ClusterOf[a] = ClusterOf[b] => ProcessId[a] = ProcessId[b]
  /\ \A a \in Agent : \A n \in Nat :
       Claims(a, n) => LET c == ClusterOf[a] IN
                       /\ c \in DOMAIN clusters /\ n <= clusters[c].incarnation
                       /\ n = clusters[c].incarnation => boots[c] = ProcessId[a]

\* A process that serves was given an incarnation, and only the reply to its HELLO gives one.
GivenInv ==
  /\ \A a \in Agent :
       /\ agent[a] \in Serving \cup {"evidence"} => incarnation[a] # 0
       /\ worker[a] \in {"hello", "hello_ack"} => work[a].incarnation # 0
       /\ \A f \in Frames(down[a]) : f.type = "HELLO_ACK" => f.incarnation # 0
  /\ \A x \in Client :
       worker[x] \in {"acknowledge", "lookup", "intent"} => work[x].type # "HELLO_ACK"

\* Every cluster has an incarnation, and a replica is bound to one its cluster has had.
BoundInv ==
  /\ \A c \in DOMAIN clusters : clusters[c].incarnation # 0
  /\ \A r \in DOMAIN replicas :
       /\ replicas[r].cluster \in DOMAIN clusters
       /\ replicas[r].incarnation <= clusters[replicas[r].cluster].incarnation

\* The process has registered, and stores the bytes of the copy while it serves.
HeldBy(a, r) == agent[a] \notin Unregistered /\ (agent[a] \in Serving => Stored(a, r))

\* It has the incarnation the copy is bound to.
Holder(a, r) == /\ ClusterOf[a] = replicas[r].cluster /\ incarnation[a] = replicas[r].incarnation
                /\ HeldBy(a, r)

\* A written copy has a holder, the process that reported it; a process whose matching result
\* is under way stores the bytes while it serves.  The bytes controllers hand over are not
\* those of copies.
BytesInv ==
  /\ \A r \in ReplicaId : Recorded(r) => \E a \in Agent : Holder(a, r)
  /\ \A a \in Agent, r \in NamedReplica : \A f \in Frames(up[a]) :
       MatchFor(f, r) => incarnation[a] # 0 /\ (agent[a] \in Serving => Stored(a, r))
  /\ \A h \in Hosting : h[2] \in DOMAIN replicas /\ replicas[h[2]].operation = 0

\* The requests by which a controller vouches for bytes it has not seen an agent measure.
Vouching == {"TRANSFER_COMPLETION", "REVALIDATE_REPLICA"}
MeasuredRequest == {f \in ControlRequest : f.request \notin Vouching}

\* No controller does.
ScriptInv == /\ script \in [Controller -> Seq(SUBSET MeasuredRequest)]
             /\ \A k \in Controller : \A f \in Frames(up[k]) : f.request \notin Vouching

CopyInv == TransferInv /\ ClaimInv /\ GivenInv /\ BoundInv /\ BytesInv /\ ScriptInv

-----------------------------------------------------------------------------
(* The plane *)

\* What a step of the plane leaves of the copies: they stay bound as they are, and only those
\* of R may come to say that their bytes arrived.
CopiesKept(R) ==
  /\ DOMAIN replicas \subseteq DOMAIN replicas'
  /\ \A q \in DOMAIN replicas :
       /\ replicas'[q].cluster = replicas[q].cluster
       /\ replicas'[q].operation = replicas[q].operation
       /\ replicas'[q].incarnation = replicas[q].incarnation
       /\ q \notin R /\ Written(replicas'[q]) => Written(replicas[q])
  /\ \A q \in DOMAIN replicas' \ DOMAIN replicas :
       /\ ~Written(replicas'[q])
       /\ replicas'[q].cluster \in DOMAIN clusters'
       /\ replicas'[q].incarnation <= clusters'[replicas'[q].cluster].incarnation
  /\ \A c \in DOMAIN clusters :
       c \in DOMAIN clusters' /\ clusters[c].incarnation <= clusters'[c].incarnation
  /\ \A c \in DOMAIN clusters' \ DOMAIN clusters : clusters'[c].incarnation # 0

\* While a cluster keeps its incarnation, its record names the same boot.
BootsKept ==
  \A c \in DOMAIN clusters :
    clusters'[c].incarnation = clusters[c].incarnation => boots'[c] = boots[c]

\* The revision keeps the identity of the record, and does not say that bytes arrived.
Carries(x, y) ==
  /\ y.cluster = x.cluster /\ y.operation = x.operation /\ y.incarnation = x.incarnation
  /\ Written(y) => Written(x)

\* So do the revisions that mutations other than the completion of a transfer make of a
\* record, revalidation aside.
LEMMA RevisionsCarry ==
  ASSUME NEW x \in ReplicaRecord
  PROVE  /\ Carries(x, x) /\ Carries(x, Yielded(x)) /\ Carries(x, Retired(x))
         /\ Carries(x, Abandoned(x)) /\ Carries(x, Superseded(x))
         /\ Carries(x, Quarantined(x))
         /\ \A l \in {"REVALIDATION_REQUIRED", "STALE"}, b \in BOOLEAN : Carries(x, Fence(x, l, b))
<1> USE DEF Carries, Written, ReplicaRecord
<1>1. Carries(x, x) /\ Carries(x, Yielded(x)) /\ Carries(x, Retired(x))
  BY Zenon DEF Yielded, Retired
<1>2. Carries(x, Abandoned(x)) /\ Carries(x, Superseded(x)) /\ Carries(x, Quarantined(x))
  BY Zenon DEF Abandoned, Superseded, Quarantined
<1>3. \A l \in {"REVALIDATION_REQUIRED", "STALE"}, b \in BOOLEAN : Carries(x, Fence(x, l, b))
  BY Zenon DEF Fence
<1> QED  BY <1>1, <1>2, <1>3, Zenon

DigestOutcome == {"MISSING", "MISMATCH", "MATCH"}
CompatibilityOutcome == {"COMPATIBLE", "INCOMPATIBLE", "UNKNOWN", "REVALIDATION_REQUIRED"}

\* Progress, verification and commit carry the record under the conditions they check.
LEMMA StagesCarry ==
  ASSUME NEW x \in ReplicaRecord
  PROVE  /\ x.lifecycle \in {"RESERVED", "TRANSFERRING"} =>
              Carries(x, [x EXCEPT !.lifecycle = "TRANSFERRING"])
         /\ x.lifecycle \in {"TRANSFERRED", "VERIFYING", "PREPARED", "AUTHORITATIVE",
                             "DEGRADED", "REVALIDATION_REQUIRED"} =>
              \A digest \in DigestOutcome, verdict \in CompatibilityOutcome :
                Carries(x, VerifiedRecord(x, digest, verdict))
         /\ x.lifecycle \in {"PREPARED", "AUTHORITATIVE", "DEGRADED"} =>
              \A b \in BOOLEAN : Carries(x, Committed(x, b))
<1> USE DEF Carries, Written, ReplicaRecord
<1>1. x.lifecycle \in {"RESERVED", "TRANSFERRING"} =>
        Carries(x, [x EXCEPT !.lifecycle = "TRANSFERRING"])
  BY Zenon
<1>2. ASSUME x.lifecycle \in {"TRANSFERRED", "VERIFYING", "PREPARED", "AUTHORITATIVE",
                              "DEGRADED", "REVALIDATION_REQUIRED"},
             NEW digest \in DigestOutcome, NEW verdict \in CompatibilityOutcome
      PROVE  Carries(x, VerifiedRecord(x, digest, verdict))
  BY <1>2, Zenon DEF VerifiedRecord, DigestOutcome, CompatibilityOutcome, Corrupted, Quarantined
<1>3. ASSUME x.lifecycle \in {"PREPARED", "AUTHORITATIVE", "DEGRADED"}, NEW b \in BOOLEAN
      PROVE  Carries(x, Committed(x, b))
  BY <1>3, Zenon DEF Committed
<1> QED  BY <1>1, <1>2, <1>3, Zenon

\* A completion keeps the identity of the record; one that does not match leaves it unwritten.
LEMMA CompletionCarries ==
  ASSUME NEW x \in ReplicaRecord, NEW digest \in DigestOutcome
  PROVE  LET y == TransferredRecord(x, digest)
         IN /\ y.cluster = x.cluster /\ y.operation = x.operation
            /\ y.incarnation = x.incarnation
            /\ digest = "MISMATCH" => Carries(x, y)
BY Zenon DEF TransferredRecord, DigestOutcome, Corrupted, Carries, Written, ReplicaRecord

\* Incarnations are numbers.
LEMMA IncarnationsTyped ==
  ASSUME TypeOK
  PROVE  /\ \A c \in DOMAIN clusters : clusters[c].incarnation \in Nat
         /\ \A q \in DOMAIN replicas : replicas[q].incarnation \in Nat
<1>1. \A c \in DOMAIN clusters : clusters[c] \in ClusterRecord
  BY MapEntry, Zenon DEF TypeOK
<1>2. \A q \in DOMAIN replicas : replicas[q] \in ReplicaRecord
  BY MapEntry, Zenon DEF TypeOK
<1> QED  BY <1>1, <1>2, Zenon DEF ClusterRecord, ReplicaRecord

\* A step that leaves replicas and clusters alone leaves the copies.
LEMMA CopiesUnchanged ==
  ASSUME TypeOK, UNCHANGED <<replicas, clusters>>, NEW R
  PROVE  CopiesKept(R)
<1>1. \A c \in DOMAIN clusters : clusters[c].incarnation \in Nat
  BY IncarnationsTyped, Zenon
<1> QED  BY <1>1 DEF CopiesKept

\* So does one that revises every record in a way that carries it.
LEMMA CopiesRevised ==
  ASSUME TypeOK, UNCHANGED clusters, DOMAIN replicas' = DOMAIN replicas,
         \A q \in DOMAIN replicas : Carries(replicas[q], replicas'[q])
  PROVE  CopiesKept({})
<1>1. \A c \in DOMAIN clusters : clusters[c].incarnation \in Nat
  BY IncarnationsTyped, Zenon
<1> QED  BY <1>1 DEF CopiesKept, Carries

\* So does one that revises one record.
LEMMA CopyRevised ==
  ASSUME TypeOK, UNCHANGED clusters, NEW r \in DOMAIN replicas, NEW v, Carries(replicas[r], v),
         replicas' = [replicas EXCEPT ![r] = v]
  PROVE  CopiesKept({})
<1>1. DOMAIN replicas' = DOMAIN replicas /\ \A q \in DOMAIN replicas :
        replicas'[q] = IF q = r THEN v ELSE replicas[q]
  BY Zenon DEF TypeOK, IsMap
<1>2. \A q \in DOMAIN replicas : replicas[q] \in ReplicaRecord
  BY MapEntry, Zenon DEF TypeOK
<1>3. \A q \in DOMAIN replicas : Carries(replicas[q], replicas'[q])
  BY <1>1, <1>2, RevisionsCarry, Zenon
<1> QED  BY <1>1, <1>3, CopiesRevised, Zenon

\* A replica that is registered has no bytes and is bound to the live incarnation.
LEMMA CopyRegistered ==
  ASSUME TypeOK, UNCHANGED clusters, NEW r, r \notin DOMAIN replicas, NEW k, NEW c, NEW o,
         NEW l \in {"RESERVED", "TRANSFERRING"}, c \in DOMAIN clusters,
         replicas' = Put(replicas, r, NewReplica(k, c, o, l))
  PROVE  /\ CopiesKept({})
         /\ r \in DOMAIN replicas' /\ replicas'[r].operation = o /\ ~Written(replicas'[r])
<1>1. \A d \in DOMAIN clusters : clusters[d].incarnation \in Nat
  BY IncarnationsTyped, Zenon
<1>2. /\ DOMAIN replicas' = DOMAIN replicas \cup {r}
      /\ replicas'[r] = NewReplica(k, c, o, l)
      /\ \A q \in DOMAIN replicas : replicas'[q] = replicas[q]
  BY Zenon DEF Put
<1>3. LET y == NewReplica(k, c, o, l)
      IN ~Written(y) /\ y.cluster = c /\ y.incarnation = clusters[c].incarnation
         /\ y.operation = o
  BY Zenon DEF NewReplica, Written
<1> HIDE DEF NewReplica
<1> QED  BY <1>1, <1>2, <1>3 DEF CopiesKept

\* Fencing carries the records of the cluster and lowers no incarnation.
LEMMA CopiesFenced ==
  ASSUME TypeOK, NEW S, NEW l \in {"REVALIDATION_REQUIRED", "STALE"}, NEW b \in BOOLEAN,
         FenceAll(S, l, b),
         \A c \in DOMAIN clusters :
           c \in DOMAIN clusters' /\ clusters[c].incarnation <= clusters'[c].incarnation,
         \A c \in DOMAIN clusters' \ DOMAIN clusters : clusters'[c].incarnation # 0
  PROVE  CopiesKept({})
<1>1. replicas' = [r \in DOMAIN replicas |->
                     IF r \in S THEN Fence(replicas[r], l, b) ELSE replicas[r]]
  BY Zenon DEF FenceAll
<1>2. \A q \in DOMAIN replicas : replicas[q] \in ReplicaRecord
  BY MapEntry, Zenon DEF TypeOK
<1>3. \A q \in DOMAIN replicas : Carries(replicas[q], replicas'[q])
  BY <1>1, <1>2, RevisionsCarry, Zenon
<1> QED  BY <1>1, <1>3, Zenon DEF CopiesKept, Carries

\* A registration gives the cluster an incarnation it never had, or leaves it the one it has,
\* to the boot its record names.
LEMMA ClusterRegistered ==
  ASSUME TypeOK, boots \in [Cluster -> BootId], NEW c \in Cluster, NEW b, NEW force \in BOOLEAN,
         registers(c, b, force)
  PROVE  /\ CopiesKept({}) /\ BootsKept /\ boots'[c] = b
         /\ c \in DOMAIN clusters' /\ clusters'[c].incarnation \in Nat
         /\ c \in DOMAIN clusters =>
              \/ clusters[c].incarnation < clusters'[c].incarnation
              \/ clusters'[c].incarnation = clusters[c].incarnation /\ boots[c] = b
         /\ c \notin DOMAIN clusters => clusters'[c].incarnation = 1
<1> DEFINE new_boot == force \/ boots[c] # b
           known == c \in DOMAIN clusters
           reincarnated == known /\ new_boot
           i == IF ~known THEN 1 ELSE clusters[c].incarnation + (IF reincarnated THEN 1 ELSE 0)
           lost == IF reincarnated THEN {r \in Hosted(c) : replicas[r].incarnation # i} ELSE {}
           v == [incarnation |-> i, live_authority |-> TRUE, evidence_present |-> TRUE,
                 lifecycle |-> IF reincarnated THEN "REINCARNATED" ELSE "ACTIVE",
                 last_evidence_epoch |-> epoch]
<1>1. \A d \in DOMAIN clusters : clusters[d].incarnation \in Nat
  BY IncarnationsTyped, Zenon
<1>2. clusters' = Put(clusters, c, v) /\ FenceAll(lost, "REVALIDATION_REQUIRED", FALSE)
  BY Zenon DEF registers, register_cluster
<1>3. v.incarnation = i
  BY Zenon
<1> HIDE DEF v, lost
<1>4. /\ DOMAIN clusters' = DOMAIN clusters \cup {c} /\ clusters'[c].incarnation = i
      /\ \A d \in DOMAIN clusters \ {c} : clusters'[d] = clusters[d]
  BY <1>2, <1>3, Zenon DEF Put
<1>5. /\ i \in Nat /\ (~known => i = 1)
      /\ known => \/ clusters[c].incarnation < i
                  \/ i = clusters[c].incarnation /\ boots[c] = b
  BY <1>1
<1> HIDE DEF i
<1>6. \A d \in DOMAIN clusters :
        d \in DOMAIN clusters' /\ clusters[d].incarnation <= clusters'[d].incarnation
  BY <1>1, <1>4, <1>5
<1>7. \A d \in DOMAIN clusters' \ DOMAIN clusters : clusters'[d].incarnation # 0
  BY <1>4, <1>5
<1>8. CopiesKept({})
  BY <1>2, <1>6, <1>7, CopiesFenced, Zenon
<1>9. boots'[c] = b /\ \A d \in Cluster \ {c} : boots'[d] = boots[d]
  BY Zenon DEF registers
<1>10. BootsKept
  <2> SUFFICES ASSUME NEW d \in DOMAIN clusters, clusters'[d].incarnation = clusters[d].incarnation
               PROVE  boots'[d] = boots[d]
    BY Zenon DEF BootsKept
  <2>1. d \in Cluster
    BY Zenon DEF TypeOK, IsMap
  <2>2. CASE d = c
    BY <1>1, <1>4, <1>5, <1>9, <2>2
  <2> QED  BY <1>9, <2>1, <2>2, Zenon
<1> QED  BY <1>4, <1>5, <1>8, <1>9, <1>10, Zenon

\* Loss and retirement of a cluster leave its incarnation.
LEMMA CopiesLost ==
  ASSUME TypeOK, NEW c \in Cluster, mark_cluster_unreachable(c) \/ retire_cluster(c)
  PROVE  CopiesKept({})
<1>1. /\ \A d \in DOMAIN clusters : clusters[d] \in ClusterRecord
      /\ \A d \in DOMAIN clusters : clusters[d].incarnation \in Nat
  BY MapEntry, IncarnationsTyped, Zenon DEF TypeOK
<1>2. PICK l \in {"UNREACHABLE", "RETIRED"} :
        clusters' = [clusters EXCEPT ![c] =
          [@ EXCEPT !.live_authority = FALSE, !.lifecycle = l, !.evidence_present = FALSE]]
  BY Zenon DEF mark_cluster_unreachable, retire_cluster
<1>3. \A x \in ClusterRecord :
        [x EXCEPT !.live_authority = FALSE, !.lifecycle = l, !.evidence_present = FALSE].incarnation
          = x.incarnation
  BY Zenon DEF ClusterRecord
<1>4. \A d \in DOMAIN clusters :
        d \in DOMAIN clusters' /\ clusters[d].incarnation <= clusters'[d].incarnation
  <2> TAKE d \in DOMAIN clusters
  <2>1. d \in DOMAIN clusters'
    BY <1>2, Zenon
  <2>2. clusters'[d].incarnation = clusters[d].incarnation
    BY <1>1, <1>2, <1>3, Zenon
  <2> QED  BY <1>1, <2>1, <2>2
<1>5. \E b \in BOOLEAN : FenceAll(LiveHosted(c), "STALE", b)
  BY Zenon DEF mark_cluster_unreachable, retire_cluster
<1>6. DOMAIN clusters' \ DOMAIN clusters = {}
  BY <1>2, Zenon
<1> QED  BY <1>4, <1>5, <1>6, CopiesFenced, Zenon

\* Evidence leaves the copies.
LEMMA CopiesEvidenced ==
  ASSUME TypeOK, NEW c \in Cluster, publish_cluster_evidence(c)
  PROVE  CopiesKept({})
<1>1. /\ \A d \in DOMAIN clusters : clusters[d] \in ClusterRecord
      /\ \A d \in DOMAIN clusters : clusters[d].incarnation \in Nat
  BY MapEntry, IncarnationsTyped, Zenon DEF TypeOK
<1>2. clusters' = [clusters EXCEPT ![c] = Evidenced(@)] /\ replicas' = replicas
  BY Zenon DEF publish_cluster_evidence
<1>3. \A x \in ClusterRecord : Evidenced(x).incarnation = x.incarnation
  BY Zenon DEF ClusterRecord, Evidenced
<1>4. \A d \in DOMAIN clusters :
        d \in DOMAIN clusters' /\ clusters[d].incarnation <= clusters'[d].incarnation
  <2> TAKE d \in DOMAIN clusters
  <2>1. d \in DOMAIN clusters'
    BY <1>2, Zenon
  <2>2. clusters'[d].incarnation = clusters[d].incarnation
    BY <1>1, <1>2, <1>3, Zenon
  <2> QED  BY <1>1, <2>1, <2>2
<1>5. DOMAIN clusters' \ DOMAIN clusters = {}
  BY <1>2, Zenon
<1> QED  BY <1>2, <1>4, <1>5, Zenon DEF CopiesKept

\* Neither do the mutations on state generations.
LEMMA CopiesOfStates ==
  ASSUME TypeOK, NEW k \in StateKey,
         (\E spec \in SpecInput : register_state(k, spec)) \/ commit_state_generation(k)
  PROVE  CopiesKept({})
<1>1. CASE \E spec \in SpecInput : register_state(k, spec)
  BY <1>1, CopiesUnchanged, Zenon DEF register_state
<1>2. CASE commit_state_generation(k)
  <2>1. PICK superseded :
          replicas' = [r \in DOMAIN replicas |->
                         IF replicas[r].key \in superseded THEN Superseded(replicas[r])
                         ELSE replicas[r]]
    BY <1>2, Zenon DEF commit_state_generation
  <2>2. \A q \in DOMAIN replicas : replicas[q] \in ReplicaRecord
    BY MapEntry, Zenon DEF TypeOK
  <2>3. \A q \in DOMAIN replicas : Carries(replicas[q], replicas'[q])
    BY <2>1, <2>2, RevisionsCarry, Zenon
  <2> QED  BY <1>2, <2>1, <2>3, CopiesRevised, Zenon DEF commit_state_generation
<1> QED  BY <1>1, <1>2, Zenon

\* A commit makes a written copy authoritative, takes ownership from the others and may
\* retire the source.
LEMMA CopiesCommitted ==
  ASSUME TypeOK, UNCHANGED clusters, NEW r \in DOMAIN replicas, NEW make_owner \in BOOLEAN,
         replicas[r].lifecycle \in {"PREPARED", "AUTHORITATIVE", "DEGRADED"},
         NEW retiring \in BOOLEAN, NEW source, retiring => source \in DOMAIN replicas,
         LET planned == plan_authoritative_commit(r, make_owner)
         IN replicas' = IF retiring THEN [planned EXCEPT ![source] = Retired(replicas[source])]
                        ELSE planned
  PROVE  CopiesKept({})
<1> DEFINE planned == plan_authoritative_commit(r, make_owner)
<1>1. \A q \in DOMAIN replicas : replicas[q] \in ReplicaRecord
  BY MapEntry, Zenon DEF TypeOK
<1>2. /\ DOMAIN Demoted(r, replicas[r].key) = DOMAIN replicas
      /\ \A q \in DOMAIN replicas :
           Demoted(r, replicas[r].key)[q] \in {replicas[q], Yielded(replicas[q])}
      /\ Demoted(r, replicas[r].key)[r] = replicas[r]
  BY Zenon DEF Demoted, OtherOwner
<1>3. /\ DOMAIN planned = DOMAIN replicas
      /\ planned[r] = Committed(replicas[r], make_owner)
      /\ \A q \in DOMAIN replicas \ {r} : planned[q] \in {replicas[q], Yielded(replicas[q])}
  BY <1>2, Zenon DEF plan_authoritative_commit
<1> HIDE DEF planned
<1>4. \A q \in DOMAIN replicas : Carries(replicas[q], planned[q])
  BY <1>1, <1>3, RevisionsCarry, StagesCarry, Zenon
<1>5. /\ DOMAIN replicas' = DOMAIN replicas
      /\ \A q \in DOMAIN replicas : replicas'[q] \in {planned[q], Retired(replicas[q])}
  BY <1>3, Zenon DEF planned
<1>6. \A q \in DOMAIN replicas : Carries(replicas[q], replicas'[q])
  BY <1>1, <1>4, <1>5, RevisionsCarry, Zenon
<1> QED  BY <1>5, <1>6, CopiesRevised, Zenon

\* A cancelled operation abandons its destination, which does not say that bytes arrived.
LEMMA CopiesCancelled ==
  ASSUME TypeOK, NEW o, cancel_operation(o)
  PROVE  CopiesKept({})
<1> DEFINE r == operations[o].destination
<1>1. UNCHANGED clusters
  BY Zenon DEF cancel_operation
<1>2. \/ r \in DOMAIN replicas /\ replicas' = [replicas EXCEPT ![r] = Abandoned(@)]
      \/ UNCHANGED replicas
  BY Zenon DEF cancel_operation
<1>3. CASE r \in DOMAIN replicas /\ replicas' = [replicas EXCEPT ![r] = Abandoned(@)]
  <2>1. replicas[r] \in ReplicaRecord
    BY <1>3, MapEntry, Zenon DEF TypeOK
  <2>2. Carries(replicas[r], Abandoned(replicas[r]))
    BY <2>1, RevisionsCarry, Zenon
  <2>3. replicas' = [replicas EXCEPT ![r] = Abandoned(replicas[r])]
    BY <1>3, Zenon
  <2> HIDE DEF r
  <2> QED  BY <1>1, <1>3, <2>2, <2>3, CopyRevised, Zenon
<1>4. CASE UNCHANGED replicas
  BY <1>1, <1>4, CopiesUnchanged, Zenon
<1> QED  BY <1>2, <1>3, <1>4, Zenon

\* A commit of an operation, or of a replica, writes no copy.
LEMMA CopiesCommit ==
  ASSUME TypeOK,
         \/ \E r, make_owner, strict : make_owner \in BOOLEAN /\ commit_replica(r, make_owner, strict)
         \/ \E o, retire : retire \in BOOLEAN /\ commit_operation(o, retire)
  PROVE  CopiesKept({})
<1>1. ASSUME NEW r, NEW make_owner \in BOOLEAN, NEW strict, commit_replica(r, make_owner, strict)
      PROVE  CopiesKept({})
  <2>1. /\ r \in DOMAIN replicas /\ UNCHANGED clusters
        /\ replicas[r].lifecycle \in {"PREPARED", "AUTHORITATIVE", "DEGRADED"}
        /\ replicas' = plan_authoritative_commit(r, make_owner)
    BY <1>1, Zenon DEF commit_replica
  <2>2. replicas' = IF FALSE
                    THEN [plan_authoritative_commit(r, make_owner) EXCEPT ![r] =
                            Retired(replicas[r])]
                    ELSE plan_authoritative_commit(r, make_owner)
    BY <2>1, Zenon
  <2> QED  BY <2>1, <2>2, CopiesCommitted, Zenon
<1>2. ASSUME NEW o, NEW retire \in BOOLEAN, commit_operation(o, retire)
      PROVE  CopiesKept({})
  <2> DEFINE op == operations[o]
             r == op.destination
             make_owner == op.kind = "MIGRATION" \/ states[op.key].single_owner
             retiring == /\ retire
                         /\ op.source \in DOMAIN replicas /\ op.source # r
                         /\ ~is_terminal(replicas[op.source])
  <2>1. /\ r \in DOMAIN replicas /\ UNCHANGED clusters /\ op.key \in DOMAIN states
        /\ replicas[r].lifecycle = "PREPARED"
        /\ replicas' = IF retiring
                       THEN [plan_authoritative_commit(r, make_owner) EXCEPT ![op.source] =
                               Retired(replicas[op.source])]
                       ELSE plan_authoritative_commit(r, make_owner)
    BY <1>2, Zenon DEF commit_operation
  <2>2. make_owner \in BOOLEAN /\ retiring \in BOOLEAN
    BY Zenon
  <2>3. retiring => op.source \in DOMAIN replicas
    BY Zenon
  <2> HIDE DEF op, r, make_owner, retiring
  <2> QED  BY <2>1, <2>2, <2>3, CopiesCommitted, Zenon
<1> QED  BY <1>1, <1>2, Zenon

\* Verification is of copies that are written already.
LEMMA CopiesVerified ==
  ASSUME TypeOK, NEW r, NEW o, NEW digest \in DigestOutcome, NEW verdict \in CompatibilityOutcome,
         verify_replica(r, o, digest, verdict)
  PROVE  CopiesKept({})
<1>1. /\ r \in DOMAIN replicas /\ UNCHANGED clusters
      /\ replicas[r].lifecycle \in {"TRANSFERRED", "VERIFYING", "PREPARED", "AUTHORITATIVE",
                                    "DEGRADED", "REVALIDATION_REQUIRED"}
      /\ replicas' = [replicas EXCEPT ![r] = VerifiedRecord(replicas[r], digest, verdict)]
  BY Zenon DEF verify_replica, guard_replica
<1>2. replicas[r] \in ReplicaRecord
  BY <1>1, MapEntry, Zenon DEF TypeOK
<1>3. Carries(replicas[r], VerifiedRecord(replicas[r], digest, verdict))
  BY <1>1, <1>2, StagesCarry, Zenon
<1> QED  BY <1>1, <1>3, CopyRevised, Zenon

\* Progress, and failure, leave a copy unwritten.
LEMMA CopiesProgressed ==
  ASSUME TypeOK, NEW r, NEW o, NEW failed \in BOOLEAN, record_transfer_progress(r, o, failed)
  PROVE  CopiesKept({})
<1> DEFINE v == IF failed THEN Abandoned(replicas[r])
                ELSE [replicas[r] EXCEPT !.lifecycle = "TRANSFERRING"]
<1>1. /\ r \in DOMAIN replicas /\ UNCHANGED clusters
      /\ replicas[r].lifecycle \in {"RESERVED", "TRANSFERRING"}
      /\ replicas' = [replicas EXCEPT ![r] = v]
  BY Zenon DEF record_transfer_progress, guard_replica
<1>2. replicas[r] \in ReplicaRecord
  BY <1>1, MapEntry, Zenon DEF TypeOK
<1>3. Carries(replicas[r], v)
  BY <1>1, <1>2, RevisionsCarry, StagesCarry, Zenon
<1> HIDE DEF v
<1> QED  BY <1>1, <1>3, CopyRevised, Zenon

\* A completion writes the copy it names, and only if the digest is not a mismatch.
LEMMA CopiesCompleted ==
  ASSUME TypeOK, NEW r, NEW o, NEW digest \in {"MATCH", "MISMATCH"},
         record_transfer_completion(r, o, digest)
  PROVE  CopiesKept(IF digest = "MATCH" THEN {r} ELSE {})
<1> DEFINE v == TransferredRecord(replicas[r], digest)
<1>1. /\ r \in DOMAIN replicas /\ UNCHANGED clusters
      /\ replicas' = [replicas EXCEPT ![r] = v]
  BY Zenon DEF record_transfer_completion, guard_replica
<1>2. replicas[r] \in ReplicaRecord
  BY <1>1, MapEntry, Zenon DEF TypeOK
<1>3. /\ v.cluster = replicas[r].cluster /\ v.operation = replicas[r].operation
      /\ v.incarnation = replicas[r].incarnation
      /\ digest = "MISMATCH" => Carries(replicas[r], v)
  BY <1>2, CompletionCarries, Zenon DEF DigestOutcome
<1> HIDE DEF v
<1>4. CASE digest = "MISMATCH"
  BY <1>1, <1>3, <1>4, CopyRevised, Zenon
<1>5. CASE digest = "MATCH"
  <2>1. DOMAIN replicas' = DOMAIN replicas /\ \A q \in DOMAIN replicas :
          replicas'[q] = IF q = r THEN v ELSE replicas[q]
    BY <1>1, Zenon DEF TypeOK, IsMap
  <2>2. \A c \in DOMAIN clusters : clusters[c].incarnation \in Nat
    BY IncarnationsTyped, Zenon
  <2> QED  BY <1>1, <1>3, <1>5, <2>1, <2>2 DEF CopiesKept
<1> QED  BY <1>4, <1>5, Zenon

\* No request of a controller that does not vouch for bytes writes a copy.
LEMMA RequestKeepsCopies ==
  ASSUME TypeOK, boots \in [Cluster -> BootId],
         NEW f, f.request \in Mutations \ Vouching, control_mutation(f)
  PROVE  CopiesKept({})
<1> USE DEF StateRequests, ReplicaRequests, OperationRequests, ClusterRequests
<1>1. CASE f.request \in StateRequests
  <2>1. state_request(f)
    BY <1>1, Zenon DEF control_mutation
  <2> QED  BY <2>1, CopiesOfStates, Zenon DEF state_request
<1>2. CASE f.request \in ReplicaRequests
  <2>1. replica_request(f)
    BY <1>2, Zenon DEF control_mutation
  <2>2. CASE f.request = "REGISTER_REPLICA"
    <3>1. PICK k \in StateKey, c \in Cluster, l \in {"RESERVED", "TRANSFERRING"} :
            register_replica(f.replica, k, c, l)
      BY <2>1, <2>2, Zenon DEF replica_request
    <3>2. /\ f.replica \notin DOMAIN replicas /\ c \in DOMAIN clusters /\ UNCHANGED clusters
          /\ replicas' = Put(replicas, f.replica, NewReplica(k, c, 0, l))
      BY <3>1, Zenon DEF register_replica, Minted
    <3> QED  BY <3>2, CopyRegistered, Zenon
  <2>3. CASE f.request = "VERIFY_REPLICA"
    <3>1. PICK digest \in DigestInput, verdict \in CompatibilityInput :
            verify_replica(f.replica, f.operation, digest, verdict)
      BY <2>1, <2>3, Zenon DEF replica_request
    <3>2. digest \in DigestOutcome /\ verdict \in CompatibilityOutcome
      BY Inputs, Zenon DEF DigestOutcome, CompatibilityOutcome
    <3> QED  BY <3>1, <3>2, CopiesVerified, Zenon
  <2>4. CASE f.request = "COMMIT_REPLICA"
    <3>1. \E make_owner, strict \in BOOLEAN : commit_replica(f.replica, make_owner, strict)
      BY <2>1, <2>4, Zenon DEF replica_request
    <3> QED  BY <3>1, CopiesCommit, Zenon
  <2> QED  BY <1>2, <2>2, <2>3, <2>4, Zenon DEF Vouching
<1>3. CASE f.request \in OperationRequests
  <2>1. operation_request(f)
    BY <1>3, Zenon DEF control_mutation
  <2> QED  BY <2>1, CopiesCancelled, CopiesCommit, Zenon DEF operation_request
<1>4. CASE f.request \in ClusterRequests
  <2>1. cluster_request(f)
    BY <1>4, Zenon DEF control_mutation
  <2>2. CASE f.request = "MARK_CLUSTER_UNREACHABLE"
    BY <2>1, <2>2, CopiesLost, Zenon DEF cluster_request
  <2>3. CASE f.request = "RETIRE_CLUSTER"
    BY <2>1, <2>3, CopiesLost, Zenon DEF cluster_request
  <2> QED  BY <1>4, <2>2, <2>3, Zenon DEF Vouching
<1>5. CASE f.request = "REINCARNATE_CLUSTER"
  <2>1. reincarnate_request
    BY <1>5, Zenon DEF control_mutation
  <2> QED  BY <2>1, ClusterRegistered, Zenon DEF reincarnate_request
<1> QED  BY <1>1, <1>2, <1>3, <1>4, <1>5, Zenon DEF Mutations

\* Nor does any change the boot a record names and leave the incarnation.
LEMMA RequestKeepsBoots ==
  ASSUME TypeOK, boots \in [Cluster -> BootId],
         NEW f, f.request \in Mutations, control_mutation(f)
  PROVE  BootsKept
<1>1. CASE reincarnate_request
  BY <1>1, ClusterRegistered, Zenon DEF reincarnate_request
<1>2. CASE UNCHANGED boots
  BY <1>2, Zenon DEF BootsKept
<1> QED  BY <1>1, <1>2, Zenon DEF control_mutation, Mutations

\* Of the reports of an agent, only a matching result writes a copy, and it is the one the
\* result names, bound to the incarnation it names.
LEMMA ReportKeepsCopies ==
  ASSUME TypeOK, NEW a \in Agent, NEW f, UpFrame(a, f),
         f.type \notin {"HELLO", "TRANSFER_INTENT_ACK"}, reported(a, f)
  PROVE  \/ CopiesKept({})
         \/ /\ MatchFor(f, f.replica) /\ IsReport(a, f) /\ names_host(f)
            /\ CopiesKept({f.replica})
<1>1. CASE f.type = "EVIDENCE"
  <2>1. publish_cluster_evidence(ClusterOf[a]) /\ ClusterOf[a] \in Cluster
    BY <1>1, Configured, Zenon DEF reported
  <2> QED  BY <2>1, CopiesEvidenced, Zenon
<1>2. CASE f.type # "EVIDENCE"
  <2>1. IsReport(a, f) /\ a \notin Controller
    BY <1>2, Peers, Zenon DEF UpFrame
  <2>2. CASE \/ f.type = "TRANSFER_PROGRESS"
             \/ f.type = "TRANSFER_RESULT" /\ f.outcome = "FAILED"
    <3>1. \E failed \in BOOLEAN : record_transfer_progress(f.replica, f.operation, failed)
      BY <2>2, Zenon DEF reported
    <3> QED  BY <3>1, CopiesProgressed, Zenon
  <2>3. CASE f.type = "TRANSFER_RESULT" /\ f.outcome # "FAILED"
    <3>1. /\ record_transfer_completion(f.replica, f.operation, f.outcome)
          /\ names_host(f) /\ f.outcome \in {"MATCH", "MISMATCH"}
      BY <2>1, <2>3, Zenon DEF reported, IsReport, Bytes
    <3>2. CopiesKept(IF f.outcome = "MATCH" THEN {f.replica} ELSE {})
      BY <3>1, CopiesCompleted, Zenon
    <3> QED  BY <2>1, <2>3, <3>1, <3>2, Zenon DEF MatchFor
  <2>4. CASE f.type = "VERIFY_RESULT"
    <3>1. PICK verdict \in CompatibilityInput :
            verify_replica(f.replica, f.operation, f.outcome, verdict)
      BY <2>4, Zenon DEF reported
    <3>2. f.outcome \in DigestOutcome /\ verdict \in CompatibilityOutcome
      BY <2>1, <2>4, Inputs, Zenon DEF IsReport, Bytes, DigestOutcome, CompatibilityOutcome
    <3> QED  BY <3>1, <3>2, CopiesVerified, Zenon
  <2>5. f.type \in {"TRANSFER_PROGRESS", "TRANSFER_RESULT", "VERIFY_RESULT"}
    BY <2>1, Zenon DEF IsReport
  <2> QED  BY <2>2, <2>3, <2>4, <2>5, Zenon
<1> QED  BY <1>1, <1>2, Zenon

\* An authorization that is granted makes a copy nobody has heard of, without bytes.
LEMMA AuthorizationMakesCopy ==
  ASSUME TypeOK, NEW x \in Client, dispatch_authorize(x)
  PROVE  \/ UNCHANGED <<vars, work>> /\ Goto(x, "respond")
         \/ /\ Goto(x, "lookup") /\ CopiesKept({})
            /\ \E o \in OperationId, r \in ReplicaId :
                 /\ r \notin DOMAIN replicas /\ IsCopy(r)' /\ ~Recorded(r)'
                 /\ Hold(x, [Frame("TRANSFER_INTENT") EXCEPT !.operation = o, !.replica = r])
<1> DEFINE f == Head(up[x])
           Granted(o, r) == \E k \in StateKey, source \in ReplicaId, c \in Cluster :
             IF f.request = "AUTHORIZE_REPLICATION" THEN authorize_replication(o, r, k, source, c)
             ELSE \E retire \in BOOLEAN : authorize_migration(o, r, k, retire, source, c)
<1>1. \/ UNCHANGED <<vars, work>> /\ Goto(x, "respond")
      \/ \E o \in OperationId, r \in ReplicaId :
           /\ Granted(o, r) /\ Goto(x, "lookup")
           /\ Hold(x, [Frame("TRANSFER_INTENT") EXCEPT !.operation = o, !.replica = r])
  BY Zenon DEF dispatch_authorize
<1>2. ASSUME NEW o \in OperationId, NEW r \in ReplicaId, Granted(o, r)
      PROVE  CopiesKept({}) /\ r \notin DOMAIN replicas /\ IsCopy(r)' /\ ~Recorded(r)'
  <2>1. PICK k, kind, destructive, source, c :
          authorize_transaction(o, r, k, kind, destructive, source, c)
    BY <1>2, Zenon DEF authorize_replication, authorize_migration
  <2>2. /\ r \notin DOMAIN replicas /\ c \in DOMAIN clusters /\ UNCHANGED clusters
        /\ replicas' = Put(replicas, r, NewReplica(k, c, o, "RESERVED"))
    BY <2>1, Zenon DEF authorize_transaction, Minted, legal_destinations
  <2>3. /\ CopiesKept({})
        /\ r \in DOMAIN replicas' /\ replicas'[r].operation = o /\ ~Written(replicas'[r])
    BY <2>2, CopyRegistered, Zenon
  <2>4. o # 0
    BY MintedIds, Zenon
  <2> QED  BY <2>2, <2>3, <2>4, Zenon DEF IsCopy, Recorded
<1> HIDE DEF Granted
<1> QED  BY <1>1, <1>2, Zenon

-----------------------------------------------------------------------------
(* What a step leaves of the invariant *)

\* A step of the plane leaves copies what they are, and writes only those of R.
LEMMA CopiesStep ==
  ASSUME NEW R, CopiesKept(R)
  PROVE  /\ \A r : IsCopy(r) => IsCopy(r)'
         /\ \A r : r \notin R /\ Recorded(r)' => Recorded(r)
         /\ \A r \in DOMAIN replicas : /\ replicas'[r].cluster = replicas[r].cluster
                                       /\ replicas'[r].incarnation = replicas[r].incarnation
<1>1. \A r \in DOMAIN replicas :
        r \in DOMAIN replicas' /\ replicas'[r].operation = replicas[r].operation
  BY Zenon DEF CopiesKept
<1>2. \A r : IsCopy(r) => IsCopy(r)'
  BY <1>1, Zenon DEF IsCopy
<1>3. ASSUME NEW r, r \notin R, Recorded(r)' PROVE Recorded(r)
  <2>1. r \in DOMAIN replicas
    BY <1>3, Zenon DEF CopiesKept, Recorded, IsCopy
  <2> QED  BY <1>3, <2>1, Zenon DEF CopiesKept, Recorded, IsCopy
<1> QED  BY <1>2, <1>3, Zenon DEF CopiesKept

\* Replicas stay bound to an incarnation of their cluster.
LEMMA BoundKept ==
  ASSUME TypeOK, TypeOK', BoundInv, NEW R, CopiesKept(R)
  PROVE  BoundInv'
<1>0. ASSUME NEW c \in DOMAIN clusters' PROVE clusters'[c].incarnation # 0
  <2>1. CASE c \notin DOMAIN clusters
    BY <2>1, Zenon DEF CopiesKept
  <2>2. CASE c \in DOMAIN clusters
    <3>1. clusters[c].incarnation # 0 /\ clusters[c].incarnation <= clusters'[c].incarnation
      BY <2>2, Zenon DEF BoundInv, CopiesKept
    <3>2. clusters[c].incarnation \in Nat
      BY <2>2, IncarnationsTyped, Zenon
    <3> QED  BY <3>1, <3>2
  <2> QED  BY <2>1, <2>2, Zenon
<1> SUFFICES ASSUME NEW r \in DOMAIN replicas'
             PROVE  /\ replicas'[r].cluster \in DOMAIN clusters'
                    /\ replicas'[r].incarnation <= clusters'[replicas'[r].cluster].incarnation
  BY <1>0, Zenon DEF BoundInv
<1>1. CASE r \notin DOMAIN replicas
  BY <1>1, Zenon DEF CopiesKept
<1>2. CASE r \in DOMAIN replicas
  <2> DEFINE c == replicas[r].cluster
  <2>1. c \in DOMAIN clusters /\ replicas[r].incarnation <= clusters[c].incarnation
    BY <1>2, Zenon DEF BoundInv
  <2>2. replicas'[r].cluster = c /\ replicas'[r].incarnation = replicas[r].incarnation
    BY <1>2, Zenon DEF CopiesKept
  <2>3. c \in DOMAIN clusters' /\ clusters[c].incarnation <= clusters'[c].incarnation
    BY <2>1, Zenon DEF CopiesKept
  <2>4. /\ clusters[c].incarnation \in Nat /\ replicas[r].incarnation \in Nat
        /\ clusters'[c].incarnation \in Nat
    <3>1. clusters[c].incarnation \in Nat /\ replicas[r].incarnation \in Nat
      BY <1>2, <2>1, IncarnationsTyped, Zenon
    <3>2. IsMap(clusters', Cluster, ClusterRecord)
      BY Zenon DEF TypeOK
    <3>3. clusters'[c] \in ClusterRecord
      BY <2>3, <3>2, MapEntry, Zenon
    <3> QED  BY <3>1, <3>3, Zenon DEF ClusterRecord
  <2> HIDE DEF c
  <2> QED  BY <2>1, <2>2, <2>3, <2>4
<1> QED  BY <1>1, <1>2, Zenon

\* A transfer that nothing moves stays in one place.
LEMMA PlaceKept ==
  ASSUME NEW r, OnePlace(r), Finished(r)' => Finished(r),
         \A x \in Client : Sends(x, r)' => Sends(x, r),
         \A a \in Agent : Awaits(a, r)' => Awaits(a, r),
         \A a \in Agent : Executes(a, r)' => Executes(a, r)
  PROVE  OnePlace(r)'
BY Zenon DEF OnePlace

\* The transfers into replicas outside M are left where they are, and those into replicas of
\* M move to one place.
LEMMA TransferKept ==
  ASSUME TransferInv, NEW M, \A r : IsCopy(r) => IsCopy(r)',
         \A r \in NamedReplica \cap M : OnePlace(r)' /\ IsCopy(r)',
         \A r \in NamedReplica \ M : Finished(r)' => Finished(r),
         \A x \in Client, r \in NamedReplica \ M : Sends(x, r)' => Sends(x, r),
         \A a \in Agent, r \in NamedReplica \ M : Awaits(a, r)' => Awaits(a, r),
         \A a \in Agent, r \in NamedReplica \ M : Executes(a, r)' => Executes(a, r),
         \A a \in Agent, r \in NamedReplica \ M : \A f \in Frames(up'[a]) :
           MatchFor(f, r) => f \in Frames(up[a]),
         \A a \in Agent : NoRepeat(down'[a])
  PROVE  TransferInv'
<1> SUFFICES ASSUME NEW r \in NamedReplica
             PROVE  /\ OnePlace(r)'
                    /\ \A x \in Client : Sends(x, r)' => IsCopy(r)'
                    /\ \A a \in Agent : Awaits(a, r)' \/ Executes(a, r)' => IsCopy(r)'
                    /\ \A a \in Agent : \A f \in Frames(up'[a]) : MatchFor(f, r) => IsCopy(r)'
  BY Zenon DEF TransferInv, MatchFor
<1>1. CASE r \in M
  BY <1>1, Zenon
<1>2. CASE r \notin M
  <2>1. OnePlace(r)
    BY Zenon DEF TransferInv
  <2>2. OnePlace(r)'
    BY <1>2, <2>1, PlaceKept, Zenon
  <2>3. \A x \in Client : Sends(x, r)' => IsCopy(r)'
    BY <1>2, Zenon DEF TransferInv
  <2>4. \A a \in Agent : Awaits(a, r)' \/ Executes(a, r)' => IsCopy(r)'
    BY <1>2, Zenon DEF TransferInv
  <2>5. \A a \in Agent : \A f \in Frames(up'[a]) : MatchFor(f, r) => IsCopy(r)'
    BY <1>2, Zenon DEF TransferInv
  <2> QED  BY <2>2, <2>3, <2>4, <2>5, Zenon
<1> QED  BY <1>1, <1>2, Zenon

\* Claims that nobody adds stay those of one id.
LEMMA ClaimKept ==
  ASSUME TypeOK, TypeOK', ClaimInv, NEW R, CopiesKept(R), BootsKept,
         \A a \in Agent, n \in Nat : Claims(a, n)' => Claims(a, n)
  PROVE  ClaimInv'
<1>1. ASSUME NEW a \in Agent, NEW n \in Nat, Claims(a, n)'
      PROVE  LET c == ClusterOf[a] IN
             /\ c \in DOMAIN clusters' /\ n <= clusters'[c].incarnation
             /\ n = clusters'[c].incarnation => boots'[c] = ProcessId[a]
  <2> DEFINE c == ClusterOf[a]
  <2>1. /\ c \in DOMAIN clusters /\ n <= clusters[c].incarnation
        /\ n = clusters[c].incarnation => boots[c] = ProcessId[a]
    BY <1>1, Zenon DEF ClaimInv
  <2>2. c \in DOMAIN clusters' /\ clusters[c].incarnation <= clusters'[c].incarnation
    BY <2>1, Zenon DEF CopiesKept
  <2>3. clusters[c].incarnation \in Nat
    BY <2>1, IncarnationsTyped, Zenon
  <2>4. clusters'[c].incarnation \in Nat
    <3>1. IsMap(clusters', Cluster, ClusterRecord)
      BY Zenon DEF TypeOK
    <3>2. clusters'[c] \in ClusterRecord
      BY <2>2, <3>1, MapEntry, Zenon
    <3> QED  BY <3>2, Zenon DEF ClusterRecord
  <2>5. clusters'[c].incarnation = clusters[c].incarnation => boots'[c] = boots[c]
    BY <2>1, Zenon DEF BootsKept
  <2> HIDE DEF c
  <2>6. /\ c \in DOMAIN clusters' /\ n <= clusters'[c].incarnation
        /\ n = clusters'[c].incarnation =>
             clusters'[c].incarnation = clusters[c].incarnation /\ n = clusters[c].incarnation
    BY <2>1, <2>2, <2>3, <2>4
  <2> QED  BY <2>1, <2>5, <2>6, Zenon DEF c
<1>2. ASSUME NEW a \in Agent, NEW b \in Agent, NEW n \in Nat, Claims(a, n)', Claims(b, n)',
             ClusterOf[a] = ClusterOf[b]
      PROVE  ProcessId[a] = ProcessId[b]
  BY <1>2, Zenon DEF ClaimInv
<1> QED  BY <1>1, <1>2, Zenon DEF ClaimInv

\* The bytes of written copies stay stored: the copies the plane writes have a holder, and an
\* agent that serves keeps its incarnation and its bytes.
LEMMA BytesKept ==
  ASSUME ProcessInv, BytesInv, NEW R, CopiesKept(R),
         \A r \in R : \E a \in Agent : Holder(a, r),
         \A a \in Agent :
           /\ agent[a] \notin Unregistered =>
                agent'[a] \notin Unregistered /\ incarnation'[a] = incarnation[a]
           /\ agent'[a] \in Serving => agent[a] \in Serving \cup {"evidence"}
           /\ agent'[a] \in Serving /\ agent[a] \in Serving =>
                \A r \in NamedReplica : IsCopy(r) /\ Stored(a, r) => Stored(a, r)',
         TransferInv,
         \A a \in Agent, r \in NamedReplica : \A f \in Frames(up'[a]) :
           MatchFor(f, r) => f \in Frames(up[a])
  PROVE  BytesInv'
<1> USE DEF ProcessInv
<1>1. \A r \in DOMAIN replicas :
        /\ r \in DOMAIN replicas' /\ replicas'[r].cluster = replicas[r].cluster
        /\ replicas'[r].incarnation = replicas[r].incarnation
        /\ replicas'[r].operation = replicas[r].operation /\ r \in NamedReplica
  BY Zenon DEF CopiesKept, TypeOK, IsMap, NamedReplica
<1>2. \A r : (IsCopy(r) => IsCopy(r)') /\ (r \notin R /\ Recorded(r)' => Recorded(r))
  BY CopiesStep, Zenon
<1>3. ASSUME NEW r \in ReplicaId, Recorded(r)'
      PROVE  \E a \in Agent : Holder(a, r)'
  <2>1. IsCopy(r) /\ r \in DOMAIN replicas /\ (r \notin R => Recorded(r))
    BY <1>1, <1>2, <1>3, Zenon DEF Recorded, IsCopy, CopiesKept
  <2>2. PICK a \in Agent : Holder(a, r)
    BY <2>1, Zenon DEF BytesInv
  <2>3. agent[a] \notin Unregistered /\ (agent[a] \in Serving => Stored(a, r))
    BY <2>2, Zenon DEF Holder, HeldBy
  <2>4. agent'[a] \notin Unregistered /\ incarnation'[a] = incarnation[a]
    BY <2>3, Zenon
  <2>5. agent'[a] \in Serving => Stored(a, r)'
    BY <1>1, <2>1, <2>3, Zenon DEF Unregistered
  <2>6. ClusterOf[a] = replicas'[r].cluster /\ incarnation'[a] = replicas'[r].incarnation
    BY <1>1, <2>1, <2>2, <2>4, Zenon DEF Holder
  <2> QED  BY <2>4, <2>5, <2>6, Zenon DEF Holder, HeldBy
<1>4. ASSUME NEW a \in Agent, NEW r \in NamedReplica, NEW f \in Frames(up'[a]), MatchFor(f, r)
      PROVE  incarnation'[a] # 0 /\ (agent'[a] \in Serving => Stored(a, r)')
  <2>1. f \in Frames(up[a]) /\ a \in Client
    BY <1>4, Zenon DEF Client
  <2>2. UpFrame(a, f)
    BY <2>1, Zenon DEF QueueInv
  <2>3. agent[a] \notin Unregistered
    BY <1>4, <2>2, Peers, Zenon DEF UpFrame, IsReport, MatchFor
  <2>4. IsCopy(r)
    BY <1>4, <2>1, Zenon DEF TransferInv
  <2>5. incarnation[a] # 0 /\ (agent[a] \in Serving => Stored(a, r))
    BY <1>4, <2>1, Zenon DEF BytesInv
  <2> QED  BY <2>3, <2>4, <2>5, Zenon DEF Unregistered
<1>5. \A h \in Hosting : h[2] \in DOMAIN replicas' /\ replicas'[h[2]].operation = 0
  BY <1>1, Zenon DEF BytesInv
<1> QED  BY <1>3, <1>4, <1>5, Zenon DEF BytesInv, MatchFor

-----------------------------------------------------------------------------
(* Queues of intents *)

\* A queue in which no intent is repeated has none after another transfer's is added.
LEMMA RepeatAppend ==
  ASSUME NEW s \in Seq(FrameRecord), NEW f \in FrameRecord, NoRepeat(s),
         f.type = "TRANSFER_INTENT" => \A g \in Frames(s) : ~IntentFor(g, f.replica)
  PROVE  NoRepeat(Append(s, f))
<1> DEFINE t == Append(s, f)
           n == Len(s)
<1>1. n \in Nat /\ DOMAIN s = 1 .. n /\ DOMAIN t = 1 .. n + 1
  OBVIOUS
<1>2. t[n + 1] = f /\ \A i \in 1 .. n : t[i] = s[i]
  OBVIOUS
<1>3. \A i \in 1 .. n : s[i] \in Frames(s)
  BY <1>1, Zenon DEF Frames
<1> HIDE DEF t, n
<1>4. ASSUME NEW i \in DOMAIN t, NEW j \in DOMAIN t, t[i].type = "TRANSFER_INTENT",
             IntentFor(t[j], t[i].replica)
      PROVE  i = j
  <2>1. CASE i \in 1 .. n /\ j \in 1 .. n
    BY <1>1, <1>2, <1>4, <2>1, Zenon DEF NoRepeat
  <2>2. CASE i = n + 1 /\ j \in 1 .. n
    BY <1>2, <1>3, <1>4, <2>2, Zenon
  <2>3. CASE i \in 1 .. n /\ j = n + 1
    BY <1>2, <1>3, <1>4, <2>3, Zenon DEF IntentFor
  <2> QED  BY <1>1, <1>4, <2>1, <2>2, <2>3
<1>5. NoRepeat(t)
  BY <1>4, Zenon DEF NoRepeat
<1> QED  BY <1>5, Zenon DEF t

\* Nor has what is left when its first frame is taken, and it has not that frame's.
LEMMA RepeatTail ==
  ASSUME NEW s \in Seq(FrameRecord), s # << >>, NoRepeat(s)
  PROVE  /\ NoRepeat(Tail(s))
         /\ Head(s).type = "TRANSFER_INTENT" =>
              \A g \in Frames(Tail(s)) : ~IntentFor(g, Head(s).replica)
<1> DEFINE t == Tail(s)
           n == Len(t)
<1>1. n \in Nat /\ DOMAIN t = 1 .. n /\ DOMAIN s = 1 .. n + 1
  OBVIOUS
<1>2. Head(s) = s[1] /\ \A i \in 1 .. n : t[i] = s[i + 1]
  OBVIOUS
<1> HIDE DEF t, n
<1>3. NoRepeat(t)
  <2>1. ASSUME NEW i \in DOMAIN t, NEW j \in DOMAIN t, t[i].type = "TRANSFER_INTENT",
               IntentFor(t[j], t[i].replica)
        PROVE  i = j
    <3>1. i + 1 \in DOMAIN s /\ j + 1 \in DOMAIN s /\ i \in Nat /\ j \in Nat
      BY <1>1, <2>1
    <3>2. t[i] = s[i + 1] /\ t[j] = s[j + 1]
      BY <1>1, <1>2, <2>1, Zenon
    <3>3. i + 1 = j + 1
      BY <2>1, <3>1, <3>2, Zenon DEF NoRepeat
    <3> QED  BY <3>1, <3>3
  <2> QED  BY <2>1, Zenon DEF NoRepeat
<1>4. ASSUME Head(s).type = "TRANSFER_INTENT", NEW g \in Frames(t),
             IntentFor(g, Head(s).replica)
      PROVE  FALSE
  <2>1. PICK i \in 1 .. n : g = s[i + 1]
    BY <1>1, <1>2, <1>4, Zenon DEF Frames
  <2>2. 1 \in DOMAIN s /\ i + 1 \in DOMAIN s /\ 1 # i + 1
    BY <1>1, <2>1
  <2> QED  BY <1>2, <1>4, <2>1, <2>2, Zenon DEF NoRepeat
<1> QED  BY <1>3, <1>4, Zenon DEF t

\* An empty queue repeats nothing.
LEMMA RepeatEmpty == NoRepeat(<< >>)
BY DEF NoRepeat

\* No frame that is sent repeats an intent under way.
LEMMA RepeatSends ==
  ASSUME QueueInv, TransferInv, NEW y \in Client, NEW f \in FrameRecord, NEW sent \in BOOLEAN,
         server_sends(y, f, sent),
         f.type = "TRANSFER_INTENT" => \A a \in Agent : ~Awaits(a, f.replica)
  PROVE  \A a \in Agent : NoRepeat(down'[a])
<1> SUFFICES ASSUME NEW a \in Agent PROVE NoRepeat(down'[a])
  BY Zenon
<1>1. down \in [Client -> Seq(FrameRecord)] /\ a \in Client /\ NoRepeat(down[a])
  BY Zenon DEF QueueInv, TransferInv, Client
<1>2. CASE down'[a] = down[a]
  BY <1>1, <1>2, Zenon
<1>3. CASE down'[a] = Append(down[a], f)
  <2>1. f.type = "TRANSFER_INTENT" => \A g \in Frames(down[a]) : ~IntentFor(g, f.replica)
    BY Zenon DEF Awaits
  <2>2. down[a] \in Seq(FrameRecord)
    BY <1>1, Zenon
  <2>3. NoRepeat(Append(down[a], f))
    BY <1>1, <2>1, <2>2, RepeatAppend, Zenon
  <2> QED  BY <1>3, <2>3, Zenon
<1>4. down'[a] = down[a] \/ down'[a] = Append(down[a], f)
  BY <1>1, Zenon DEF server_sends
<1> QED  BY <1>2, <1>3, <1>4, Zenon

\* Neither does receiving a frame, nor closing.
LEMMA RepeatTaken ==
  ASSUME QueueInv, TransferInv, NEW x \in Client,
         client_receives(x) \/ client_closes(x) \/ UNCHANGED down
  PROVE  \A a \in Agent : NoRepeat(down'[a])
<1> SUFFICES ASSUME NEW a \in Agent PROVE NoRepeat(down'[a])
  BY Zenon
<1>1. down \in [Client -> Seq(FrameRecord)] /\ a \in Client /\ NoRepeat(down[a])
  BY Zenon DEF QueueInv, TransferInv, Client
<1>2. CASE down[a] # << >> /\ down'[a] = Tail(down[a])
  <2>1. down[a] \in Seq(FrameRecord)
    BY <1>1, Zenon
  <2>2. NoRepeat(Tail(down[a]))
    BY <1>1, <1>2, <2>1, RepeatTail, Zenon
  <2> QED  BY <1>2, <2>2, Zenon
<1>3. \/ down'[a] = down[a] \/ down'[a] = << >>
      \/ down[a] # << >> /\ down'[a] = Tail(down[a])
  BY <1>1, Zenon DEF client_receives, client_closes
<1> QED  BY <1>1, <1>2, <1>3, RepeatEmpty, Zenon

-----------------------------------------------------------------------------
(* Workers *)

\* No worker takes up a transfer or a registration, and none holds a reply to a HELLO that it
\* did not hold.
StaysPut ==
  \A z \in Client :
    /\ worker'[z] \in {"lookup", "intent"} =>
         /\ worker[z] \in {"lookup", "intent"}
         /\ work'[z].replica = work[z].replica /\ work'[z].type = work[z].type
    /\ worker'[z] \in {"hello", "hello_ack"} =>
         worker[z] \in {"hello", "hello_ack"} /\ work'[z] = work[z]
    /\ worker'[z] = "acknowledge" => work'[z].type # "HELLO_ACK"

\* It is enough that the worker that moves does not.
LEMMA OthersStayPut ==
  ASSUME GivenInv, NEW x \in Client, NEW pc, Moves(x, pc), Holds(x),
         pc \in {"lookup", "intent"} =>
           /\ worker[x] \in {"lookup", "intent"}
           /\ work'[x].replica = work[x].replica /\ work'[x].type = work[x].type,
         pc \in {"hello", "hello_ack"} =>
           worker[x] \in {"hello", "hello_ack"} /\ work'[x] = work[x],
         pc = "acknowledge" => work'[x].type # "HELLO_ACK"
  PROVE  StaysPut
<1> SUFFICES ASSUME NEW z \in Client
             PROVE  /\ worker'[z] \in {"lookup", "intent"} =>
                         /\ worker[z] \in {"lookup", "intent"}
                         /\ work'[z].replica = work[z].replica /\ work'[z].type = work[z].type
                    /\ worker'[z] \in {"hello", "hello_ack"} =>
                         worker[z] \in {"hello", "hello_ack"} /\ work'[z] = work[z]
                    /\ worker'[z] = "acknowledge" => work'[z].type # "HELLO_ACK"
  BY Zenon DEF StaysPut
<1>1. CASE z = x
  BY <1>1, Zenon DEF Moves
<1>2. CASE z # x
  BY <1>2, Zenon DEF Moves, Holds, GivenInv
<1> QED  BY <1>1, <1>2, Zenon

\* Nobody claims an incarnation that was not given.
LEMMA ClaimsStay ==
  ASSUME StaysPut, UNCHANGED incarnation, NEW y \in Client, NEW G, DownStep(y, G),
         \A f \in G : f.type # "HELLO_ACK"
  PROVE  \A a \in Agent, n \in Nat : Claims(a, n)' => Claims(a, n)
<1>1. \A a \in Agent : \A f \in Frames(down'[a]) : f.type = "HELLO_ACK" => f \in Frames(down[a])
  BY Zenon DEF DownStep, Client
<1>2. \A a \in Agent : worker'[a] \in {"hello", "hello_ack"} =>
        worker[a] \in {"hello", "hello_ack"} /\ work'[a] = work[a]
  BY Zenon DEF StaysPut, Client
<1> QED  BY <1>1, <1>2, Zenon DEF Claims

\* Every process that serves was still given its incarnation.
LEMMA GivenStays ==
  ASSUME GivenInv, StaysPut, UNCHANGED <<incarnation, agent>>,
         NEW y \in Client, NEW G, DownStep(y, G), \A f \in G : f.type # "HELLO_ACK"
  PROVE  GivenInv'
<1>1. \A a \in Agent : \A f \in Frames(down'[a]) : f.type = "HELLO_ACK" => f \in Frames(down[a])
  BY Zenon DEF DownStep, Client
<1>2. \A a \in Agent :
        /\ agent'[a] \in Serving \cup {"evidence"} => incarnation'[a] # 0
        /\ worker'[a] \in {"hello", "hello_ack"} => work'[a].incarnation # 0
        /\ \A f \in Frames(down'[a]) : f.type = "HELLO_ACK" => f.incarnation # 0
  BY <1>1, Zenon DEF GivenInv, StaysPut, Client
<1>3. \A x \in Client :
        worker'[x] \in {"acknowledge", "lookup", "intent"} => work'[x].type # "HELLO_ACK"
  BY Zenon DEF GivenInv, StaysPut
<1> QED  BY <1>2, <1>3, Zenon DEF GivenInv

\* Requests under way stay what they are.
LEMMA ScriptStays ==
  ASSUME ScriptInv, UNCHANGED script, NEW x \in Client, NEW F, UpStep(x, F),
         x \in Controller => \A f \in F : f.request \notin Vouching
  PROVE  ScriptInv'
BY Zenon DEF ScriptInv, UpStep, Client

\* The results under way are those that were sent.
LEMMA MatchesStay ==
  ASSUME NEW x \in Client, NEW F, UpStep(x, F),
         x \in Agent => \A f \in F : \A r : ~MatchFor(f, r)
  PROVE  \A a \in Agent : \A f \in Frames(up'[a]) : \A r : MatchFor(f, r) => f \in Frames(up[a])
BY Zenon DEF UpStep, Client

\* No transfer is finished but by a result.
LEMMA FinishedStays ==
  ASSUME NEW R, CopiesKept(R),
         \A a \in Agent : \A f \in Frames(up'[a]) : \A r : MatchFor(f, r) => f \in Frames(up[a]),
         \A r \in R : Finished(r)
  PROVE  \A r : Finished(r)' => Finished(r)
<1>1. \A r : r \notin R /\ Recorded(r)' => Recorded(r)
  BY CopiesStep, Zenon
<1> QED  BY <1>1, Zenon DEF Finished, MatchFor

\* The transfers into the copies of R are finished, and the copies have a holder.
Justified(R) == \A r \in R : Finished(r) /\ \E a \in Agent : Holder(a, r)

\* Frames that start no transfer and give no incarnation.
Ordinary(G) == \A f \in G : f.type \notin {"TRANSFER_INTENT", "HELLO_ACK"}

\* A worker that moves no transfer and gives no incarnation keeps the invariant.
LEMMA WorkerKeepsCopies ==
  ASSUME ProcessInv, ProcessInv', CopyInv, UNCHANGED <<agent_vars, controller_vars>>,
         NEW R, CopiesKept(R), BootsKept, Justified(R),
         NEW x \in Client, UpStep(x, {}),
         NEW y \in Client, NEW G, DownStep(y, G),
         Ordinary(G),
         \A a \in Agent : NoRepeat(down'[a]), StaysPut
  PROVE  CopyInv'
<1> USE DEF CopyInv, Ordinary
<1>1. TypeOK /\ TypeOK'
  BY Zenon DEF ProcessInv
<1>2. UNCHANGED <<agent, incarnation, transfer, store, script>>
  BY Zenon DEF agent_vars, controller_vars
<1>3. \A a \in Agent, n \in Nat : Claims(a, n)' => Claims(a, n)
  BY <1>2, ClaimsStay, Zenon
<1>4. \A a \in Agent : \A f \in Frames(up'[a]) : \A r : MatchFor(f, r) => f \in Frames(up[a])
  BY MatchesStay, Zenon
<1>5. ClaimInv'
  BY <1>1, <1>3, ClaimKept, Zenon
<1>6. GivenInv'
  BY <1>2, GivenStays, Zenon
<1>7. BoundInv'
  BY <1>1, BoundKept, Zenon
<1>8. ScriptInv'
  BY <1>2, ScriptStays, Zenon
<1>9. BytesInv'
  <2>1. \A a \in Agent :
           /\ agent[a] \notin Unregistered =>
                agent'[a] \notin Unregistered /\ incarnation'[a] = incarnation[a]
           /\ agent'[a] \in Serving => agent[a] \in Serving \cup {"evidence"}
           /\ agent'[a] \in Serving /\ agent[a] \in Serving =>
                \A r \in NamedReplica : IsCopy(r) /\ Stored(a, r) => Stored(a, r)'
    BY <1>2, Zenon DEF Stored
  <2> QED  BY <1>3, <1>4, <2>1, BytesKept, Zenon DEF Justified
<1>10. TransferInv'
  <2>1. \A r : IsCopy(r) => IsCopy(r)'
    BY CopiesStep, Zenon
  <2>2. \A r \in NamedReplica : Finished(r)' => Finished(r)
    BY <1>4, FinishedStays, Zenon DEF Justified
  <2>3. \A z \in Client, r \in NamedReplica : Sends(z, r)' => Sends(z, r)
    BY Zenon DEF StaysPut, Sends
  <2>4. \A a \in Agent, r \in NamedReplica : Awaits(a, r)' => Awaits(a, r)
    BY Zenon DEF DownStep, Awaits, IntentFor, Client
  <2>5. \A a \in Agent, r \in NamedReplica : Executes(a, r)' => Executes(a, r)
    BY <1>2, Zenon DEF Executes
  <2>6. \A a \in Agent, r \in NamedReplica : \A f \in Frames(up'[a]) :
          MatchFor(f, r) => f \in Frames(up[a])
    BY <1>4, Zenon
  <2>7. NamedReplica \cap {} = {} /\ NamedReplica \ {} = NamedReplica
    BY Zenon
  <2> QED  BY <2>1, <2>2, <2>3, <2>4, <2>5, <2>6, <2>7, TransferKept, Zenon
<1> QED  BY <1>5, <1>6, <1>7, <1>8, <1>9, <1>10, Zenon

\* A worker that neither touches the plane nor sends keeps the invariant.
LEMMA SilentWorker ==
  ASSUME ProcessInv, ProcessInv', CopyInv, UNCHANGED <<agent_vars, controller_vars>>,
         NEW x \in Client, UNCHANGED <<vars, boots, down>>, UpStep(x, {}), StaysPut
  PROVE  CopyInv'
<1>1. TypeOK /\ QueueInv /\ TransferInv /\ UNCHANGED down
  BY Zenon DEF ProcessInv, CopyInv
<1>2. CopiesKept({}) /\ BootsKept
  BY <1>1, CopiesUnchanged, Zenon DEF vars, BootsKept
<1>3. DownStep(x, {})
  BY <1>1, DownUnchanged, Zenon
<1>4. \A a \in Agent : NoRepeat(down'[a])
  BY <1>1, RepeatTaken, Zenon
<1>5. Justified({}) /\ Ordinary({})
  BY Zenon DEF Justified, Ordinary
<1> QED  BY <1>2, <1>3, <1>4, <1>5, WorkerKeepsCopies, Zenon

\* So does one that sends a reply, or any frame but an intent and the reply to a HELLO.
LEMMA ReplyingWorker ==
  ASSUME ProcessInv, ProcessInv', CopyInv, UNCHANGED <<agent_vars, controller_vars>>,
         NEW x \in Client, UNCHANGED <<vars, boots, up>>, StaysPut,
         NEW f \in FrameRecord, f.type \notin {"TRANSFER_INTENT", "HELLO_ACK"},
         \E sent \in BOOLEAN : server_sends(x, f, sent)
  PROVE  CopyInv'
<1>1. TypeOK /\ QueueInv /\ TransferInv /\ UNCHANGED up
  BY Zenon DEF ProcessInv, CopyInv
<1>2. CopiesKept({}) /\ BootsKept
  BY <1>1, CopiesUnchanged, Zenon DEF vars, BootsKept
<1>3. DownStep(x, {f})
  BY <1>1, ServerSends, Zenon
<1>4. \A a \in Agent : NoRepeat(down'[a])
  BY <1>1, RepeatSends, Zenon
<1>5. UpStep(x, {})
  BY <1>1, UpUnchanged, Zenon
<1>6. Justified({}) /\ Ordinary({f})
  BY Zenon DEF Justified, Ordinary
<1> QED  BY <1>2, <1>3, <1>4, <1>5, <1>6, WorkerKeepsCopies, Zenon

\* A worker that takes a frame and lets the plane write copies that are stored keeps the
\* invariant.
LEMMA ReceivingWorker ==
  ASSUME ProcessInv, ProcessInv', CopyInv, UNCHANGED <<agent_vars, controller_vars>>,
         NEW R, CopiesKept(R), BootsKept, Justified(R),
         NEW x \in Client, server_receives(x), UNCHANGED down, StaysPut
  PROVE  CopyInv'
<1>1. QueueInv /\ TransferInv
  BY Zenon DEF ProcessInv, CopyInv
<1>2. UpStep(x, {}) /\ DownStep(x, {})
  BY <1>1, ServerReceives, DownUnchanged, Zenon
<1>3. \A a \in Agent : NoRepeat(down'[a])
  BY <1>1, RepeatTaken, Zenon
<1>4. Ordinary({})
  BY Zenon DEF Ordinary
<1> QED  BY <1>2, <1>3, <1>4, WorkerKeepsCopies, Zenon

\* Accepting, waiting and going on after an answer.
LEMMA WaitingKeepsCopies ==
  ASSUME ProcessInv, ProcessInv', CopyInv, UNCHANGED <<agent_vars, controller_vars>>,
         NEW x \in Client,
         accept(x) \/ await_check(x) \/ await_sleep(x) \/ enter_session(x)
  PROVE  CopyInv'
<1>1. CoordinatorInv /\ QueueInv /\ GivenInv /\ UNCHANGED <<vars, boots, up, down, work, target>>
  BY Zenon DEF ProcessInv, CopyInv, accept, await_check, await_sleep, enter_session, transport
<1>2. PICK pc \in {"first", "respond", "sleep", "asleep", "hello_ack"} :
        Goto(x, pc) /\ (pc = "hello_ack" => worker[x] = "hello")
  BY Zenon DEF accept, await_check, await_sleep, enter_session
<1>3. pc \in WorkerState
  BY Zenon DEF WorkerState, ControlStates, SessionStates
<1>4. Moves(x, pc) /\ Holds(x)
  <2>1. Moves(x, pc)
    BY <1>1, <1>2, <1>3, GotoMoves, Zenon
  <2>2. Holds(x)
    BY <1>1, HoldHolds, FrameTyped, Zenon DEF FrameType
  <2> QED  BY <2>1, <2>2, Zenon
<1>5. StaysPut
  BY <1>1, <1>2, <1>4, OthersStayPut, Zenon
<1>6. UpStep(x, {})
  BY <1>1, UpUnchanged, Zenon
<1> QED  BY <1>1, <1>5, <1>6, SilentWorker, Zenon

\* Leaving, and shutting down after an answer.
LEMMA ClosingKeepsCopies ==
  ASSUME ProcessInv, ProcessInv', CopyInv, UNCHANGED <<agent_vars, controller_vars>>,
         NEW x \in Client, leave(x) \/ after_answer(x)
  PROVE  CopyInv'
<1>1. CoordinatorInv /\ QueueInv /\ GivenInv /\ UNCHANGED <<vars, boots, down, work, target>>
  BY Zenon DEF ProcessInv, CopyInv, leave, after_answer
<1>2. PICK pc \in {"done", "leave", "control"} : Goto(x, pc)
  BY Zenon DEF leave, after_answer
<1>3. pc \in WorkerState
  BY Zenon DEF WorkerState, ControlStates, SessionStates
<1>4. Moves(x, pc) /\ Holds(x)
  <2>1. Moves(x, pc)
    BY <1>1, <1>2, <1>3, GotoMoves, Zenon
  <2>2. Holds(x)
    BY <1>1, HoldHolds, FrameTyped, Zenon DEF FrameType
  <2> QED  BY <2>1, <2>2, Zenon
<1>5. StaysPut
  BY <1>1, <1>4, OthersStayPut, Zenon
<1>6. (\E X : server_closes(X)) \/ UNCHANGED up
  BY Zenon DEF leave, after_answer
<1>7. UpStep(x, {})
  BY <1>1, <1>6, UpUnchanged, ServerCloses, Zenon
<1> QED  BY <1>1, <1>5, <1>7, SilentWorker, Zenon

\* Queries, shutdown requests and waits.
LEMMA QueryKeepsCopies ==
  ASSUME ProcessInv, ProcessInv', CopyInv, UNCHANGED <<agent_vars, controller_vars>>,
         NEW x \in Client, dispatch_query(x) \/ dispatch_shutdown(x) \/ dispatch_await(x)
  PROVE  CopyInv'
<1>1. /\ CoordinatorInv /\ QueueInv /\ GivenInv /\ UNCHANGED <<vars, boots, down, target>>
      /\ server_receives(x)
  BY Zenon DEF ProcessInv, CopyInv, dispatch_query, dispatch_shutdown, dispatch_await,
         takes_request
<1>2. PICK pc \in {"respond", "check"} : Goto(x, pc)
  BY Zenon DEF dispatch_query, dispatch_shutdown, dispatch_await
<1>3. UNCHANGED work \/ Hold(x, Head(up[x]))
  BY Zenon DEF dispatch_query, dispatch_shutdown, dispatch_await
<1>4. UpStep(x, {}) /\ Head(up[x]) \in FrameRecord
  BY <1>1, ServerReceives, Zenon
<1>5. Moves(x, pc) /\ Holds(x)
  <2>1. pc \in WorkerState
    BY Zenon DEF WorkerState, ControlStates, SessionStates
  <2>2. Moves(x, pc)
    BY <1>1, <1>2, <2>1, GotoMoves, Zenon
  <2>3. Holds(x)
    BY <1>1, <1>3, <1>4, HoldHolds, Zenon
  <2> QED  BY <2>2, <2>3, Zenon
<1>6. StaysPut
  BY <1>1, <1>5, OthersStayPut, Zenon
<1> QED  BY <1>1, <1>4, <1>6, SilentWorker, Zenon

\* The lookup of the sessions leaves the transfer with the worker that made it, or drops it.
LEMMA LookupKeepsCopies ==
  ASSUME ProcessInv, ProcessInv', CopyInv, UNCHANGED <<agent_vars, controller_vars>>,
         NEW x \in Client, lookup_sessions(x)
  PROVE  CopyInv'
<1>1. CoordinatorInv /\ CoordinatorInv' /\ QueueInv /\ GivenInv /\ UNCHANGED <<vars, boots, up, down>>
  BY Zenon DEF ProcessInv, CopyInv, lookup_sessions, transport
<1>2. worker[x] = "lookup" /\ work[x] \in FrameRecord
  BY <1>1, Zenon DEF lookup_sessions, CoordinatorInv
<1>3. UpStep(x, {})
  BY <1>1, UpUnchanged, Zenon
<1>4. CASE Goto(x, "respond") /\ UNCHANGED <<work, target>>
  <2>1. "respond" \in WorkerState
    BY Zenon DEF WorkerState, ControlStates
  <2>2. Moves(x, "respond")
    BY <1>1, <1>4, <2>1, GotoMoves, Zenon
  <2>3. Holds(x)
    BY <1>1, <1>2, <1>4, HoldHolds, Zenon
  <2>4. StaysPut
    BY <1>1, <2>2, <2>3, OthersStayPut, Zenon
  <2> QED  BY <1>1, <1>3, <2>4, SilentWorker, Zenon
<1>5. CASE ~(Goto(x, "respond") /\ UNCHANGED <<work, target>>)
  <2>1. PICK s, p, t : /\ Goto(x, "intent") /\ target' = [target EXCEPT ![x] = t]
                       /\ Hold(x, [work[x] EXCEPT !.source = s, !.peer = p])
    BY <1>5, Zenon DEF lookup_sessions
  <2>2. "intent" \in WorkerState
    BY Zenon DEF WorkerState, ControlStates
  <2>3. Moves(x, "intent")
    BY <1>1, <2>1, <2>2, GotoMoves, Zenon
  <2>4. /\ work'[x].replica = work[x].replica /\ work'[x].type = work[x].type
        /\ Holds(x)
    <3>1. work \in [Client -> FrameRecord] /\ work' \in [Client -> FrameRecord]
          /\ target \in [Client -> Client] /\ target' \in [Client -> Client]
      BY <1>1, Zenon DEF CoordinatorInv
    <3>2. work'[x] = [work[x] EXCEPT !.source = s, !.peer = p]
      BY <2>1, <3>1, Zenon DEF Hold
    <3>3. work'[x].replica = work[x].replica /\ work'[x].type = work[x].type
      BY <1>2, <3>2, Zenon DEF FrameRecord
    <3>4. Holds(x)
      BY <2>1, <3>1, Zenon DEF Holds, Hold
    <3> QED  BY <3>3, <3>4, Zenon
  <2>5. StaysPut
    BY <1>1, <1>2, <2>3, <2>4, OthersStayPut, Zenon
  <2> QED  BY <1>1, <1>3, <2>5, SilentWorker, Zenon
<1> QED  BY <1>4, <1>5, Zenon

\* Answers and acknowledgements.
LEMMA AnswerKeepsCopies ==
  ASSUME ProcessInv, ProcessInv', CopyInv, UNCHANGED <<agent_vars, controller_vars>>,
         NEW x \in Client, respond(x) \/ acknowledge(x)
  PROVE  CopyInv'
<1>1. CoordinatorInv /\ QueueInv /\ GivenInv /\ UNCHANGED <<vars, boots, up>> /\ Forget(x)
  BY Zenon DEF ProcessInv, CopyInv, respond, acknowledge
<1>2. PICK pc \in {"answered", "leave", "agent"} : Goto(x, pc) \/ Notify(x, pc)
  BY Zenon DEF respond, acknowledge
<1>3. Moves(x, pc) /\ Holds(x)
  <2>1. pc \in WorkerState
    BY Zenon DEF WorkerState, ControlStates, SessionStates
  <2>2. Moves(x, pc)
    BY <1>1, <1>2, <2>1, GotoMoves, Zenon
  <2>3. Holds(x)
    BY <1>1, ForgetHolds, Zenon
  <2> QED  BY <2>2, <2>3, Zenon
<1>4. StaysPut
  BY <1>1, <1>3, OthersStayPut, Zenon
<1>5. CASE respond(x)
  <2> DEFINE f == Frame("CONTROL_RESPONSE")
  <2>1. f \in FrameRecord /\ f.type \notin {"TRANSFER_INTENT", "HELLO_ACK"}
    BY FrameTyped, Zenon DEF FrameType
  <2>2. \E sent \in BOOLEAN : server_sends(x, f, sent)
    BY <1>5, Zenon DEF respond
  <2> HIDE DEF f
  <2> QED  BY <1>1, <1>4, <2>1, <2>2, ReplyingWorker, Zenon
<1>6. CASE acknowledge(x)
  <2>1. work[x] \in FrameRecord
    BY <1>1, Zenon DEF CoordinatorInv
  <2>2. work[x].type \notin {"TRANSFER_INTENT", "HELLO_ACK"}
    BY <1>1, <1>6, Zenon DEF acknowledge, CoordinatorInv, WorkerInv, SessionStates, GivenInv
  <2>3. \E sent \in BOOLEAN : server_sends(x, work[x], sent)
    BY <1>6, Zenon DEF acknowledge
  <2> QED  BY <1>1, <1>4, <2>1, <2>2, <2>3, ReplyingWorker, Zenon
<1> QED  BY <1>5, <1>6, Zenon

\* A mutation a controller asks for.
LEMMA MutationKeepsCopies ==
  ASSUME ProcessInv, ProcessInv', CopyInv, UNCHANGED <<agent_vars, controller_vars>>,
         NEW x \in Client, dispatch_mutation(x)
  PROVE  CopyInv'
<1>1. /\ CoordinatorInv /\ QueueInv /\ GivenInv /\ TransferInv /\ ScriptInv /\ TypeOK
      /\ server_receives(x) /\ boots \in [Cluster -> BootId]
      /\ UNCHANGED <<down, work, target>>
  BY Zenon DEF ProcessInv, CopyInv, dispatch_mutation, takes_request
<1>2. /\ UpStep(x, {}) /\ UpFrame(x, Head(up[x])) /\ Head(up[x]) \in FrameRecord
      /\ DownStep(x, {})
  BY <1>1, ServerReceives, DownUnchanged, Zenon
<1>3. Head(up[x]).type = "CONTROL_REQUEST" /\ Head(up[x]).request \in Mutations
  BY Zenon DEF dispatch_mutation, takes_request
<1>4. x \in Controller
  BY <1>2, <1>3, Zenon DEF UpFrame, IsReport, Client
<1>5. Head(up[x]) \in Frames(up[x])
  BY <1>1, HeadIsUnderWay, Zenon DEF server_receives
<1>6. Head(up[x]).request \in Mutations \ Vouching
  BY <1>1, <1>3, <1>4, <1>5, Zenon DEF ScriptInv
<1>7. CopiesKept({}) /\ BootsKept
  <2>1. control_mutation(Head(up[x])) \/ UNCHANGED <<vars, boots>>
    BY Zenon DEF dispatch_mutation
  <2>2. CASE control_mutation(Head(up[x]))
    BY <1>1, <1>3, <1>6, <2>2, RequestKeepsCopies, RequestKeepsBoots, Zenon
  <2>3. CASE UNCHANGED <<vars, boots>>
    BY <1>1, <2>3, CopiesUnchanged, Zenon DEF vars, BootsKept
  <2> QED  BY <2>1, <2>2, <2>3, Zenon
<1>8. StaysPut
  <2>1. Moves(x, "respond")
    BY <1>1, MutationIsStep, GotoMoves, Zenon DEF WorkerState, ControlStates
  <2>2. Holds(x)
    BY <1>1, <1>2, HoldHolds, Zenon
  <2> QED  BY <1>1, <2>1, <2>2, OthersStayPut, Zenon
<1>9. Justified({}) /\ UNCHANGED down
  BY <1>1, Zenon DEF Justified
<1> QED  BY <1>1, <1>7, <1>8, <1>9, ReceivingWorker, Zenon

\* A matching result is about bytes that its agent stores.
LEMMA ResultIsHeld ==
  ASSUME ProcessInv, CopyInv, NEW x \in Agent, NEW f \in Frames(up[x]), f \in FrameRecord,
         MatchFor(f, f.replica), IsReport(x, f), names_host(f)
  PROVE  Justified({f.replica})
<1> DEFINE r == f.replica
<1>1. r \in NamedReplica
  BY Zenon DEF FrameRecord
<1>2. agent[x] \in Serving => Stored(x, r)
  BY <1>1, Zenon DEF CopyInv, BytesInv
<1>3. /\ replicas[r].incarnation = incarnation[x] /\ replicas[r].cluster = ClusterOf[x]
      /\ agent[x] \notin Unregistered
  BY Zenon DEF names_host, IsReport, Routed
<1>4. Holder(x, r)
  BY <1>2, <1>3, Zenon DEF Holder, HeldBy
<1>5. Finished(r)
  BY Zenon DEF Finished
<1> QED  BY <1>4, <1>5, Zenon DEF Justified

\* A frame of an agent.
LEMMA AgentFrameKeepsCopies ==
  ASSUME ProcessInv, ProcessInv', CopyInv, UNCHANGED <<agent_vars, controller_vars>>,
         NEW x \in Client, handle_agent_frame(x)
  PROVE  CopyInv'
<1> DEFINE f == Head(up[x])
           ack == Frame(AckOf(f.type))
<1>1. /\ CoordinatorInv /\ QueueInv /\ GivenInv /\ TransferInv /\ TypeOK
      /\ server_receives(x) /\ worker[x] = "agent" /\ UNCHANGED <<down, target, boots>>
      /\ BootsKept
  BY Zenon DEF ProcessInv, CopyInv, handle_agent_frame, BootsKept
<1>2. UpStep(x, {}) /\ UpFrame(x, f) /\ f \in FrameRecord /\ DownStep(x, {})
  BY <1>1, ServerReceives, DownUnchanged, Zenon
<1>3. f \in Frames(up[x])
  BY <1>1, HeadIsUnderWay, Zenon DEF server_receives
<1>5. /\ x \in Agent /\ f.type # "HELLO"
      /\ \/ f.type = "TRANSFER_INTENT_ACK" /\ UNCHANGED <<vars, worker, work>>
         \/ /\ f.type # "TRANSFER_INTENT_ACK"
            /\ UNCHANGED vars \/ reported(x, f)
            /\ Hold(x, ack) /\ Goto(x, "acknowledge")
  BY AgentFrameIsStep, Zenon
<1>6. CASE f.type = "TRANSFER_INTENT_ACK" /\ UNCHANGED <<vars, worker, work>>
  <2>1. StaysPut
    BY <1>1, <1>6, Zenon DEF StaysPut, GivenInv
  <2> QED  BY <1>1, <1>2, <1>6, <2>1, SilentWorker, Zenon
<1>7. CASE /\ f.type # "TRANSFER_INTENT_ACK"
           /\ UNCHANGED vars \/ reported(x, f)
           /\ Hold(x, ack) /\ Goto(x, "acknowledge")
  <2>1. ack \in FrameRecord /\ ack.type # "HELLO_ACK"
    <3>1. f.type \in {"EVIDENCE", "TRANSFER_PROGRESS", "TRANSFER_RESULT", "VERIFY_RESULT"}
      BY <1>2, <1>5, <1>7, Zenon DEF UpFrame, IsReport
    <3>2. AckOf(f.type) \in FrameType /\ AckOf(f.type) # "HELLO_ACK"
      BY <3>1, Zenon DEF AckOf, FrameType
    <3> QED  BY <3>2, FrameTyped, Zenon
  <2>2. StaysPut
    <3> HIDE DEF ack
    <3>1. Moves(x, "acknowledge")
      BY <1>1, <1>7, GotoMoves, Zenon DEF WorkerState, SessionStates
    <3>2. Holds(x)
      BY <1>1, <1>7, <2>1, HoldHolds, Zenon
    <3>3. work'[x] = ack
      BY <1>1, <1>7, Zenon DEF Hold, CoordinatorInv
    <3> QED  BY <1>1, <2>1, <3>1, <3>2, <3>3, OthersStayPut, Zenon
  <2> HIDE DEF f, ack
  <2>3. CASE UNCHANGED vars
    BY <1>1, <1>2, <2>2, <2>3, SilentWorker, Zenon
  <2>4. CASE CopiesKept({})
    <3>1. Justified({})
      BY Zenon DEF Justified
    <3> QED  BY <1>1, <2>2, <2>4, <3>1, ReceivingWorker, Zenon
  <2>5. CASE /\ MatchFor(f, f.replica) /\ IsReport(x, f) /\ names_host(f)
             /\ CopiesKept({f.replica})
    <3>1. Justified({f.replica})
      BY <1>2, <1>3, <1>5, <2>5, ResultIsHeld, Zenon
    <3> QED  BY <1>1, <2>2, <2>5, <3>1, ReceivingWorker, Zenon
  <2> QED  BY <1>1, <1>2, <1>5, <1>7, <2>3, <2>4, <2>5, ReportKeepsCopies, Zenon
<1> QED  BY <1>5, <1>6, <1>7, Zenon

-----------------------------------------------------------------------------
(* Workers that give an incarnation or move a transfer *)

\* The bytes, the bindings and the scripts stay when a worker writes no copy.
LEMMA RecordsStay ==
  ASSUME ProcessInv, ProcessInv', CopyInv, UNCHANGED <<agent_vars, controller_vars>>,
         CopiesKept({}), NEW x \in Client, UpStep(x, {})
  PROVE  BoundInv' /\ ScriptInv' /\ BytesInv'
<1> USE DEF CopyInv
<1>1. TypeOK /\ TypeOK'
  BY Zenon DEF ProcessInv
<1>2. UNCHANGED <<agent, incarnation, transfer, store, script>>
  BY Zenon DEF agent_vars, controller_vars
<1>3. \A a \in Agent : \A f \in Frames(up'[a]) : \A r : MatchFor(f, r) => f \in Frames(up[a])
  BY MatchesStay, Zenon
<1>4. BoundInv'
  BY <1>1, BoundKept, Zenon
<1>5. ScriptInv'
  BY <1>2, ScriptStays, Zenon
<1>6. BytesInv'
  <2>1. \A a \in Agent :
           /\ agent[a] \notin Unregistered =>
                agent'[a] \notin Unregistered /\ incarnation'[a] = incarnation[a]
           /\ agent'[a] \in Serving => agent[a] \in Serving \cup {"evidence"}
           /\ agent'[a] \in Serving /\ agent[a] \in Serving =>
                \A r \in NamedReplica : IsCopy(r) /\ Stored(a, r) => Stored(a, r)'
    BY <1>2, Zenon DEF Stored
  <2> QED  BY <1>3, <2>1, BytesKept, Zenon
<1> QED  BY <1>4, <1>5, <1>6, Zenon

\* No worker takes up a transfer, and no intent is among the frames.
SendersStay == \A z \in Client, r \in NamedReplica : Sends(z, r)' => Sends(z, r)
NoIntent(G) == \A f \in G : f.type # "TRANSFER_INTENT"
QueuesRepeatNothing == \A a \in Agent : NoRepeat(down[a])

\* Transfers stay where they are when no worker takes one up or sends an intent.
LEMMA TransfersStay ==
  ASSUME TransferInv, CopiesKept({}), UNCHANGED <<agent, transfer>>,
         NEW x \in Client, UpStep(x, {}), NEW y \in Client, NEW G, DownStep(y, G),
         NoIntent(G), SendersStay, QueuesRepeatNothing'
  PROVE  TransferInv'
<1>1. \A a \in Agent : \A f \in Frames(up'[a]) : \A r : MatchFor(f, r) => f \in Frames(up[a])
  BY MatchesStay, Zenon
<1>2. \A r : IsCopy(r) => IsCopy(r)'
  BY CopiesStep, Zenon
<1>3. \A r \in NamedReplica : Finished(r)' => Finished(r)
  BY <1>1, FinishedStays, Zenon
<1>4. \A a \in Agent, r \in NamedReplica : Awaits(a, r)' => Awaits(a, r)
  BY Zenon DEF DownStep, NoIntent, Awaits, IntentFor, Client
<1>5. \A a \in Agent, r \in NamedReplica : Executes(a, r)' => Executes(a, r)
  BY Zenon DEF Executes
<1>6. \A a \in Agent, r \in NamedReplica : \A f \in Frames(up'[a]) :
        MatchFor(f, r) => f \in Frames(up[a])
  BY <1>1, Zenon
<1>7. NamedReplica \cap {} = {} /\ NamedReplica \ {} = NamedReplica
  BY Zenon
<1>8. /\ \A a \in Agent : NoRepeat(down'[a])
      /\ \A z \in Client, r \in NamedReplica : Sends(z, r)' => Sends(z, r)
  BY Zenon DEF QueuesRepeatNothing, SendersStay
<1> QED  BY <1>2, <1>3, <1>4, <1>5, <1>6, <1>7, <1>8, TransferKept, Zenon

\* A HELLO gives the process an incarnation nobody claims, or the one that processes with the
\* same id have.
LEMMA HelloKeepsCopies ==
  ASSUME ProcessInv, ProcessInv', CopyInv, UNCHANGED <<agent_vars, controller_vars>>,
         NEW x \in Client, hello(x)
  PROVE  CopyInv'
<1> DEFINE c == ClusterOf[x]
           n == clusters'[c].incarnation
           ack == [Frame("HELLO_ACK") EXCEPT !.incarnation = n]
<1>1. /\ CoordinatorInv /\ QueueInv /\ GivenInv /\ TransferInv /\ TypeOK /\ BoundInv /\ ClaimInv
      /\ server_receives(x) /\ UNCHANGED <<down, target>> /\ boots \in [Cluster -> BootId]
  BY Zenon DEF ProcessInv, CopyInv, hello
<1>2. UNCHANGED <<agent, incarnation, transfer>>
  BY Zenon DEF agent_vars
<1>3. x \in Agent /\ c \in Cluster /\ registers(c, ProcessId[x], FALSE)
  BY HelloIsStep, Configured, Zenon DEF hello
<1>4. /\ CopiesKept({}) /\ BootsKept /\ boots'[c] = ProcessId[x]
      /\ c \in DOMAIN clusters' /\ n \in Nat
      /\ c \in DOMAIN clusters =>
           \/ clusters[c].incarnation < n
           \/ n = clusters[c].incarnation /\ boots[c] = ProcessId[x]
  BY <1>1, <1>3, ClusterRegistered, Zenon
<1>5. Hold(x, ack) /\ Goto(x, "hello")
  BY Zenon DEF hello
<1>6. ack \in FrameRecord /\ ack.incarnation = n
  <2>1. Frame("HELLO_ACK") \in FrameRecord
    BY FrameTyped, Zenon DEF FrameType
  <2> QED  BY <1>4, <2>1, Zenon DEF FrameRecord
<1>7. UpStep(x, {}) /\ DownStep(x, {})
  BY <1>1, ServerReceives, DownUnchanged, Zenon
<1>8. \A d \in DOMAIN clusters : clusters[d].incarnation \in Nat
  BY <1>1, IncarnationsTyped, Zenon
<1> HIDE DEF ack
<1>9. Moves(x, "hello") /\ Holds(x) /\ work'[x] = ack
  <2>1. Moves(x, "hello")
    BY <1>1, <1>5, GotoMoves, Zenon DEF WorkerState, SessionStates
  <2>2. Holds(x)
    BY <1>1, <1>5, <1>6, HoldHolds, Zenon
  <2>3. work'[x] = ack
    BY <1>1, <1>5, Zenon DEF Hold, CoordinatorInv
  <2> QED  BY <2>1, <2>2, <2>3, Zenon
<1>10. \A a \in Agent \ {x} : worker'[a] \in {"hello", "hello_ack"} =>
         worker[a] \in {"hello", "hello_ack"} /\ work'[a] = work[a]
  BY <1>9, Zenon DEF Moves, Holds, Client
<1> HIDE DEF n, c
<1>11. \A a \in Agent, m \in Nat : Claims(a, m)' => Claims(a, m) \/ (a = x /\ m = n)
  <2>1. \A a \in Agent \ {x}, m \in Nat : Claims(a, m)' => Claims(a, m)
    BY <1>1, <1>2, <1>10, Zenon DEF Claims
  <2>2. \A m \in Nat : Claims(x, m)' => Claims(x, m) \/ m = n
    BY <1>1, <1>2, <1>6, <1>9, Zenon DEF Claims
  <2> QED  BY <2>1, <2>2, Zenon
<1>12. BoundInv' /\ ScriptInv' /\ BytesInv'
  BY <1>4, <1>7, RecordsStay, Zenon
<1>13. n # 0
  BY <1>4, <1>12, Zenon DEF BoundInv, n
<1>14. ClaimInv'
  <2>1. ASSUME NEW a \in Agent, NEW m \in Nat, Claims(a, m)
        PROVE  LET d == ClusterOf[a] IN
               /\ d \in DOMAIN clusters /\ m <= clusters[d].incarnation
               /\ m = clusters[d].incarnation => boots[d] = ProcessId[a]
               /\ d \in DOMAIN clusters' /\ clusters[d].incarnation <= clusters'[d].incarnation
               /\ clusters'[d].incarnation = clusters[d].incarnation => boots'[d] = boots[d]
    <3> DEFINE d == ClusterOf[a]
    <3>1. /\ d \in DOMAIN clusters /\ m <= clusters[d].incarnation
          /\ m = clusters[d].incarnation => boots[d] = ProcessId[a]
      BY <1>1, <2>1, Zenon DEF ClaimInv
    <3>2. d \in DOMAIN clusters' /\ clusters[d].incarnation <= clusters'[d].incarnation
      BY <1>4, <3>1, Zenon DEF CopiesKept
    <3>3. clusters'[d].incarnation = clusters[d].incarnation => boots'[d] = boots[d]
      BY <1>4, <3>1, Zenon DEF BootsKept
    <3> QED  BY <3>1, <3>2, <3>3, Zenon
  <2>2. \A d \in DOMAIN clusters' : clusters'[d].incarnation \in Nat
    <3>1. IsMap(clusters', Cluster, ClusterRecord)
      BY Zenon DEF ProcessInv, TypeOK
    <3>2. \A d \in DOMAIN clusters' : clusters'[d] \in ClusterRecord
      BY <3>1, MapEntry, Zenon
    <3> QED  BY <3>2, Zenon DEF ClusterRecord
  <2>3. ASSUME NEW a \in Agent, NEW m \in Nat, Claims(a, m)'
        PROVE  LET d == ClusterOf[a] IN
               /\ d \in DOMAIN clusters' /\ m <= clusters'[d].incarnation
               /\ m = clusters'[d].incarnation => boots'[d] = ProcessId[a]
    <3>1. CASE Claims(a, m)
      BY <1>8, <2>1, <2>2, <3>1
    <3>2. CASE a = x /\ m = n
      BY <1>4, <3>2 DEF c, n
    <3> QED  BY <1>11, <2>3, <3>1, <3>2, Zenon
  <2>4. \A a \in Agent : ClusterOf[a] = c /\ Claims(a, n) => ProcessId[a] = ProcessId[x]
    BY <1>4, <1>8, <2>1
  <2>5. ASSUME NEW a \in Agent, NEW b \in Agent, NEW m \in Nat, Claims(a, m)', Claims(b, m)',
               ClusterOf[a] = ClusterOf[b]
        PROVE  ProcessId[a] = ProcessId[b]
    <3>1. CASE Claims(a, m) /\ Claims(b, m)
      BY <1>1, <2>5, <3>1, Zenon DEF ClaimInv
    <3>2. CASE ~(Claims(a, m) /\ Claims(b, m))
      BY <1>11, <2>4, <2>5, <3>2, Zenon DEF c
    <3> QED  BY <3>1, <3>2, Zenon
  <2> QED  BY <2>3, <2>5, Zenon DEF ClaimInv
<1>15. GivenInv'
  <2>1. \A a \in Agent : worker'[a] \in {"hello", "hello_ack"} => work'[a].incarnation # 0
    BY <1>1, <1>6, <1>9, <1>10, <1>13, Zenon DEF GivenInv
  <2>2. \A z \in Client :
          worker'[z] \in {"acknowledge", "lookup", "intent"} => work'[z].type # "HELLO_ACK"
    BY <1>1, <1>9, Zenon DEF GivenInv, Moves, Holds
  <2> QED  BY <1>1, <1>2, <2>1, <2>2, Zenon DEF GivenInv
<1>16. TransferInv'
  <2>1. SendersStay
    BY <1>9, Zenon DEF SendersStay, Moves, Holds, Sends
  <2>2. QueuesRepeatNothing' /\ NoIntent({})
    BY <1>1, RepeatTaken, Zenon DEF QueuesRepeatNothing, NoIntent
  <2> QED  BY <1>1, <1>2, <1>4, <1>7, <2>1, <2>2, TransfersStay, Zenon
<1> QED  BY <1>12, <1>14, <1>15, <1>16, Zenon DEF CopyInv

\* The reply to a HELLO carries the incarnation its process claims already.
LEMMA HelloAckKeepsCopies ==
  ASSUME ProcessInv, ProcessInv', CopyInv, UNCHANGED <<agent_vars, controller_vars>>,
         NEW x \in Client, hello_ack(x)
  PROVE  CopyInv'
<1>1. /\ CoordinatorInv /\ QueueInv /\ GivenInv /\ TransferInv /\ TypeOK /\ ClaimInv /\ WorkerInv(x)
      /\ worker[x] = "hello_ack" /\ UNCHANGED <<vars, boots, up>> /\ Forget(x)
  BY Zenon DEF ProcessInv, CopyInv, hello_ack, CoordinatorInv
<1>2. UNCHANGED <<agent, incarnation, transfer>>
  BY Zenon DEF agent_vars
<1>3. PICK sent \in BOOLEAN : /\ server_sends(x, work[x], sent)
                              /\ Goto(x, IF sent THEN "agent" ELSE "done")
  BY Zenon DEF hello_ack
<1>4. PICK pc \in {"agent", "done"} : Goto(x, pc)
  BY <1>3, Zenon
<1>5. Moves(x, pc) /\ Holds(x)
  BY <1>1, <1>4, GotoMoves, ForgetHolds, Zenon DEF WorkerState, SessionStates
<1>6. /\ x \in Agent /\ work[x] \in FrameRecord /\ work[x].type # "TRANSFER_INTENT"
      /\ work[x].incarnation # 0
  BY <1>1, Zenon DEF CoordinatorInv, WorkerInv, SessionStates, Client, GivenInv
<1>7. UpStep(x, {}) /\ DownStep(x, {work[x]}) /\ CopiesKept({})
  BY <1>1, <1>3, <1>6, UpUnchanged, ServerSends, CopiesUnchanged, Zenon DEF vars
<1>8. \A a \in Agent : worker'[a] \in {"hello", "hello_ack"} =>
        worker[a] \in {"hello", "hello_ack"} /\ work'[a] = work[a]
  BY <1>5, Zenon DEF Moves, Holds, Client
<1>9. \A a \in Agent : \A f \in Frames(down'[a]) : f \in Frames(down[a]) \/ (a = x /\ f = work[x])
  BY <1>7, Zenon DEF DownStep, Client
<1>10. \A a \in Agent, n \in Nat : Claims(a, n)' => Claims(a, n)
  BY <1>1, <1>2, <1>8, <1>9, Zenon DEF Claims
<1>11. BoundInv' /\ ScriptInv' /\ BytesInv'
  BY <1>7, RecordsStay, Zenon
<1>12. ClaimInv'
  <2>1. TypeOK' /\ BootsKept
    BY <1>1, Zenon DEF ProcessInv, BootsKept
  <2> QED  BY <1>1, <1>7, <1>10, <2>1, ClaimKept, Zenon
<1>13. GivenInv'
  <2>1. \A a \in Agent : worker'[a] \in {"hello", "hello_ack"} => work'[a].incarnation # 0
    BY <1>1, <1>8, Zenon DEF GivenInv
  <2>2. \A z \in Client :
          worker'[z] \in {"acknowledge", "lookup", "intent"} => work'[z].type # "HELLO_ACK"
    BY <1>1, <1>5, Zenon DEF GivenInv, Moves, Holds
  <2>3. \A a \in Agent : \A f \in Frames(down'[a]) : f.type = "HELLO_ACK" => f.incarnation # 0
    BY <1>1, <1>6, <1>9, Zenon DEF GivenInv
  <2> QED  BY <1>1, <1>2, <2>1, <2>2, <2>3, Zenon DEF GivenInv
<1>14. TransferInv'
  <2>1. SendersStay
    BY <1>5, Zenon DEF SendersStay, Moves, Holds, Sends
  <2>2. QueuesRepeatNothing'
    BY <1>1, <1>3, <1>6, RepeatSends, Zenon DEF QueuesRepeatNothing
  <2>3. NoIntent({work[x]})
    BY <1>6, Zenon DEF NoIntent
  <2> QED  BY <1>1, <1>2, <1>7, <2>1, <2>2, <2>3, TransfersStay, Zenon
<1> QED  BY <1>11, <1>12, <1>13, <1>14, Zenon DEF CopyInv

\* Transfers into other replicas stay where they are.
OthersRest(r) ==
  \A q \in NamedReplica \ {r} :
    /\ Finished(q)' => Finished(q)
    /\ \A x \in Client : Sends(x, q)' => Sends(x, q)
    /\ \A a \in Agent : Awaits(a, q)' => Awaits(a, q)
    /\ \A a \in Agent : Executes(a, q)' => Executes(a, q)
    /\ \A a \in Agent : \A f \in Frames(up'[a]) : MatchFor(f, q) => f \in Frames(up[a])

\* One transfer moves, to one place.
LEMMA TransferMoved ==
  ASSUME TransferInv, NEW R, CopiesKept(R), NEW r \in NamedReplica, OnePlace(r)', IsCopy(r)',
         OthersRest(r), QueuesRepeatNothing'
  PROVE  TransferInv'
<1>1. \A q : IsCopy(q) => IsCopy(q)'
  BY CopiesStep, Zenon
<1>2. \A q \in NamedReplica \cap {r} : OnePlace(q)' /\ IsCopy(q)'
  <2> SUFFICES ASSUME NEW q \in NamedReplica, q = r PROVE OnePlace(q)' /\ IsCopy(q)'
    BY Zenon
  <2> QED  BY Zenon
<1>3. \A q \in NamedReplica \ {r} : Finished(q)' => Finished(q)
  BY Zenon DEF OthersRest
<1>4. \A x \in Client, q \in NamedReplica \ {r} : Sends(x, q)' => Sends(x, q)
  BY Zenon DEF OthersRest
<1>5. \A a \in Agent, q \in NamedReplica \ {r} :
        (Awaits(a, q)' => Awaits(a, q)) /\ (Executes(a, q)' => Executes(a, q))
  BY Zenon DEF OthersRest
<1>6. \A a \in Agent, q \in NamedReplica \ {r} : \A f \in Frames(up'[a]) :
        MatchFor(f, q) => f \in Frames(up[a])
  BY Zenon DEF OthersRest
<1>7. \A a \in Agent : NoRepeat(down'[a])
  BY Zenon DEF QueuesRepeatNothing
<1> QED  BY <1>1, <1>2, <1>3, <1>4, <1>5, <1>6, <1>7, TransferKept, Zenon

\* A granted authorization makes the one token of its transfer.
LEMMA GrantKeepsTransfers ==
  ASSUME TransferInv, UNCHANGED <<agent, transfer, down>>, CopiesKept({}),
         NEW x \in Client, UpStep(x, {}), Moves(x, "lookup"), Holds(x),
         NEW r \in NamedReplica, r \notin DOMAIN replicas, IsCopy(r)', ~Recorded(r)',
         work'[x].replica = r
  PROVE  TransferInv'
<1>1. \A a \in Agent : \A f \in Frames(up'[a]) : \A q : MatchFor(f, q) => f \in Frames(up[a])
  BY MatchesStay, Zenon
<1>3. \A q : Finished(q)' => Finished(q)
  BY <1>1, FinishedStays, Zenon
<1>4. \A z \in Client : \A q : Sends(z, q)' => Sends(z, q) \/ (z = x /\ q = r)
  BY Zenon DEF Moves, Holds, Sends
<1>5. \A a \in Agent : \A q :
        (Awaits(a, q)' => Awaits(a, q)) /\ (Executes(a, q)' => Executes(a, q))
  BY Zenon DEF Awaits, Executes
<1>6. OnePlace(r)'
  <2>1. ~IsCopy(r)
    BY Zenon DEF IsCopy
  <2>2. /\ \A z \in Client : ~Sends(z, r)
        /\ \A a \in Agent : ~Awaits(a, r) /\ ~Executes(a, r)
        /\ \A a \in Agent : \A f \in Frames(up[a]) : ~MatchFor(f, r)
    BY <2>1, Zenon DEF TransferInv
  <2>3. ~Finished(r)'
    BY <1>1, <2>2, Zenon DEF Finished, MatchFor
  <2>4. \A z \in Client : Sends(z, r)' => z = x
    BY <1>4, <2>2, Zenon
  <2>5. \A a \in Agent : ~Awaits(a, r)' /\ ~Executes(a, r)'
    BY <1>5, <2>2, Zenon
  <2> QED  BY <2>3, <2>4, <2>5, Zenon DEF OnePlace
<1>7. QueuesRepeatNothing'
  BY Zenon DEF TransferInv, QueuesRepeatNothing
<1>8. OthersRest(r)
  BY <1>1, <1>3, <1>4, <1>5, Zenon DEF OthersRest
<1> QED  BY <1>6, <1>7, <1>8, TransferMoved, Zenon

\* Authorizations.
LEMMA AuthorizeKeepsCopies ==
  ASSUME ProcessInv, ProcessInv', CopyInv, UNCHANGED <<agent_vars, controller_vars>>,
         NEW x \in Client, dispatch_authorize(x)
  PROVE  CopyInv'
<1>1. /\ CoordinatorInv /\ QueueInv /\ TypeOK /\ TypeOK' /\ TransferInv /\ ClaimInv /\ GivenInv
      /\ server_receives(x) /\ UNCHANGED <<down, target>> /\ BootsKept
  BY Zenon DEF ProcessInv, CopyInv, dispatch_authorize, takes_request, BootsKept
<1>2. UpStep(x, {})
  BY <1>1, ServerReceives, Zenon
<1>3. CASE UNCHANGED <<vars, work>> /\ Goto(x, "respond")
  <2>1. CopiesKept({}) /\ Justified({})
    BY <1>1, <1>3, CopiesUnchanged, Zenon DEF vars, Justified
  <2>2. Moves(x, "respond")
    BY <1>1, <1>3, GotoMoves, Zenon DEF WorkerState, ControlStates
  <2>3. Holds(x)
    BY <1>1, <1>3, HoldHolds, FrameTyped, Zenon DEF FrameType
  <2>4. StaysPut
    BY <1>1, <2>2, <2>3, OthersStayPut, Zenon
  <2> QED  BY <1>1, <2>1, <2>4, ReceivingWorker, Zenon
<1>4. ASSUME Goto(x, "lookup"), CopiesKept({}), NEW o \in OperationId, NEW r \in ReplicaId,
             r \notin DOMAIN replicas, IsCopy(r)', ~Recorded(r)',
             Hold(x, [Frame("TRANSFER_INTENT") EXCEPT !.operation = o, !.replica = r])
      PROVE  CopyInv'
  <2> DEFINE f == [Frame("TRANSFER_INTENT") EXCEPT !.operation = o, !.replica = r]
  <2>1. f \in FrameRecord /\ f.replica = r /\ f.type = "TRANSFER_INTENT"
    <3>1. Frame("TRANSFER_INTENT") \in FrameRecord /\ Frame("TRANSFER_INTENT").type = "TRANSFER_INTENT"
      BY FrameTyped, Zenon DEF FrameType
    <3> QED  BY <3>1, Zenon DEF FrameRecord, NamedReplica, NamedOperation
  <2>2. Hold(x, f)
    BY <1>4, Zenon
  <2> HIDE DEF f
  <2>3. Moves(x, "lookup")
    BY <1>1, <1>4, GotoMoves, Zenon DEF WorkerState, ControlStates
  <2>4. Holds(x) /\ work'[x] = f
    <3>1. Holds(x)
      BY <1>1, <2>1, <2>2, HoldHolds, Zenon
    <3> QED  BY <1>1, <2>2, <3>1, Zenon DEF Hold, CoordinatorInv
  <2>5. UNCHANGED <<agent, incarnation, transfer>>
    BY Zenon DEF agent_vars
  <2>6. TransferInv'
    <3>1. r \in NamedReplica /\ work'[x].replica = r
      BY <2>1, <2>4, Zenon DEF NamedReplica
    <3> QED  BY <1>1, <1>2, <1>4, <2>3, <2>4, <2>5, <3>1, GrantKeepsTransfers, Zenon
  <2>7. \A z \in Client : worker'[z] \in {"hello", "hello_ack"} =>
          worker[z] \in {"hello", "hello_ack"} /\ work'[z] = work[z]
    BY <2>3, <2>4, Zenon DEF Moves, Holds
  <2>8. \A a \in Agent, n \in Nat : Claims(a, n)' => Claims(a, n)
    BY <1>1, <2>5, <2>7, Zenon DEF Claims, Client
  <2>9. ClaimInv'
    BY <1>1, <1>4, <2>8, ClaimKept, Zenon
  <2>10. BoundInv' /\ ScriptInv' /\ BytesInv'
    BY <1>2, <1>4, RecordsStay, Zenon
  <2>11. GivenInv'
    <3>1. \A z \in Client :
            worker'[z] \in {"acknowledge", "lookup", "intent"} => work'[z].type # "HELLO_ACK"
      BY <1>1, <2>1, <2>3, <2>4, Zenon DEF GivenInv, Moves, Holds
    <3>2. \A a \in Agent : worker'[a] \in {"hello", "hello_ack"} => work'[a].incarnation # 0
      BY <1>1, <2>7, Zenon DEF GivenInv, Client
    <3> QED  BY <1>1, <2>5, <3>1, <3>2, Zenon DEF GivenInv
  <2> QED  BY <2>6, <2>9, <2>10, <2>11, Zenon DEF CopyInv
<1> QED  BY <1>1, <1>3, <1>4, AuthorizationMakesCopy, Zenon

\* The intent is sent, and its transfer is under way to the one agent it was sent to.
LEMMA SendIntentKeepsCopies ==
  ASSUME ProcessInv, ProcessInv', CopyInv, UNCHANGED <<agent_vars, controller_vars>>,
         NEW x \in Client, send_intent(x)
  PROVE  CopyInv'
<1>1. /\ CoordinatorInv /\ QueueInv /\ TypeOK /\ TypeOK' /\ TransferInv /\ ClaimInv /\ GivenInv
      /\ WorkerInv(x) /\ worker[x] = "intent" /\ UNCHANGED <<vars, boots, up, work, target>>
      /\ Goto(x, "respond")
  BY Zenon DEF ProcessInv, CopyInv, CoordinatorInv, send_intent
<1>2. UNCHANGED <<agent, incarnation, transfer>>
  BY Zenon DEF agent_vars
<1>3. PICK y \in Agent : y = target[x]
  BY <1>1, Zenon DEF WorkerInv
<1>4. PICK sent \in BOOLEAN : server_sends(y, work[x], sent)
  BY <1>3, Zenon DEF send_intent
<1>5. PICK f \in FrameRecord : f = work[x] /\ f.type # "HELLO_ACK"
  BY <1>1, Zenon DEF CoordinatorInv, GivenInv
<1>6. PICK r \in NamedReplica : r = f.replica
  BY <1>5, Zenon DEF FrameRecord
<1>7. Sends(x, r)
  BY <1>1, <1>5, <1>6, Zenon DEF Sends
<1>8. /\ \A z \in Client : Sends(z, r) => z = x
      /\ \A a \in Agent : ~Awaits(a, r) /\ ~Executes(a, r)
      /\ ~Finished(r) /\ IsCopy(r)
  BY <1>1, <1>7, Zenon DEF TransferInv, OnePlace
<1>9. y \in Client /\ UpStep(x, {}) /\ CopiesKept({})
  BY <1>1, UpUnchanged, CopiesUnchanged, Zenon DEF vars, Client
<1>10. DownStep(y, {f})
  BY <1>1, <1>4, <1>5, <1>9, ServerSends, Zenon
<1>11. \A a \in Agent : NoRepeat(down'[a])
  BY <1>1, <1>4, <1>5, <1>6, <1>8, <1>9, RepeatSends, Zenon
<1>12. Moves(x, "respond") /\ Holds(x)
  <2>1. Moves(x, "respond")
    BY <1>1, GotoMoves, Zenon DEF WorkerState, ControlStates
  <2>2. Holds(x)
    BY <1>1, HoldHolds, FrameTyped, Zenon DEF FrameType
  <2> QED  BY <2>1, <2>2, Zenon
<1>13. StaysPut
  BY <1>1, <1>12, OthersStayPut, Zenon
<1>14. \A g \in {f} : g.type # "HELLO_ACK"
  BY <1>5, Zenon
<1>15. \A a \in Agent, n \in Nat : Claims(a, n)' => Claims(a, n)
  BY <1>2, <1>9, <1>10, <1>13, <1>14, ClaimsStay, Zenon
<1>16. GivenInv'
  BY <1>1, <1>2, <1>9, <1>10, <1>13, <1>14, GivenStays, Zenon
<1>17. ClaimInv'
  <2>1. BootsKept
    BY <1>1, Zenon DEF BootsKept
  <2> QED  BY <1>1, <1>9, <1>15, <2>1, ClaimKept, Zenon
<1>18. BoundInv' /\ ScriptInv' /\ BytesInv'
  BY <1>9, RecordsStay, Zenon
<1>19. TransferInv'
  <2>1. \A a \in Agent : \A g \in Frames(up'[a]) : \A q : MatchFor(g, q) => g \in Frames(up[a])
    BY <1>9, MatchesStay, Zenon
  <2>2. IsCopy(r)'
    BY <1>8, <1>9, CopiesStep, Zenon
  <2>3. \A q : Finished(q)' => Finished(q)
    BY <1>9, <2>1, FinishedStays, Zenon
  <2>4. \A z \in Client : \A q : Sends(z, q)' => Sends(z, q) /\ z # x
    BY <1>12, Zenon DEF Moves, Holds, Sends
  <2>5. \A a \in Agent : \A q : Awaits(a, q)' => Awaits(a, q) \/ (a = y /\ q = r)
    BY <1>6, <1>10, Zenon DEF DownStep, Awaits, IntentFor, Client
  <2>6. \A a \in Agent : \A q : Executes(a, q)' => Executes(a, q)
    BY <1>2, Zenon DEF Executes
  <2>7. OnePlace(r)'
    <3>1. \A z \in Client : ~Sends(z, r)'
      BY <1>8, <2>4, Zenon
    <3>2. \A a \in Agent : Awaits(a, r)' => a = y
      BY <1>8, <2>5, Zenon
    <3>3. \A a \in Agent : ~Executes(a, r)'
      BY <1>8, <2>6, Zenon
    <3>4. ~Finished(r)'
      BY <1>8, <2>3, Zenon
    <3> QED  BY <3>1, <3>2, <3>3, <3>4, Zenon DEF OnePlace
  <2>8. OthersRest(r) /\ QueuesRepeatNothing'
    BY <1>11, <2>1, <2>3, <2>4, <2>5, <2>6, Zenon DEF OthersRest, QueuesRepeatNothing
  <2> QED  BY <1>1, <1>9, <2>2, <2>7, <2>8, TransferMoved, Zenon
<1> QED  BY <1>16, <1>17, <1>18, <1>19, Zenon DEF CopyInv

\* Every step of the coordinator's workers keeps the invariant.
LEMMA ServerKeepsCopies ==
  ASSUME ProcessInv, ProcessInv', CopyInv, NEW x \in Client, ServerStep(x)
  PROVE  CopyInv'
<1>1. UNCHANGED <<agent_vars, controller_vars>> /\ (accept(x) \/ WorkerStep(x))
  BY Zenon DEF ServerStep
<1>2. CASE accept(x) \/ await_check(x) \/ await_sleep(x) \/ enter_session(x)
  BY <1>1, <1>2, WaitingKeepsCopies, Zenon
<1>3. CASE leave(x) \/ after_answer(x)
  BY <1>1, <1>3, ClosingKeepsCopies, Zenon
<1>4. CASE dispatch_query(x) \/ dispatch_shutdown(x) \/ dispatch_await(x)
  BY <1>1, <1>4, QueryKeepsCopies, Zenon
<1>5. CASE acknowledge(x) \/ respond(x)
  BY <1>1, <1>5, AnswerKeepsCopies, Zenon
<1>6. CASE hello(x)
  BY <1>1, <1>6, HelloKeepsCopies, Zenon
<1>7. CASE hello_ack(x)
  BY <1>1, <1>7, HelloAckKeepsCopies, Zenon
<1>8. CASE handle_agent_frame(x)
  BY <1>1, <1>8, AgentFrameKeepsCopies, Zenon
<1>9. CASE dispatch_mutation(x)
  BY <1>1, <1>9, MutationKeepsCopies, Zenon
<1>10. CASE dispatch_authorize(x)
  BY <1>1, <1>10, AuthorizeKeepsCopies, Zenon
<1>11. CASE lookup_sessions(x)
  BY <1>1, <1>11, LookupKeepsCopies, Zenon
<1>12. CASE send_intent(x)
  BY <1>1, <1>12, SendIntentKeepsCopies, Zenon
<1> QED  BY <1>1, <1>2, <1>3, <1>4, <1>5, <1>6, <1>7, <1>8, <1>9, <1>10, <1>11, <1>12, Zenon
         DEF WorkerStep

-----------------------------------------------------------------------------
(* Controllers and the accept loop *)

\* The frames under way to and from the agents are those there were.
AgentQueuesShrink ==
  \A a \in Agent : /\ Frames(up'[a]) \subseteq Frames(up[a])
                   /\ Frames(down'[a]) \subseteq Frames(down[a])
                   /\ NoRepeat(down'[a])

\* A step that leaves the plane, the workers and the agents where they are.
LEMMA RestKeepsCopies ==
  ASSUME ProcessInv, ProcessInv', CopyInv, UNCHANGED <<vars, boots, worker, work, agent_vars>>,
         AgentQueuesShrink, ScriptInv'
  PROVE  CopyInv'
<1> USE DEF CopyInv
<1>1. /\ TypeOK /\ TypeOK'
      /\ UNCHANGED <<agent, incarnation, transfer, store, replicas, clusters, boots>>
  BY Zenon DEF ProcessInv, agent_vars, vars
<1>2. CopiesKept({}) /\ BootsKept
  BY <1>1, CopiesUnchanged, Zenon DEF BootsKept
<1>3. \A a \in Agent, n \in Nat : Claims(a, n)' => Claims(a, n)
  BY <1>1, Zenon DEF AgentQueuesShrink, Claims
<1>4. \A a \in Agent : \A f \in Frames(up'[a]) : f \in Frames(up[a])
  BY Zenon DEF AgentQueuesShrink
<1>5. ClaimInv'
  BY <1>1, <1>2, <1>3, ClaimKept, Zenon
<1>6. GivenInv'
  BY <1>1, Zenon DEF AgentQueuesShrink, GivenInv
<1>7. BoundInv'
  BY <1>1, <1>2, BoundKept, Zenon
<1>8. BytesInv'
  <2>1. \A a \in Agent :
           /\ agent[a] \notin Unregistered =>
                agent'[a] \notin Unregistered /\ incarnation'[a] = incarnation[a]
           /\ agent'[a] \in Serving => agent[a] \in Serving \cup {"evidence"}
           /\ agent'[a] \in Serving /\ agent[a] \in Serving =>
                \A r \in NamedReplica : IsCopy(r) /\ Stored(a, r) => Stored(a, r)'
    BY <1>1, Zenon DEF Stored
  <2> QED  BY <1>2, <1>3, <1>4, <2>1, BytesKept, Zenon
<1>9. TransferInv'
  <2>1. \A r : IsCopy(r) => IsCopy(r)'
    BY <1>2, CopiesStep, Zenon
  <2>2. \A r \in NamedReplica : Finished(r)' => Finished(r)
    BY <1>2, <1>4, FinishedStays, Zenon
  <2>3. /\ \A z \in Client, r \in NamedReplica : Sends(z, r)' => Sends(z, r)
        /\ \A a \in Agent, r \in NamedReplica : Awaits(a, r)' => Awaits(a, r)
        /\ \A a \in Agent, r \in NamedReplica : Executes(a, r)' => Executes(a, r)
    BY <1>1, Zenon DEF AgentQueuesShrink, Sends, Awaits, Executes
  <2>4. \A a \in Agent : NoRepeat(down'[a])
    BY Zenon DEF AgentQueuesShrink
  <2>5. NamedReplica \cap {} = {} /\ NamedReplica \ {} = NamedReplica
    BY Zenon
  <2> QED  BY <1>4, <2>1, <2>2, <2>3, <2>4, <2>5, TransferKept, Zenon
<1> QED  BY <1>5, <1>6, <1>7, <1>8, <1>9, Zenon

\* The accept loop ends; when it returns, the frames nobody will receive are forgotten.
LEMMA ServeKeepsCopies ==
  ASSUME ProcessInv, ProcessInv', CopyInv, ServeStep
  PROVE  CopyInv'
<1>1. UNCHANGED <<vars, boots, worker, work, down, agent_vars, controller_vars>>
  BY Zenon DEF ServeStep, accept_ends, serve_returns, transport
<1>2. \A x \in Client : Frames(up'[x]) \subseteq Frames(up[x])
  <2>1. Frames(<< >>) = {}
    BY FramesEmpty, Zenon
  <2>2. CASE server_closes(Client)
    BY <2>1, <2>2, Zenon DEF server_closes
  <2>3. CASE UNCHANGED up
    BY <2>3, Zenon
  <2> QED  BY <2>2, <2>3, Zenon DEF ServeStep, accept_ends, serve_returns, transport
<1>3. AgentQueuesShrink
  BY <1>1, <1>2, Zenon DEF AgentQueuesShrink, CopyInv, TransferInv, Client
<1>4. ScriptInv'
  BY <1>1, <1>2, Zenon DEF ScriptInv, CopyInv, controller_vars, Client
<1> QED  BY <1>1, <1>3, <1>4, RestKeepsCopies, Zenon

\* A controller receives its response or disconnects.
LEMMA ControllerKeepsCopies ==
  ASSUME ProcessInv, ProcessInv', CopyInv, NEW k \in Controller, ControllerRuns(k)
  PROVE  CopyInv'
<1>1. /\ UNCHANGED <<vars, boots, worker, work, agent_vars, up, script>>
      /\ client_receives(k) \/ client_closes(k)
  BY Zenon DEF ControllerRuns, receive_response, disconnect, coordinator
<1>2. k \in Client /\ k \notin Agent /\ QueueInv /\ TransferInv
  BY Peers, Zenon DEF Client, ProcessInv, CopyInv
<1>3. DownStep(k, {}) /\ \A a \in Agent : NoRepeat(down'[a])
  BY <1>1, <1>2, ClientReceives, ClientCloses, RepeatTaken, Zenon
<1>4. AgentQueuesShrink
  BY <1>1, <1>2, <1>3, Zenon DEF AgentQueuesShrink, DownStep, Client
<1>5. ScriptInv'
  BY <1>1, Zenon DEF ScriptInv, CopyInv
<1> QED  BY <1>1, <1>4, <1>5, RestKeepsCopies, Zenon

\* A controller sends a request, which vouches for no bytes.
LEMMA SendRequestKeepsCopies ==
  ASSUME ProcessInv, ProcessInv', CopyInv, NEW k \in Controller, send_request(k),
         UNCHANGED <<vars, coordinator, agent_vars>>
  PROVE  CopyInv'
<1>1. UNCHANGED <<vars, boots, worker, work, agent_vars, down>> /\ script[k] # << >>
  BY Zenon DEF send_request, coordinator
<1>2. k \in Client /\ k \notin Agent /\ QueueInv /\ TransferInv /\ ScriptInv
  BY Peers, Zenon DEF Client, ProcessInv, CopyInv
<1>3. \A s \in Seq(SUBSET MeasuredRequest) : s # << >> =>
        Head(s) \in SUBSET MeasuredRequest /\ Tail(s) \in Seq(SUBSET MeasuredRequest)
  OBVIOUS
<1>4. script[k] \in Seq(SUBSET MeasuredRequest)
  BY <1>2, Zenon DEF ScriptInv
<1>5. PICK f \in MeasuredRequest : client_sends(k, f)
  BY <1>1, <1>3, <1>4, Zenon DEF send_request
<1>6. f \in FrameRecord /\ f.type # "HELLO" /\ f.request \notin Vouching
  <2>1. f \in ControlRequest /\ f.request \notin Vouching
    BY Zenon DEF MeasuredRequest
  <2> QED  BY <2>1, ControlRequestTyped, Zenon
<1>7. UpStep(k, {f})
  BY <1>2, <1>5, <1>6, ClientSends, Zenon
<1>8. AgentQueuesShrink
  BY <1>1, <1>2, <1>7, Zenon DEF AgentQueuesShrink, UpStep, TransferInv, Client
<1>9. script' \in [Controller -> Seq(SUBSET MeasuredRequest)]
  <2>1. Tail(script[k]) \in Seq(SUBSET MeasuredRequest)
    BY <1>1, <1>3, <1>4, Zenon
  <2>2. script' = [script EXCEPT ![k] = Tail(script[k])]
    BY Zenon DEF send_request
  <2> QED  BY <1>2, <2>1, <2>2, Zenon DEF ScriptInv
<1>10. \A j \in Controller : \A g \in Frames(up'[j]) : g.request \notin Vouching
  BY <1>2, <1>6, <1>7, Zenon DEF ScriptInv, UpStep, Client
<1>11. ScriptInv'
  BY <1>9, <1>10, Zenon DEF ScriptInv
<1> QED  BY <1>1, <1>8, <1>11, RestKeepsCopies, Zenon

=============================================================================
