------------------------------ MODULE Journal -------------------------------
(***************************************************************************)
(* The durability of the control plane: the journal of redo effects, the   *)
(* snapshot and the two steps of a checkpoint (control_plane.cpp,          *)
(* platform_io.cpp), and the order in which a mutation is appended,        *)
(* applied, checkpointed and acknowledged (fabric_lifecycle.cpp), with     *)
(* failing writes and a crash between any two steps.                       *)
(*                                                                         *)
(* Abstractions.  Mutations are serialized by commit_mutex_, so one phase  *)
(* stands for the running call.  A record of the plane is the number of    *)
(* the mutation that put it and whether its evidence is live, which        *)
(* recovery revokes.  Bytes are left out: an append that did not finish    *)
(* leaves nothing, the whole record or a torn one, and a torn record is    *)
(* described by how many later records fit into its declared length.       *)
(* Temporary files are never read, so a failure before the rename leaves   *)
(* nothing.  A graceful shutdown is a checkpoint followed by the end of    *)
(* the process.                                                            *)
(***************************************************************************)
EXTENDS Integers, Sequences, FiniteSets

CONSTANTS
  Key,             \* identities of the records of the plane
  SnapshotEvery,   \* journal_records_before_snapshot
  MaxMutations,    \* bound on the mutations attempted
  MaxEpoch,        \* bound on the coordinator epoch
  MaxReach         \* bound on the records that fit into the length a torn record declares

ASSUME JournalBounds == /\ SnapshotEvery \in Nat \ {0} /\ MaxMutations \in Nat
                        /\ MaxEpoch \in Nat /\ MaxReach \in Nat

VARIABLES
  durable,    \* require_durable_commits
  phase,      \* where the running call or the recovery stands
  plane,      \* the plane in memory
  pending,    \* the journal record of the running mutation
  since,      \* journal_since_checkpoint_
  snapshot,   \* the plane in control.snapshot
  journal,    \* the records in control.journal
  issued,     \* the mutations attempted so far
  acked,      \* Key -> the newest acknowledged mutation that put it
  served,     \* the highest epoch a process has served with
  tainted     \* a failed append left its mark since the last complete checkpoint

vars == <<durable, phase, plane, pending, since, snapshot, journal, issued, acked, served,
          tainted>>

-----------------------------------------------------------------------------
Value == [version: Nat, live: BOOLEAN]
Plane == [records: [Key -> Value], epoch: Nat]
Record == [torn: {FALSE}, keys: SUBSET Key, version: Nat, epoch: Nat]
Torn == [torn: {TRUE}, reach: 0..MaxReach]

\* No mutation is running.
None == [torn |-> FALSE, keys |-> {}, version |-> 0, epoch |-> 0]
EmptyPlane == [records |-> [k \in Key |-> [version |-> 0, live |-> FALSE]], epoch |-> 1]

Phase == {"down", "boot_snapshot", "boot_reset", "idle", "appended", "snapshot", "reset"}
Serving == {"idle", "appended", "snapshot", "reset"}

TypeOK ==
  /\ durable \in BOOLEAN /\ phase \in Phase /\ tainted \in BOOLEAN
  /\ plane \in Plane /\ snapshot \in Plane
  /\ pending \in Record /\ journal \in Seq(Record \cup Torn)
  /\ since \in Nat /\ issued \in Nat /\ served \in Nat /\ acked \in [Key -> Nat]

-----------------------------------------------------------------------------
(* Reading the store *)

\* apply: whole-record puts, and an epoch that never decreases.
Apply(p, record) ==
  [records |-> [k \in Key |-> IF k \in record.keys
                              THEN [version |-> record.version, live |-> TRUE]
                              ELSE p.records[k]],
   epoch |-> IF record.epoch > p.epoch THEN record.epoch ELSE p.epoch]

TornAt(j) == {i \in DOMAIN j : j[i].torn}

\* Faulty variant: a torn tail is not tolerated.
CorruptTail(j) == TornAt(j) # {}

\* scan_journal fails: what follows a torn record is not a record.  As long as the bytes
\* that follow fit into the length it declares, they are taken for a truncated tail.
Corrupt(j) == \E i \in TornAt(j) : /\ \A h \in TornAt(j) : i <= h
                                   /\ Len(j) - i > j[i].reach

\* The records scan_journal returns: those before the first torn one.
Scanned(j) == {i \in DOMAIN j : \A h \in TornAt(j) : i < h}

Puts(j, k) == {i \in Scanned(j) : k \in j[i].keys}
LastPut(j, k, i) == i \in Puts(j, k) /\ \A h \in Puts(j, k) : h <= i

\* The highest epoch of the snapshot s and of the records of j.
LastEpoch(s, j, e) ==
  /\ e \in {s.epoch} \cup {j[i].epoch : i \in Scanned(j)}
  /\ e >= s.epoch /\ \A i \in Scanned(j) : e >= j[i].epoch

\* load: the snapshot s with every scanned record of j applied in order.  Records are not
\* filtered by their sequence, so those the snapshot already contains are applied again.
load(s, j) ==
  [records |-> [k \in Key |->
                  IF Puts(j, k) # {}
                  THEN [version |-> j[CHOOSE i \in Puts(j, k) : LastPut(j, k, i)].version,
                        live |-> TRUE]
                  ELSE s.records[k]],
   epoch |-> CHOOSE e \in {s.epoch} \cup {j[i].epoch : i \in Scanned(j)} : LastEpoch(s, j, e)]

\* What a restart would read.
OnDisk == load(snapshot, journal)

\* Faulty variant: the recovery keeps the epoch.
RecoveredSameEpoch(p) ==
  [p EXCEPT !.records = [k \in Key |-> [version |-> p.records[k].version, live |-> FALSE]]]

\* The recovery of initialize: the epoch advances and no evidence is live.
Recovered(p) ==
  [records |-> [k \in Key |-> [version |-> p.records[k].version, live |-> FALSE]],
   epoch |-> p.epoch + 1]

-----------------------------------------------------------------------------
(* A mutation *)

\* The records a mutation may append: whole-record puts, or an epoch advance.
NewRecord == {[torn |-> FALSE, keys |-> D, version |-> issued + 1, epoch |-> 0] :
                D \in SUBSET Key \ {{}}}
             \cup {[torn |-> FALSE, keys |-> {}, version |-> issued + 1, epoch |-> e] :
                     e \in {plane.epoch + 1} \cap 0..MaxEpoch}

\* What an append that did not finish may leave in the journal.
Unfinished(record) ==
  {journal, Append(journal, record)}
    \cup {Append(journal, [torn |-> TRUE, reach |-> n]) : n \in 0..MaxReach}

append(record) ==
  /\ phase = "idle" /\ issued < MaxMutations
  /\ issued' = issued + 1
  /\ journal' = Append(journal, record)
  /\ pending' = record /\ phase' = "appended"
  /\ UNCHANGED <<durable, plane, since, snapshot, acked, served, tainted>>

\* A write or a flush fails.  With require_durable_commits the mutation is refused, without
\* it the mutation is applied all the same.
append_failed(record) ==
  /\ phase = "idle" /\ issued < MaxMutations
  /\ issued' = issued + 1
  /\ journal' \in Unfinished(record)
  /\ tainted' = (tainted \/ journal' # journal \/ ~durable)
  /\ \/ durable /\ UNCHANGED <<pending, phase>>
     \/ ~durable /\ pending' = record /\ phase' = "appended"
  /\ UNCHANGED <<durable, plane, since, snapshot, acked, served>>

\* The process dies inside the append.
append_crashed(record) ==
  /\ phase = "idle" /\ issued < MaxMutations
  /\ issued' = issued + 1
  /\ journal' \in Unfinished(record)
  /\ phase' = "down" /\ plane' = EmptyPlane /\ since' = 0
  /\ UNCHANGED <<durable, pending, snapshot, acked, served, tainted>>

\* The mutation returns without an error.
Acknowledged(record) ==
  [k \in Key |-> IF k \in record.keys THEN record.version ELSE acked[k]]

apply ==
  /\ phase = "appended"
  /\ plane' = Apply(plane, pending)
  /\ served' = plane'.epoch
  /\ since' = since + 1
  /\ \/ since' >= SnapshotEvery /\ phase' = "snapshot" /\ UNCHANGED <<acked, pending>>
     \/ since' < SnapshotEvery /\ phase' = "idle" /\ acked' = Acknowledged(pending)
        /\ pending' = None
  /\ UNCHANGED <<durable, snapshot, journal, issued, tainted>>

-----------------------------------------------------------------------------
(* A checkpoint, of a mutation, of persist() or of the recovery *)

persist == /\ phase = "idle" /\ phase' = "snapshot"
           /\ UNCHANGED <<durable, plane, pending, since, snapshot, journal, issued, acked,
                          served, tainted>>

\* The temporary snapshot is written, flushed and renamed.
replace_snapshot ==
  /\ phase \in {"snapshot", "boot_snapshot"}
  /\ snapshot' = plane
  /\ phase' = IF phase = "snapshot" THEN "reset" ELSE "boot_reset"
  /\ UNCHANGED <<durable, plane, pending, since, journal, issued, acked, served, tainted>>

\* Faulty variant: the threshold is subtracted from the count instead of resetting it.
ResetByThreshold ==
  /\ phase \in {"reset", "boot_reset"}
  /\ journal' = << >> /\ since' = since - SnapshotEvery /\ tainted' = FALSE
  /\ phase' = "idle" /\ served' = plane.epoch
  /\ acked' = Acknowledged(pending) /\ pending' = None
  /\ UNCHANGED <<durable, plane, snapshot, issued>>

\* The journal is replaced by an empty one.
reset_journal ==
  /\ phase \in {"reset", "boot_reset"}
  /\ journal' = << >> /\ since' = 0 /\ tainted' = FALSE
  /\ phase' = "idle" /\ served' = plane.epoch
  /\ acked' = Acknowledged(pending) /\ pending' = None
  /\ UNCHANGED <<durable, plane, snapshot, issued>>

\* Faulty variant: a snapshot that could not be written does not keep the journal.
IgnoreSnapshotFailure ==
  /\ phase \in {"snapshot", "boot_snapshot"}
  /\ phase' = IF phase = "snapshot" THEN "reset" ELSE "boot_reset"
  /\ UNCHANGED <<durable, plane, pending, since, snapshot, journal, issued, acked, served,
                 tainted>>

\* Either step fails.  The recovery does not open the runtime then; a mutation stays applied
\* but is reported as failed with require_durable_commits.
checkpoint_failed ==
  /\ \/ /\ phase \in {"snapshot", "reset"}
        /\ phase' = "idle" /\ pending' = None
        /\ acked' = IF durable THEN acked ELSE Acknowledged(pending)
        /\ UNCHANGED plane
     \/ /\ phase \in {"boot_snapshot", "boot_reset"}
        /\ phase' = "down" /\ plane' = EmptyPlane
        /\ UNCHANGED <<pending, acked>>
  /\ UNCHANGED <<durable, since, snapshot, journal, issued, served, tainted>>

-----------------------------------------------------------------------------
(* The process *)

\* Faulty variant: the recovered plane is served without a checkpoint.
ServeAtOnce ==
  /\ phase = "down" /\ ~Corrupt(journal)
  /\ OnDisk.epoch < MaxEpoch
  /\ plane' = Recovered(OnDisk) /\ since' = 0
  /\ phase' = "idle" /\ served' = plane'.epoch
  /\ UNCHANGED <<durable, pending, snapshot, journal, issued, acked, tainted>>

initialize ==
  /\ phase = "down" /\ ~Corrupt(journal)
  /\ OnDisk.epoch < MaxEpoch
  /\ plane' = Recovered(OnDisk) /\ since' = 0
  /\ phase' = "boot_snapshot"
  /\ UNCHANGED <<durable, pending, snapshot, journal, issued, acked, served, tainted>>

crash == /\ phase # "down" /\ phase' = "down"
         /\ plane' = EmptyPlane /\ pending' = None /\ since' = 0
         /\ UNCHANGED <<durable, snapshot, journal, issued, acked, served, tainted>>

Init == /\ durable \in BOOLEAN /\ phase = "down" /\ plane = EmptyPlane /\ pending = None
        /\ since = 0 /\ snapshot = EmptyPlane /\ journal = << >> /\ issued = 0
        /\ acked = [k \in Key |-> 0] /\ served = 0 /\ tainted = FALSE

Next == \/ \E record \in NewRecord : \/ append(record)
                                     \/ append_failed(record)
                                     \/ append_crashed(record)
        \/ apply
        \/ persist \/ replace_snapshot \/ reset_journal \/ checkpoint_failed
        \/ initialize \/ crash

Spec == Init /\ [][Next]_vars

-----------------------------------------------------------------------------
(* Properties *)

\* Between two mutations a restart would read exactly the plane that is served, whatever
\* checkpoints failed half way, as long as no append has failed since the last complete one.
ServedIsDurable == phase = "idle" /\ ~tainted => ~Corrupt(journal) /\ OnDisk = plane

\* A crash alone never leaves a store that cannot be opened again.
CrashedStoreOpens == ~tainted => ~Corrupt(journal)

\* A process starts to serve with an epoch above every epoch served before it, so that what
\* was minted by an earlier process is fenced.
NewProcessHasNewEpoch ==
  [][phase = "boot_reset" /\ phase' = "idle" /\ ~tainted => plane.epoch > served]_vars

\* The store keeps the promise of AtomicStore.
Versions(p) == [k \in Key |-> p.records[k].version]
Up == phase \in Serving
Stored == IF Corrupt(journal) THEN [k \in Key |-> 0] ELSE Versions(OnDisk)
View == IF Up THEN Versions(plane) ELSE [k \in Key |-> 0]
Promise == INSTANCE AtomicStore WITH
  stored <- Stored, view <- View, up <- Up, damaged <- tainted
KeepsPromise == Promise!Spec

\* "A single truncated journal tail record is discarded as an unacknowledged mutation": what
\* was acknowledged is served by every later process.
AcknowledgedIsServed ==
  phase = "idle" /\ durable => \A k \in Key : plane.records[k].version >= acked[k]
=============================================================================
