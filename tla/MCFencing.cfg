CONSTANTS
  StateId = {s1}
  Generation = {1}
  Lineage = {l1}
  Cluster = {c1}
  ReplicaId = {1, 2}
  OperationId = {}
  MaxReplicasPerState = 2
  MaxInFlight = 1
  MaxSetGeneration = 4
  MaxIncarnation = 2
  MaxEpoch = 3
  SpecInput <- Mutable
  DigestInput = {"MATCH"}
  CompatibilityInput = {"COMPATIBLE", "UNKNOWN"}
SPECIFICATION Spec
INVARIANTS TypeOK CountedOnLiveIncarnation SingleOwner OwnerIsNeverRetired ReuseNeedsCurrentEvidence
