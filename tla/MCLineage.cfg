CONSTANTS
  StateId = {s1}
  Generation = {1, 2}
  Lineage = {l1, l2}
  Cluster = {c1}
  ReplicaId = {1}
  OperationId = {}
  MaxReplicasPerState = 2
  MaxInFlight = 1
  MaxSetGeneration = 4
  MaxIncarnation = 1
  MaxEpoch = 2
  SpecInput <- Branching
  DigestInput = {"MATCH", "MISMATCH"}
  CompatibilityInput = {"COMPATIBLE", "UNKNOWN"}
SPECIFICATION Spec
INVARIANTS OneLineagePerState
