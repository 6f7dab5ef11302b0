CONSTANTS
  StateId = {s1}
  Generation = {1}
  Lineage = {l1}
  Cluster = {c1}
  ReplicaId = {1}
  OperationId = {}
  MaxReplicasPerState = 2
  MaxInFlight = 1
  MaxSetGeneration = 4
  MaxIncarnation = 1
  MaxEpoch = 3
  SpecInput <- Mutable
  DigestInput = {"MATCH", "MISMATCH"}
  CompatibilityInput = {"COMPATIBLE", "UNKNOWN"}
SPECIFICATION Spec
INVARIANTS RevalidationReportIsAccurate
