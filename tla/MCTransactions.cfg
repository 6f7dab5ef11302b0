CONSTANTS
  StateId = {s1}
  Generation = {1}
  Lineage = {l1}
  Cluster = {c1, c2}
  ReplicaId = {1, 2}
  OperationId = {1}
  MaxReplicasPerState = 2
  MaxInFlight = 1
  MaxSetGeneration = 3
  MaxIncarnation = 1
  MaxEpoch = 3
  SpecInput <- Mutable
  DigestInput = {"MATCH"}
  CompatibilityInput = {"COMPATIBLE"}
SPECIFICATION Spec
SYMMETRY Interchangeable
PROPERTIES RestartKeepsMembership JoinAdvancesSet CommitsBelongToThisProcess CommitLeavesAuthority OutcomeIsFinal
