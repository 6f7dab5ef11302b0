CONSTANTS
  StateId = {s1}
  Generation = {1}
  Lineage = {l1}
  Cluster = {c1}
  ReplicaId = {1, 2}
  OperationId = {}
  MaxReplicasPerState = 2
  MaxInFlight = 1
  MaxSetGeneration = 5
  MaxIncarnation = 1
  MaxEpoch = 2
  SpecInput <- Mutable
  DigestInput = {"MATCH"}
  CompatibilityInput = {"COMPATIBLE"}
SPECIFICATION Spec
PROPERTIES TerminalReplicaIsFinal
