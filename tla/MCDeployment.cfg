CONSTANTS
  a1 = a1
  a2 = a2
  a3 = a3
  a4 = a4
  k1 = k1
  k2 = k2
  c1 = c1
  c2 = c2
  s1 = s1
  l1 = l1
  StateId = {s1}
  Generation = {1}
  Lineage = {l1}
  Cluster = {c1, c2}
  ReplicaId = {1, 2, 3}
  OperationId = {1, 2}
  MaxReplicasPerState = 3
  MaxInFlight = 2
  MaxSetGeneration = 6
  MaxIncarnation = 2
  MaxEpoch = 2
  SpecInput <- NoSpec
  DigestInput = {"MATCH", "MISMATCH"}
  CompatibilityInput = {"COMPATIBLE"}
  Agent = {a1, a2, a3, a4}
  Controller = {k1, k2}
  ClusterOf <- TwoClusters
  BootId = {1, 2}
  ProcessId <- Processes
  MaxAckFrames = 2
  Hosting <- Replaced
  MaxFaults = 1
SPECIFICATION DeploymentSpec
CHECK_DEADLOCK FALSE
INVARIANTS DeploymentType RecordedBytesAreStored HandledRequestsStayConnected
  IncarnationsAreDistinct
PROPERTIES FencedAgentChangesNothing LinkLossEndsAgent TransferIsReported ShutdownCompletes
