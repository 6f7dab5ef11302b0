CONSTANTS
  s1 = s1
  l1 = l1
  Far = 3
  StateId = {s1}
  Generation = {1}
  Lineage = {l1}
  Cluster = {1, 2, 3}
  ReplicaId = {1, 2, 3}
  OperationId = {1, 2}
  MaxReplicasPerState = 3
  MaxInFlight = 2
  MaxSetGeneration = 4
  MaxIncarnation = 2
  MaxEpoch = 3
  SpecInput <- NoSpec
  DigestInput = {"MATCH"}
  CompatibilityInput = {"COMPATIBLE"}
  Facts <- ClusterFacts
  StateFacts <- TheState
  Policy <- ThePolicy
  Prices <- ThePrices
  TheBuild = "folds the test"
  MaxInt = 127
  Mib = 4
  MaxAttributes = 4
  FixedOne = 8
  ReuseCap = 8
  CostCap = 8
  BandwidthCap = 8
  DurationCap = 8
  Quotes <- SomeQuotes
  Amounts <- SomeAmounts
  Reuses <- SomeReuses
  Sizes = {0, 1, 2, 5, 8, 127, 200, 255}
  Demands = {0, 3}
  CountRange = 8
SPECIFICATION PlanningSpec
CHECK_DEADLOCK FALSE
INVARIANTS PlanIsLegal NoDuplicateHost KnownPriceIsExact RequirementsSettle
PROPERTIES MissingEvidenceNeverHelps ChoiceIgnoresOrder DearerTransferNeverPreferred
