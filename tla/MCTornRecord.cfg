CONSTANTS
  Key = {k1, k2}
  SnapshotEvery = 2
  MaxMutations = 3
  MaxEpoch = 4
  MaxReach = 1
SPECIFICATION Spec
INVARIANT AcknowledgedIsServed
CHECK_DEADLOCK FALSE
