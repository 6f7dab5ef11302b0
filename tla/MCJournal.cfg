CONSTANTS
  Key = {k1, k2}
  SnapshotEvery = 2
  MaxMutations = 4
  MaxEpoch = 4
  MaxReach = 1
SPECIFICATION Spec
SYMMETRY Alike
INVARIANTS TypeOK ServedIsDurable CrashedStoreOpens
PROPERTIES NewProcessHasNewEpoch KeepsPromise
CHECK_DEADLOCK FALSE
