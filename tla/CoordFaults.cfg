SPECIFICATION Spec
CONSTANTS
  Miners = {m1, m2}
  Patches = {p1, p2}
  Cap = 1
  MaxBlocks = 3
  MaxTime = 2
  MaxReorgs = 1
  ReorgDepth = 3
  Settling = 0
  MaxStandard = 0
  MayRoll = TRUE
  Depth = 1
  Ttl = 2
  Grace = 1
  MaxSnapshots = 64
  SignerHashes = {TRUE}
  Faults = {TRUE}
  MaxSigned = 2
  MaxFreezes = 1
  MaxBoots = 2
  MaxRecomputes = 1
INVARIANTS
  SnapshotsLinked
  PendingHonest
PROPERTIES
  FreezeHolds
  FreezeCutsInFlight
ACTION_CONSTRAINT FaultsBound
SYMMETRY MCSymmetry
CHECK_DEADLOCK FALSE
