SPECIFICATION Spec
CONSTANTS
  Miners = {m1}
  Patches = {p1, p2}
  Cap = 1
  MaxBlocks = 2
  MaxTime = 3
  MaxReorgs = 0
  ReorgDepth = 0
  Settling = 0
  MaxStandard = 1
  MayRoll = FALSE
  Depth = 1
  Ttl = 1
  Grace = 1
  MaxSnapshots = 64
  SignerHashes = {TRUE, FALSE}
  Faults = {}
  MaxSigned = 3
  MaxFreezes = 0
  MaxBoots = 1
  MaxRecomputes = 0
INVARIANTS
  OneReceiptPerLink
  OneReceiptPerPatch
  CapHolds
SYMMETRY MCSymmetry
CHECK_DEADLOCK FALSE
