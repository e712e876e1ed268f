SPECIFICATION Spec
CONSTANTS
  Miners = {m1}
  Patches = {p1, p2}
  Cap = 1
  MaxBlocks = 1
  MaxTime = 1
  MaxReorgs = 1
  ReorgDepth = 1
  Settling = 0
  MaxStandard = 0
  MayRoll = FALSE
  Depth = 1
  Ttl = 2
  Grace = 1
  MaxSnapshots = 64
  SignerHashes = {TRUE}
  Faults = {}
  MaxSigned = 3
  MaxFreezes = 0
  MaxBoots = 1
  MaxRecomputes = 0
INVARIANT OneReceiptPerLink
CHECK_DEADLOCK FALSE
