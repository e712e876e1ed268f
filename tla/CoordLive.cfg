SPECIFICATION FairSpec
CONSTANTS
  Miners = {m1}
  Patches = {p1}
  Cap = 1
  MaxBlocks = 2
  MaxTime = 2
  MaxReorgs = 1
  ReorgDepth = 1
  Settling = 1
  MaxStandard = 0
  MayRoll = FALSE
  Depth = 1
  Ttl = 1
  Grace = 1
  MaxSnapshots = 64
  SignerHashes = {TRUE}
  Faults = {TRUE, FALSE}
  MaxSigned = 1
  MaxFreezes = 1
  MaxBoots = 1
  MaxRecomputes = 0
PROPERTIES
  Synced
  Answered
CHECK_DEADLOCK FALSE
