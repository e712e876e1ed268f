SPECIFICATION SyncSpec
CONSTANTS
  MaxEpoch = 2
  MaxBlocks = 5
  MaxReorgs = 0
  MaxCrashes = 0
  MaxWipes = 0
  Depth = 1
  Rotates = {2}
  Pins = {}
  NoPin = NoPin
  NoState = NoState
  NoSnapshot = NoSnapshot
  NoStage = NoStage
INVARIANTS
  IncrementalInOrder
CHECK_DEADLOCK FALSE
