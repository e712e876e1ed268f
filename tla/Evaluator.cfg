SPECIFICATION EvaluatorFairSpec
CONSTANTS
  Miners = {m1, m2}
  Keys = {k1, k2}
  NoMiner = NoMiner
  NoCall = NoCall
  Cap = 1
  Offset = 1
  Finality = 2
  MaxBlocks = 3
  MaxForks = 1
  MaxFaults = 2
INVARIANTS
  OnePackPerKey
  AdmissionsCharged
  AcceptedIsPublished
PROPERTIES
  DrawnSettles
CHECK_DEADLOCK FALSE
