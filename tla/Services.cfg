SPECIFICATION ServicesSpec
CONSTANTS
  Jobs = {j1, j2, j3}
  Concurrency = 1
  MaxQueueDepth = 1
  MaxBatches = 1
  MaxMoves = 2
  MaxScore = 1
  JobDefects = {"none", "parent-mismatch"}
  Calls = {c1, c2, c3, c4}
  Workers = {w1, w2}
  MaxQueueSize = 1
  MaxErrors = 2
  NoEntry = NoEntry
PROPERTIES
  
  ScorerIsService
  JobsAnswered
  PoolIsService
CHECK_DEADLOCK FALSE
