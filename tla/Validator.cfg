SPECIFICATION MCValidatorSpec
CONSTANTS
  MaxEpoch = 2
  MaxBlocks = 4
  MaxReorgs = 1
  MaxCrashes = 1
  MaxWipes = 1
  Depth = 1
  Rotates = {2}
  Pins <- MCPins
  NoPin = NoPin
  NoState = NoState
  NoSnapshot = NoSnapshot
  NoStage = NoStage
  EventIds = {1, 2, 3, 4, 5, 6, 7}
  Contents = {1, 2}
  NoCache = NoCache
  Launch <- MCLaunch
  Changes <- MCChanges
  Defects = {"none", "missing", "result"}
  MaxChain = 3
  MaxEntries = 2
  CacheLimit = 1
  Bundles = {"b1", "b2"}
  LoadedBundle = "b1"
  NoWalk = NoWalk
  Launches = {"l1", "l2"}
  Payloads <- MCPayloads
  Sources = {"corpus"}
  ContentOf <- MCContentOf
  SetupCrashes = 1
  MaxDrifts = 1
  NoFile = NoFile
  NoRun = NoRun
INVARIANTS
  BacklogComplete
  ThroughIsVerified
  CorpusRootExact
  
  ReadyCorpusWhole
CHECK_DEADLOCK FALSE
