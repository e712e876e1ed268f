SPECIFICATION WalkSpec
CONSTANTS
  EventIds = {1, 2, 3, 4, 5, 6, 7}
  Contents = {1, 2}
  NoCache = NoCache
  Launch <- MCLaunch
  Changes <- MCChanges
  Defects = {"none"}
  MaxChain = 1
  MaxEntries = 2
  CacheLimit = 2
  Bundles = {"b1", "b2"}
  LoadedBundle = "b1"
  NoWalk = NoWalk
INVARIANT NeverMismatchedBundle
CHECK_DEADLOCK FALSE
