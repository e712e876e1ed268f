SPECIFICATION MCPlatformSpec
CONSTANTS
  Depth = 3
  HeaderWords = {0}
  CompanionWords = {1, 2}
  PolicyWords = {3, 4}
  ZeroWords = {5, 6}
  ReservedWords = {7}
  PolicyAtoms = TRUE
  Patches <- MCPatches
  Threshold = 1
  MaxBatch = 3
  MaxAdvances = 3
  BonusEpochs = {1, 2}
  BonusMiners = {"m1", "m2", "m3"}
  BonusCredits <- MCCredits
  Lucky = {"lucky"}
  Hashes = {"lucky", "plain"}
  HashWindow = 1
  BotcoinReserve = FALSE
  LastBlock = 4
  MaxPool = 3
  MaxReserve = 1
  NoHash = NoHash
  Passes <- MCPasses
  ClaimBase <- MCClaimBase
  Uplift = 5000
  HandlerMiners = {"h1", "h2"}
  Requests = {"r1", "r2"}
  Challenges = {"c1", "c2"}
  LastSecond = 2
  MaxLinks = 2
  NoChallenge = NoChallenge
  ScoreCalls = {"s1", "s2", "s3"}
  Pairs = {1, 2, 3}
  CallLists <- MCLists
  BatchSize = 1
  CacheSize = 2
  CorpusRows <- MCRows
  DisabledFamilies = {"off"}
  FamilyOrder <- MCFamilies
  Quotas <- MCQuotas
  PackSize = 3
  LiveLimit = 3
  MaxDraws = 2
  LastEpoch = 3
  MaxRuns = 4
  NoRun = NoRun
  LaunchAt = 1
  LastRotation = 3
  LaunchRows = 4
  MinFresh = 1
  MaxFresh = 2
  RetireHorizon = 2
  ActiveWindow = 2
  ChurnRate = 1
  MinChurn = 1
  MaxChurn = 2
  MaxAge = 3
  MaxRootDelta = 2
  FrontierModes = {"C0", "C1", "C2", "C3", "C4"}
  StartPpm = 2000
  Target = 3
  Tolerance = 100
  Advances = {0, 2, 3, 4, 9}
  Attempts = {0, 1, 12}
  Baselines = {0, 900000}
  Variances = {0, 5000}
  Noises = {0, 4000}
  Probes = {0, 500000, 1000000}
  MaxBusy = 2
INVARIANTS
  LaneReplays
  BonusCovered
  FundedOnce
  
  ScoresAreTheirs
  PackExact
  NoForkedEpoch
  FrontierIsPool

  
CHECK_DEADLOCK FALSE
