SPECIFICATION MCReceiptsSpec
CONSTANTS
  Miners = {m1, m2}
  MaxEpoch = 1
  MaxTime = 3
  Registries = {r1, r2}
  Roots <- MCRoots
  Pins = {v1}
  Patches <- MCThreePatches
  NoRoot = NoRoot
  NoContext = NoContext
  NoHeader = NoHeader
  Receipts <- MCReceiptSet
  Challenges = {c1}
  Signers = {s1}
  Secrets = {k1}
  NoSecret = NoSecret
  ContextInputs <- MCContexts
  InitialPolicy <- MCPolicy1
  PolicyInputs <- MCNewPolicies
  MaxPolicies = 2
  MaxWorkBps = 300000
  MaxScorePpm = 1000000
  MaxReceiptTtl = 3
  MaxPatchWords = 4
  InitialCap = 1
  Caps = {2}
  PauseInputs = {TRUE, FALSE}
  TierCredits = {1}
  NoBytes = NoBytes
  MaxIndex = 2
  MaxDifficulty = 2
  Windows <- MCWindow
INVARIANTS
  OnePatchOneCredit
  AdvancesAreCredited
  DifficultyUsedOnce
  CreditsReplayable
  SealMatchesLog
SYMMETRY MCSymmetry
