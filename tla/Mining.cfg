SPECIFICATION MCMiningSpec
CONSTANTS
  Miners = {m1, m2}
  MaxEpoch = 2
  MaxTime = 3
  Registries = {r1}
  Roots <- MCRoots
  Pins = {v1}
  Patches <- MCPatches
  NoRoot = NoRoot
  NoContext = NoContext
  NoHeader = NoHeader
  Receipts <- MCReceiptSet
  Challenges = {c1}
  Signers = {s1}
  Secrets = {k1}
  NoSecret = NoSecret
  ContextInputs <- MCContexts
  InitialPolicy <- MCPolicy
  PolicyInputs <- MCNoPolicies
  MaxPolicies = 1
  MaxWorkBps = 300000
  MaxScorePpm = 1000000
  MaxReceiptTtl = 3
  MaxPatchWords = 4
  InitialCap = 1
  Caps = {}
  PauseInputs = {}
  TierCredits = {0, 1, 3}
  NoBytes = NoBytes
  MaxIndex = 2
  Amounts = {1, 2}
  TierTables <- MCTables
  ExternalTables <- MCOneTable
  ExternalAnswers <- MCOneAnswer
  MinCooldown = 2
  MaxCooldown = 2
  SwitchModes = {"ExternalV3", "NativeV4"}
  NoSwitch = NoSwitch
  MaxStaked = 2
  MaxFunding = 3
  MaxClaimEpochs = 2
  MaxBalance = 1
INVARIANTS
  Solvent
  ClaimsCovered
PROPERTIES
  PayoutSettled
  StakeBackedCredit
SYMMETRY MCSymmetry
