SPECIFICATION Spec
CONSTANTS
  None = None
  p1 = p1
  k1 = k1
  keyA = keyA
  keyB = keyB
  pairA = pairA
  pairB = pairB
  Pools = {p1}
  Locks = {k1}
  LockAmounts = {0, 1}
  Oracles = {keyA}
  HonestOracles = {keyA}
  ForgedTimestamps = {}
  Pairs = {pairA, pairB}
  PoolPair <- OnePair
  Markets <- TwoMarkets
  LaunchPrices = {100}
  PRICE_ONE = 1
  ConfigUpdates <- LifecycleUpdates
  InitParams <- SomeParams
  LegacyConfigs <- Legacy
  MIN_EPOCH_CONFIRMATION = 2
  APPROX_EPOCH_DURATION_SECONDS = 2
  MIN_CERT_TTL_SECONDS = 1
  SLOTS_PER_EPOCH = 1
  SLOT_HASHES = 1
  TickSeconds = {1}
  MaxSlot = 10
  MaxSwaps = 1
  MaxAttestations = 3
INVARIANTS
  TypeOK
  InvalidationRemembered
PROPERTIES
  AnchorLifecycle
  CertIssueSound
  InvalidationForcesReobservation
  LoneLockBlocksCert
