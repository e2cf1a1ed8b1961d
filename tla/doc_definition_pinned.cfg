SPECIFICATION Spec
CONSTANTS
  None = None
  p1 = p1
  k1 = k1
  keyA = keyA
  keyB = keyB
  pairA = pairA
  pairB = pairB
  Pools = {p1}
  Locks = {}
  LockAmounts = {}
  Oracles = {keyA}
  HonestOracles = {keyA}
  ForgedTimestamps = {}
  Pairs = {pairA}
  PoolPair <- OnePair
  Markets <- DeadMarket
  LaunchPrices = {100}
  PRICE_ONE = 1
  ConfigUpdates <- DriftUpdates
  InitParams <- SomeParams
  LegacyConfigs = {}
  MIN_EPOCH_CONFIRMATION = 2
  APPROX_EPOCH_DURATION_SECONDS = 2
  MIN_CERT_TTL_SECONDS = 1
  SLOTS_PER_EPOCH = 1
  SLOT_HASHES = 1
  TickSeconds = {1}
  MaxSlot = 8
  MaxSwaps = 1
  MaxAttestations = 4
PROPERTIES
  DefinitionPinnedAcrossPhases
