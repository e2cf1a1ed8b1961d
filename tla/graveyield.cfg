SPECIFICATION SystemSpec
CONSTANTS
  None = None
  p1 = p1
  k1 = k1
  keyA = keyA
  keyB = keyB
  pairA = pairA
  h1 = h1
  wsol = wsol
  meme = meme
  Pools = {p1}
  Locks = {}
  LockAmounts = {}
  Oracles = {keyA, keyB}
  HonestOracles = {keyA}
  ForgedTimestamps = {1}
  Pairs = {pairA}
  PoolPair <- OnePair
  Markets <- DeadMarket
  LaunchPrices = {100}
  PRICE_ONE = 1
  ConfigUpdates <- ScannerUpdates
  InitParams <- ScannerParams
  LegacyConfigs = {}
  MIN_EPOCH_CONFIRMATION = 1
  APPROX_EPOCH_DURATION_SECONDS = 2
  MIN_CERT_TTL_SECONDS = 1
  SLOTS_PER_EPOCH = 1
  SLOT_HASHES = 1
  TickSeconds = {1}
  MaxSlot = 8
  MaxSwaps = 1
  MaxAttestations = 3
  Holders = {h1}
  Mints = {wsol, meme}
  WSOL = wsol
  PoolAccount <- OnePool
  Submissions <- OneSubmission
  AmmOutcomes <- OneWithdraw
  RouteOutcomes = {}
  VaultInitParams <- VaultParams
  VaultConfigUpdates = {}
  GiftAmounts = {}
  RENT = 1
  ATA_RENT = 1
  U64_MAX = 100
  CERT_TTL = 2
PROPERTIES
  CertFreshlyEvidenced
  ImplementsVault
  SalvageFreshlyEvidenced
  RevocationTakesEffect
