SPECIFICATION Spec
CONSTANTS
  None = None
  h1 = h1
  h2 = h2
  h3 = h3
  p1 = p1
  p2 = p2
  wsol = wsol
  meme = meme
  quote = quote
  Pools = {p1}
  Holders = {h1, h2, h3}
  Mints = {wsol, meme, quote}
  WSOL = wsol
  PoolAccount <- OnePool
  Submissions <- ClaimSubmissions
  AmmOutcomes <- ClaimAmmOutcomes
  RouteOutcomes = {}
  InitParams <- ClaimInits
  ConfigUpdates <- ClaimUpdates
  LpSupplies = {0, 6}
  GiftAmounts = {3}
  RENT = 2
  ATA_RENT = 1
  U64_MAX = 100
  CertTtls = {2}
  TickSeconds = {1}
  MaxTime = 3
INVARIANTS
  LpBucketSolvent
  ClaimsAccounted
  HonestHolderCanAlwaysClaim
  RoundingDustBounded
  SealedSupplyPositive
PROPERTIES
  SettlementFinal
  LpVaultUnsweepable
  ImplementsLpEscrow
