SPECIFICATION FairSpec
CONSTANTS
  None = None
  h1 = h1
  h2 = h2
  h3 = h3
  p1 = p1
  p2 = p2
  wsol = wsol
  meme = meme
  quote = quote
  Pools = {p1, p2}
  Holders = {h1, h2}
  Mints = {wsol, meme, quote}
  WSOL = wsol
  PoolAccount <- TwoPools
  Submissions <- DustSubmissions
  AmmOutcomes <- DustAmmOutcomes
  RouteOutcomes <- DustRoutes
  InitParams <- DustInits
  ConfigUpdates <- DustUpdates
  LpSupplies = {6}
  GiftAmounts = {}
  RENT = 2
  ATA_RENT = 1
  U64_MAX = 100
  CertTtls = {2}
  TickSeconds = {1}
  MaxTime = 2
INVARIANTS
  RetainedDustRecoverable
PROPERTIES
  HonestHoldersEventuallyPaid
