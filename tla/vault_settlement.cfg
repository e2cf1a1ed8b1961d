SPECIFICATION Spec
CONSTANTS
  None = None
  h1 = h1
  h2 = h2
  h3 = h3
  p1 = p1
  p2 = p2
  wsol = wsol
  meme = meme
  quote = quote
  Pools = {p2}
  Holders = {h1}
  Mints = {wsol, meme, quote}
  WSOL = wsol
  PoolAccount <- PcSidePool
  Submissions <- SettlementSubmissions
  AmmOutcomes <- SettlementAmmOutcomes
  RouteOutcomes <- SettlementRoutes
  InitParams <- SettlementInits
  ConfigUpdates <- SettlementUpdates
  LpSupplies = {6}
  GiftAmounts = {1, 3}
  RENT = 2
  ATA_RENT = 1
  U64_MAX = 100
  CertTtls = {2}
  TickSeconds = {1}
  MaxTime = 2
INVARIANTS
  TypeOK
  ProceedsConserved
  ProtocolWithinCeiling
  ProceedsFloor
PROPERTIES
  ReceiptAlarmsExplained
