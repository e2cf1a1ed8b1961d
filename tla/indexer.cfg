SPECIFICATION Spec
CONSTANTS
  None = None
  p1 = p1
  p2 = p2
  Pools = {p1, p2}
  Cycles = {c1, c2}
  inactivitySeconds = 1
  minTvlLamports = 1
  lpBurnDustThreshold = 0
  ttlMs = 2
  scanLimit = 2
  maxCandidatesPerCycle = 2
  maxPoolsPerScan = 2
  ScannerRefuses = {}
  HashKinds = {"blockhash", "bank hash"}
  Reserves <- RichOrDrained
  InitialReserves <- BothRich
  InitialSignatures <- SwapThenOther
  MaxTime = 3
  MaxLate = 1
  MaxDisturbances = 1
INVARIANTS
  TypeOK
  AttestedEvidenceExplained
SYMMETRY CycleSymmetry
