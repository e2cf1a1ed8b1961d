SPECIFICATION FairSpec
CONSTANTS
  None = None
  s1 = s1
  s2 = s2
  Sweeps = {s1, s2}
  AnomalyCodes <- AllAnomalies
  Faults <- AllFaults
  DEDUP_WINDOW = 3
INVARIANTS
  TypeOK
PROPERTIES
  BlindnessReported
  RecoveryReported
  StuckAnomalyStopsPaging
