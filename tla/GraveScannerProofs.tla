------------------------- MODULE GraveScannerProofs -------------------------
(***************************************************************************)
(* Proofs about GraveScanner, for every set of pools, locks and oracles,   *)
(* every epoch length, confirmation gap and configuration.                 *)
(***************************************************************************)
EXTENDS GraveScanner, SetSums

-----------------------------------------------------------------------------
(***************************************************************************)
(* Arithmetic of the epoch clock.                                          *)
(***************************************************************************)

\* Division by a positive divisor: the quotient and its two bounds.
LEMMA DivBounds ==
    ASSUME NEW x \in Nat, NEW d \in Nat \ {0}
    PROVE  /\ x \div d \in Nat
           /\ d * (x \div d) <= x
           /\ x < d * (x \div d) + d
OBVIOUS

\* A quotient cannot shrink when the dividend grows.
LEMMA DivMonotone ==
    ASSUME NEW x \in Nat, NEW y \in Nat, NEW d \in Nat \ {0}, x <= y
    PROVE  x \div d <= y \div d
<1> DEFINE m == x \div d
           n == y \div d
<1>1. m \in Nat /\ d * m <= x
    BY DivBounds
<1>2. n \in Nat /\ y < d * n + d
    BY DivBounds
<1> HIDE DEF m, n
<1>3. d * m < d * n + d
  <2>1. d * m \in Int /\ d * n \in Int
      BY <1>1, <1>2
  <2> QED
      BY <1>1, <1>2, <2>1
<1>4. m <= n
  <2> SUFFICES ASSUME n + 1 <= m PROVE FALSE
      BY <1>1, <1>2
  <2>1. PICK k \in Nat : m = n + 1 + k
    <3>1. m - (n + 1) \in Nat
        BY <1>1, <1>2
    <3> QED
        BY <1>1, <1>2, <3>1
  <2>2. d * m = d * n + d + d * k
      BY <1>2, <2>1
  <2>3. d * k \in Nat /\ d * n \in Nat
      BY <1>2
  <2> QED
      BY <1>3, <2>2, <2>3
<1> QED
    BY <1>4 DEF m, n

\* The rounded-up quotient of at least n whole divisors is at least n.
LEMMA CeilAtLeast ==
    ASSUME NEW n \in Nat, NEW d \in Nat \ {0}, NEW x \in Nat, n * d <= x
    PROVE  (x + d - 1) \div d >= n /\ (x + d - 1) \div d \in Nat
<1>1. n * d \in Nat /\ x + d - 1 \in Nat /\ n * d <= x + d - 1
    <2>1. n * d \in Nat
        OBVIOUS
    <2> QED
        BY <2>1
<1>2. (n * d) \div d <= (x + d - 1) \div d
    BY <1>1, DivMonotone
<1>3. (n * d) \div d >= n /\ (n * d) \div d \in Nat
  <2> DEFINE q == (n * d) \div d
  <2>1. q \in Nat /\ n * d < d * q + d
      BY <1>1, DivBounds
  <2> HIDE DEF q
  <2>2. q >= n
    <3> SUFFICES ASSUME q + 1 <= n PROVE FALSE
        BY <2>1
    <3>1. PICK k \in Nat : n = q + 1 + k
      <4>1. n - (q + 1) \in Nat
          BY <2>1
      <4> QED
          BY <2>1, <4>1
    <3>2. n * d = d * q + d + d * k
        BY <2>1, <3>1
    <3>3. d * k \in Nat /\ d * q \in Nat
        BY <2>1
    <3> QED
        BY <2>1, <3>2, <3>3
  <2> QED
      BY <2>1, <2>2 DEF q
<1>4. (x + d - 1) \div d \in Nat
    BY <1>1, DivBounds
<1> QED
    BY <1>2, <1>3, <1>4

\* The clamp leaves Phase 2 a window of MIN_EPOCH_CONFIRMATION + 1 epochs.
LEMMA StalenessWindow ==
    ASSUME scfg \in ProtocolConfig
    PROVE  /\ StalenessEpochs \in Nat
           /\ StalenessEpochs >= MIN_EPOCH_CONFIRMATION + 1
<1> DEFINE n == MIN_EPOCH_CONFIRMATION + 1
           d == APPROX_EPOCH_DURATION_SECONDS
           x == Greater(scfg.anchor_staleness_seconds, MIN_ANCHOR_STALENESS_SECONDS)
<1>1. n \in Nat /\ d \in Nat \ {0}
    BY ClockAssumption
<1>2. scfg.anchor_staleness_seconds \in Nat
    BY DEF ProtocolConfig
<1>3. MIN_ANCHOR_STALENESS_SECONDS = n * d
    BY DEF MIN_ANCHOR_STALENESS_SECONDS
<1>4. n * d \in Nat
  <2> HIDE DEF n, d
  <2> QED
      BY <1>1
<1>5. x \in Nat /\ n * d <= x
  <2> HIDE DEF n, d
  <2> QED
      BY <1>2, <1>3, <1>4 DEF Greater
<1>6. StalenessEpochs = (x + d - 1) \div d
    BY DEF StalenessEpochs
<1> HIDE DEF n, d, x
<1>7. (x + d - 1) \div d >= n /\ (x + d - 1) \div d \in Nat
    BY <1>1, <1>5, CeilAtLeast
<1> QED
    BY <1>6, <1>7 DEF n

\* The epoch is a natural number and never goes back.
LEMMA EpochType ==
    ASSUME TypeOK
    PROVE  Epoch \in Nat
BY ClockAssumption, DivBounds DEF TypeOK, Epoch

LEMMA EpochMonotone ==
    ASSUME TypeOK, TypeOK', slot' >= slot
    PROVE  Epoch' >= Epoch
<1>1. slot \in Nat /\ slot' \in Nat /\ slot <= slot'
    BY DEF TypeOK
<1>2. SLOTS_PER_EPOCH \in Nat \ {0}
    BY ClockAssumption
<1>3. slot \div SLOTS_PER_EPOCH <= slot' \div SLOTS_PER_EPOCH
    BY <1>1, <1>2, DivMonotone
<1>4. /\ slot \div SLOTS_PER_EPOCH \in Nat
      /\ slot' \div SLOTS_PER_EPOCH \in Nat
    BY <1>1, <1>2, DivBounds
<1> QED
    BY <1>3, <1>4 DEF Epoch

-----------------------------------------------------------------------------
(***************************************************************************)
(* Type correctness.                                                       *)
(***************************************************************************)

\* A partial update of a well-formed configuration is well formed.
LEMMA UpdatedConfigType ==
    ASSUME scfg \in ProtocolConfig, NEW u \in UpdateProtocolConfigParams
    PROVE  /\ UpdatedConfig(u) \in ProtocolConfig
           /\ UpdatedConfig(u).cert_ttl_seconds
                  = Given(u.cert_ttl_seconds, scfg.cert_ttl_seconds)
<1>1. \A S, option, old : option \in S \cup {None} /\ old \in S => Given(option, old) \in S
    BY DEF Given
<1>2. /\ Given(u.inactivity_seconds, scfg.inactivity_seconds) \in Nat
      /\ Given(u.price_collapse_bps, scfg.price_collapse_bps) \in Nat
      /\ Given(u.min_tvl_lamports, scfg.min_tvl_lamports) \in Nat
    BY <1>1 DEF ProtocolConfig, UpdateProtocolConfigParams
<1>3. /\ Given(u.anchor_staleness_seconds, scfg.anchor_staleness_seconds) \in Nat
      /\ Given(u.lp_burn_dust_threshold, scfg.lp_burn_dust_threshold) \in Nat
      /\ Given(u.cert_ttl_seconds, scfg.cert_ttl_seconds) \in Nat
    BY <1>1 DEF ProtocolConfig, UpdateProtocolConfigParams
<1>4. /\ Given(u.activity_oracle, scfg.activity_oracle) \in Oracles
      /\ Given(u.launch_price_oracle, scfg.launch_price_oracle) \in Oracles
    BY <1>1 DEF ProtocolConfig, UpdateProtocolConfigParams
<1> QED
    BY <1>2, <1>3, <1>4 DEF UpdatedConfig, ProtocolConfig

\* Governance writes well-formed configurations.
LEMMA GovernanceType ==
    ASSUME TypeOK,
           \/ \E i \in InitParams : Initialize(i)
           \/ \E u \in ConfigUpdates : UpdateProtocolConfig(u)
           \/ \E b \in BOOLEAN : EmergencyPause(b)
    PROVE  TypeOK'
<1> USE DEF TypeOK
<1>1. ASSUME scfg' \in ProtocolConfig,
             UNCHANGED <<anchor, cert, launchPrice, anchoredUnder, lastInvalidated,
                         worldVars, clockVars>>
      PROVE  TypeOK'
    BY <1>1 DEF worldVars, clockVars
<1>2. ASSUME NEW i \in InitParams, Initialize(i) PROVE TypeOK'
  <2>1. i \in InitializeParams
      BY ParameterAssumption
  <2>2. InitialConfig(i) \in ProtocolConfig
      BY <2>1 DEF InitializeParams, InitialConfig, ProtocolConfig, ZeroMeansDefault,
                  DEFAULT_INACTIVITY_SECONDS, DEFAULT_PRICE_COLLAPSE_BPS,
                  DEFAULT_MIN_TVL_LAMPORTS, DEFAULT_LP_BURN_DUST_THRESHOLD,
                  DEFAULT_ANCHOR_STALENESS_SECONDS, DEFAULT_CERT_TTL_SECONDS
  <2> QED
      BY <1>1, <1>2, <2>2 DEF Initialize
<1>3. ASSUME NEW u \in ConfigUpdates, UpdateProtocolConfig(u) PROVE TypeOK'
  <2>1. u \in UpdateProtocolConfigParams
      BY ParameterAssumption
  <2>2. scfg \in ProtocolConfig
      BY <1>3 DEF UpdateProtocolConfig
  <2>3. scfg' \in ProtocolConfig
      BY <1>3, <2>1, <2>2, UpdatedConfigType DEF UpdateProtocolConfig
  <2> QED
      BY <1>1, <1>3, <2>3 DEF UpdateProtocolConfig
<1>4. ASSUME NEW b \in BOOLEAN, EmergencyPause(b) PROVE TypeOK'
  <2>1. scfg \in ProtocolConfig
      BY <1>4 DEF EmergencyPause
  <2>2. scfg' \in ProtocolConfig
      BY <1>4, <2>1 DEF EmergencyPause, ProtocolConfig
  <2> QED
      BY <1>1, <1>4, <2>2 DEF EmergencyPause
<1> QED
    BY <1>2, <1>3, <1>4

LEMMA EvaluationType ==
    ASSUME TypeOK, Evaluate \/ RecordBaseline
    PROVE  TypeOK'
<1> USE DEF TypeOK
<1>1. ASSUME NEW p \in Pools, NEW a \in attestations, NEW supplied \in SUBSET Locks,
             EvaluatePoolPhase1(p, a, supplied)
      PROVE  TypeOK'
  <2>1. [first_eligible_epoch |-> Epoch, invalidated |-> FALSE,
         criteria_bitmap |-> ALL_CRITERIA_MASK] \in EligibilityAnchor
      BY EpochType DEF EligibilityAnchor, ALL_CRITERIA_MASK
  <2>2. scfg \in ProtocolConfig
      BY <1>1 DEF EvaluatePoolPhase1, EvaluationPasses
  <2>3. Thresholds(scfg) \in CriteriaThresholds
      BY <2>2 DEF Thresholds, CriteriaThresholds, ProtocolConfig
  <2> QED
      BY <1>1, <2>1, <2>3 DEF EvaluatePoolPhase1, worldVars, clockVars
<1>2. ASSUME NEW p \in Pools, NEW a \in attestations, NEW supplied \in SUBSET Locks,
             EvaluatePoolPhase2(p, a, supplied)
      PROVE  TypeOK'
  <2>1. scfg \in ProtocolConfig /\ anchor[p] \in EligibilityAnchor
      BY <1>2 DEF EvaluatePoolPhase2, EvaluationPasses
  <2>2. /\ anchor[p].first_eligible_epoch \in Nat
        /\ now + scfg.cert_ttl_seconds \in Nat
      BY <2>1 DEF EligibilityAnchor, ProtocolConfig
  <2>3. Generation(p) + 1 \in Nat
      BY DEF Generation, EligibilityCert
  <2>4. [anchor_epoch |-> anchor[p].first_eligible_epoch,
         cert_epoch |-> Epoch,
         issued_at |-> now,
         expires_at |-> now + scfg.cert_ttl_seconds,
         criteria_bitmap |-> ALL_CRITERIA_MASK,
         reissue_generation |-> Generation(p) + 1] \in EligibilityCert
      BY <2>2, <2>3, EpochType DEF EligibilityCert, ALL_CRITERIA_MASK
  <2> QED
      BY <1>2, <2>4 DEF EvaluatePoolPhase2, worldVars, clockVars
<1>3. ASSUME NEW p \in Pools, NEW pair \in Pairs, NEW price \in LaunchPrices,
             NEW o \in Oracles, RecordLaunchPrice(p, pair, price, o)
      PROVE  TypeOK'
  <2>1. [pair |-> pair, launch_price_q64x64 |-> price] \in LaunchPrice
      BY ParameterAssumption DEF LaunchPrice
  <2> QED
      BY <1>3, <2>1 DEF RecordLaunchPrice, worldVars, clockVars
<1> QED
    BY <1>1, <1>2, <1>3 DEF Evaluate, RecordBaseline

LEMMA AnchorEndType ==
    ASSUME TypeOK, NEW p \in Pools, InvalidateAnchor(p) \/ SweepStaleAnchor(p)
    PROVE  TypeOK'
<1> USE DEF TypeOK
<1>1. CASE InvalidateAnchor(p)
  <2>1. anchor[p] \in EligibilityAnchor
      BY <1>1 DEF InvalidateAnchor
  <2>2. /\ [anchor[p] EXCEPT !.invalidated = TRUE] \in EligibilityAnchor
        /\ anchor[p].first_eligible_epoch \in Nat
      BY <2>1 DEF EligibilityAnchor
  <2>3. anchor' = [anchor EXCEPT ![p] = [anchor[p] EXCEPT !.invalidated = TRUE]]
      BY <1>1 DEF InvalidateAnchor
  <2> QED
      BY <1>1, <2>2, <2>3 DEF InvalidateAnchor, worldVars, clockVars
<1>2. CASE SweepStaleAnchor(p)
    BY <1>2 DEF SweepStaleAnchor, worldVars, clockVars
<1> QED
    BY <1>1, <1>2

LEMMA WorldType ==
    ASSUME TypeOK, WorldNext \/ Tick
    PROVE  TypeOK'
<1> USE DEF TypeOK
<1>1. CASE Tick
    BY <1>1, ParameterAssumption DEF Tick, scannerVars, worldVars
<1>2. ASSUME NEW p \in Pools, Swap(p) PROVE TypeOK'
    BY <1>2, ParameterAssumption DEF Swap, scannerVars, clockVars
<1>3. ASSUME NEW p \in Pools, NEW k \in Locks, NEW n \in LockAmounts, SetLock(p, k, n)
      PROVE  TypeOK'
  <2>1. n \in Nat
      BY ParameterAssumption
  <2>2. lock' = [lock EXCEPT ![p] = [lock[p] EXCEPT ![k] = n]]
      BY <1>3 DEF SetLock
  <2>3. [lock[p] EXCEPT ![k] = n] \in [Locks -> Nat \cup {None}]
      BY <2>1
  <2> QED
      BY <1>3, <2>2, <2>3 DEF SetLock, scannerVars, clockVars
<1>4. ASSUME NEW p \in Pools, NEW o \in Oracles, OracleSigns(p, o) PROVE TypeOK'
  <2>1. PICK ts \in (IF o \in HonestOracles THEN {lastSwap[p]} ELSE ForgedTimestamps) :
            attestations' = attestations \cup
               {[pool |-> p, last_swap_unix_ts |-> ts, issued_slot |-> slot,
                 oracle |-> o]}
      BY <1>4 DEF OracleSigns
  <2>2. ts \in Nat
      BY ParameterAssumption
  <2>3. [pool |-> p, last_swap_unix_ts |-> ts, issued_slot |-> slot, oracle |-> o]
            \in Attestation
      BY <2>2 DEF Attestation
  <2> QED
      BY <1>4, <2>1, <2>3 DEF OracleSigns, scannerVars, clockVars
<1> QED
    BY <1>1, <1>2, <1>3, <1>4 DEF WorldNext

LEMMA InitType == Init => TypeOK
<1> SUFFICES ASSUME Init PROVE TypeOK
    OBVIOUS
<1>1. scfg \in ProtocolConfig \cup {None} /\ market \in [Pools -> PoolData]
    BY ParameterAssumption DEF Init
<1> QED
    BY <1>1 DEF Init, TypeOK

LEMMA NextType == TypeOK /\ [Next]_vars => TypeOK'
<1> SUFFICES ASSUME TypeOK, [Next]_vars PROVE TypeOK'
    OBVIOUS
<1>1. CASE \/ \E i \in InitParams : Initialize(i)
           \/ \E u \in ConfigUpdates : UpdateProtocolConfig(u)
           \/ \E b \in BOOLEAN : EmergencyPause(b)
    BY <1>1, GovernanceType
<1>2. CASE Evaluate \/ RecordBaseline
    BY <1>2, EvaluationType
<1>3. CASE \E p \in Pools : InvalidateAnchor(p) \/ SweepStaleAnchor(p)
    BY <1>3, AnchorEndType
<1>4. CASE WorldNext \/ Tick
    BY <1>4, WorldType
<1>5. CASE UNCHANGED vars
    BY <1>5 DEF vars, scannerVars, worldVars, clockVars, TypeOK
<1> QED
    BY <1>1, <1>2, <1>3, <1>4, <1>5 DEF Next, ScannerNext

(***************************************************************************)
(* Every account of the scanner stays well formed.                         *)
(***************************************************************************)
THEOREM TypeCorrect == Spec => []TypeOK
    BY InitType, NextType, PTL DEF Spec

-----------------------------------------------------------------------------
(***************************************************************************)
(* The life of an anchor.                                                  *)
(***************************************************************************)

\* What each step may do to anchors, certs and the memory of invalidations.
LEMMA AnchorCases ==
    ASSUME TypeOK, [Next]_vars
    PROVE  \/ UNCHANGED <<anchor, cert, lastInvalidated>> /\ slot' >= slot
           \/ \E p \in Pools :
                 /\ anchor[p] = None
                 /\ \E b \in Nat : anchor' = [anchor EXCEPT ![p] =
                       [first_eligible_epoch |-> Epoch, invalidated |-> FALSE,
                        criteria_bitmap |-> b]]
                 /\ UNCHANGED <<cert, lastInvalidated, slot>>
           \/ \E p \in Pools, a \in attestations, supplied \in SUBSET Locks :
                 EvaluatePoolPhase2(p, a, supplied)
           \/ \E p \in Pools : InvalidateAnchor(p)
           \/ \E p \in Pools : SweepStaleAnchor(p)
<1>1. CASE \/ \E i \in InitParams : Initialize(i)
           \/ \E u \in ConfigUpdates : UpdateProtocolConfig(u)
           \/ \E b \in BOOLEAN : EmergencyPause(b)
           \/ RecordBaseline
  <2>1. UNCHANGED <<anchor, cert, lastInvalidated, clockVars>>
      BY <1>1 DEF Initialize, UpdateProtocolConfig, EmergencyPause, RecordBaseline,
                  RecordLaunchPrice
  <2>2. slot' >= slot
      BY <2>1 DEF clockVars, TypeOK
  <2> QED
      BY <2>1, <2>2
<1>2. CASE Evaluate
  <2>1. ASSUME NEW p \in Pools, NEW a \in attestations,
               NEW supplied \in SUBSET Locks, EvaluatePoolPhase1(p, a, supplied)
        PROVE  /\ anchor[p] = None
               /\ \E b \in Nat : anchor' = [anchor EXCEPT ![p] =
                     [first_eligible_epoch |-> Epoch, invalidated |-> FALSE,
                      criteria_bitmap |-> b]]
               /\ UNCHANGED <<cert, lastInvalidated, slot>>
      BY <2>1 DEF EvaluatePoolPhase1, ALL_CRITERIA_MASK, clockVars
  <2> QED
      BY <1>2, <2>1 DEF Evaluate
<1>3. CASE WorldNext
    BY <1>3 DEF WorldNext, Swap, SetLock, OracleSigns, scannerVars, clockVars, TypeOK
<1>4. CASE Tick
    BY <1>4 DEF Tick, scannerVars, TypeOK
<1>5. CASE UNCHANGED vars
    BY <1>5 DEF vars, scannerVars, clockVars, TypeOK
<1> QED
    BY <1>1, <1>2, <1>3, <1>4, <1>5 DEF Next, ScannerNext

\* A sweep comes after the confirmation gap and one full epoch more.
LEMMA SweepIsLate ==
    ASSUME TypeOK, NEW p \in Pools, SweepStaleAnchor(p)
    PROVE  /\ anchor[p] \in EligibilityAnchor
           /\ Epoch > anchor[p].first_eligible_epoch + MIN_EPOCH_CONFIRMATION + 1
<1>1. scfg \in ProtocolConfig /\ anchor[p] \in EligibilityAnchor
    BY DEF SweepStaleAnchor, TypeOK
<1>2. /\ StalenessEpochs \in Nat
      /\ StalenessEpochs >= MIN_EPOCH_CONFIRMATION + 1
    BY <1>1, StalenessWindow
<1>3. anchor[p].first_eligible_epoch \in Nat
    BY <1>1 DEF EligibilityAnchor
<1>4. Epoch > anchor[p].first_eligible_epoch + StalenessEpochs
    BY DEF SweepStaleAnchor, SweepGate
<1> QED
    BY <1>1, <1>2, <1>3, <1>4, EpochType, ClockAssumption

LEMMA NextAnchorStep == TypeOK /\ [Next]_vars => AnchorStep
<1> SUFFICES ASSUME TypeOK, [Next]_vars, NEW q \in Pools, anchor[q] # None
             PROVE  \/ anchor'[q] = anchor[q]
                    \/ /\ ~anchor[q].invalidated
                       /\ anchor'[q] = [anchor[q] EXCEPT !.invalidated = TRUE]
                    \/ /\ anchor'[q] = None
                       /\ Epoch > anchor[q].first_eligible_epoch
                                  + MIN_EPOCH_CONFIRMATION + 1
    BY DEF AnchorStep
<1>1. ASSUME NEW p \in Pools, SweepStaleAnchor(p)
      PROVE  \/ anchor'[q] = anchor[q]
             \/ /\ anchor'[q] = None
                /\ Epoch > anchor[q].first_eligible_epoch + MIN_EPOCH_CONFIRMATION + 1
  <2>1. anchor' = [anchor EXCEPT ![p] = None]
      BY <1>1 DEF SweepStaleAnchor
  <2> QED
      BY <1>1, <2>1, SweepIsLate DEF TypeOK
<1>2. ASSUME NEW p \in Pools, InvalidateAnchor(p)
      PROVE  \/ anchor'[q] = anchor[q]
             \/ /\ ~anchor[q].invalidated
                /\ anchor'[q] = [anchor[q] EXCEPT !.invalidated = TRUE]
    BY <1>2 DEF InvalidateAnchor, TypeOK
<1>3. ASSUME NEW p \in Pools, anchor[p] = None,
             NEW b, anchor' = [anchor EXCEPT ![p] = b]
      PROVE  anchor'[q] = anchor[q]
    BY <1>3 DEF TypeOK
<1>4. ASSUME NEW p \in Pools, NEW a \in attestations, NEW supplied \in SUBSET Locks,
             EvaluatePoolPhase2(p, a, supplied)
      PROVE  anchor' = anchor
    BY <1>4 DEF EvaluatePoolPhase2
<1> QED
    BY <1>1, <1>2, <1>3, <1>4, AnchorCases

(***************************************************************************)
(* An anchor is never re-stamped, only invalidated once or swept, and a    *)
(* sweep always leaves Phase 2 its window: for every configuration and     *)
(* every epoch length, legacy accounts included.                           *)
(***************************************************************************)
THEOREM AnchorsLiveOnce == Spec => AnchorLifecycle
<1>1. TypeOK /\ [Next]_vars => [AnchorStep]_vars
    BY NextAnchorStep
<1> QED
    BY <1>1, TypeCorrect, PTL DEF Spec, AnchorLifecycle

-----------------------------------------------------------------------------
(***************************************************************************)
(* Certificates.                                                           *)
(***************************************************************************)

\* The configured TTL never falls below its floor.
TtlAtLeastFloor == scfg # None => scfg.cert_ttl_seconds >= MIN_CERT_TTL_SECONDS

LEMMA InitTtl == Init => TtlAtLeastFloor
BY LegacyAssumption DEF Init, TtlAtLeastFloor

LEMMA NextTtl == TypeOK /\ TtlAtLeastFloor /\ [Next]_vars => TtlAtLeastFloor'
<1> SUFFICES ASSUME TypeOK, TtlAtLeastFloor, [Next]_vars PROVE TtlAtLeastFloor'
    OBVIOUS
<1>1. ASSUME NEW i \in InitParams, Initialize(i) PROVE TtlAtLeastFloor'
    BY <1>1 DEF Initialize, TtlAtLeastFloor
<1>2. ASSUME NEW u \in ConfigUpdates, UpdateProtocolConfig(u) PROVE TtlAtLeastFloor'
  <2>1. scfg \in ProtocolConfig /\ u \in UpdateProtocolConfigParams
      BY <1>2, ParameterAssumption DEF UpdateProtocolConfig, TypeOK
  <2>2. scfg'.cert_ttl_seconds = Given(u.cert_ttl_seconds, scfg.cert_ttl_seconds)
      BY <1>2, <2>1, UpdatedConfigType DEF UpdateProtocolConfig
  <2> QED
      BY <1>2, <2>2 DEF UpdateProtocolConfig, AtLeast, Given, TtlAtLeastFloor
<1>3. ASSUME NEW b \in BOOLEAN, EmergencyPause(b) PROVE TtlAtLeastFloor'
  <2>1. scfg \in ProtocolConfig
      BY <1>3 DEF EmergencyPause, TypeOK
  <2>2. scfg'.cert_ttl_seconds = scfg.cert_ttl_seconds
      BY <1>3, <2>1 DEF EmergencyPause, ProtocolConfig
  <2> QED
      BY <1>3, <2>2 DEF EmergencyPause, TtlAtLeastFloor
<1>4. CASE UNCHANGED scfg
    BY <1>4 DEF TtlAtLeastFloor
<1>5. CASE \/ RecordBaseline
           \/ Evaluate
           \/ \E p \in Pools : InvalidateAnchor(p)
           \/ \E p \in Pools : SweepStaleAnchor(p)
    BY <1>4, <1>5 DEF RecordBaseline, RecordLaunchPrice, Evaluate, EvaluatePoolPhase1,
                      EvaluatePoolPhase2, InvalidateAnchor, SweepStaleAnchor
<1>6. CASE WorldNext \/ Tick
    BY <1>4, <1>6 DEF WorldNext, Swap, SetLock, OracleSigns, Tick, scannerVars
<1>7. CASE UNCHANGED vars
    BY <1>4, <1>7 DEF vars, scannerVars
<1> QED
    BY <1>1, <1>2, <1>3, <1>5, <1>6, <1>7 DEF Next, ScannerNext

(***************************************************************************)
(* What it takes to change a pool's cert: Phase 2 on its live anchor.      *)
(***************************************************************************)
LEMMA CertIssued ==
    ASSUME TypeOK, [Next]_vars, NEW q \in Pools, cert'[q] # cert[q]
    PROVE  \E a \in attestations, supplied \in SUBSET Locks : EvaluatePoolPhase2(q, a, supplied)
<1>1. PICK p \in Pools, a \in attestations, supplied \in SUBSET Locks :
          EvaluatePoolPhase2(p, a, supplied)
  <2>1. ASSUME UNCHANGED cert PROVE FALSE
      BY <2>1
  <2>2. ASSUME NEW p \in Pools, InvalidateAnchor(p) \/ SweepStaleAnchor(p)
        PROVE  UNCHANGED cert
      BY <2>2 DEF InvalidateAnchor, SweepStaleAnchor
  <2> QED
      BY <2>1, <2>2, AnchorCases
<1>2. \A x \in Pools \ {p} : cert'[x] = cert[x]
    BY <1>1 DEF EvaluatePoolPhase2, TypeOK
<1>3. q = p
    BY <1>2
<1> QED
    BY <1>1, <1>3

LEMMA CertChange ==
    ASSUME TypeOK, TtlAtLeastFloor, [Next]_vars,
           NEW q \in Pools, cert'[q] # cert[q]
    PROVE  /\ anchor[q] \in EligibilityAnchor
           /\ ~anchor[q].invalidated
           /\ CertExpired(q)
           /\ Epoch >= anchor[q].first_eligible_epoch + MIN_EPOCH_CONFIRMATION
           /\ cert'[q] # None
           /\ cert'[q].anchor_epoch = anchor[q].first_eligible_epoch
           /\ cert'[q].expires_at >= now + MIN_CERT_TTL_SECONDS
           /\ cert'[q].reissue_generation = Generation(q) + 1
<1>1. PICK a \in attestations, supplied \in SUBSET Locks : EvaluatePoolPhase2(q, a, supplied)
    BY CertIssued
<1>2. cert' = [cert EXCEPT ![q] =
           [anchor_epoch |-> anchor[q].first_eligible_epoch,
            cert_epoch |-> Epoch,
            issued_at |-> now,
            expires_at |-> now + scfg.cert_ttl_seconds,
            criteria_bitmap |-> ALL_CRITERIA_MASK,
            reissue_generation |-> Generation(q) + 1]]
    BY <1>1 DEF EvaluatePoolPhase2
<1>4. /\ cert'[q].anchor_epoch = anchor[q].first_eligible_epoch
      /\ cert'[q].expires_at = now + scfg.cert_ttl_seconds
      /\ cert'[q].reissue_generation = Generation(q) + 1
    BY <1>2 DEF TypeOK
<1>5. /\ anchor[q] \in EligibilityAnchor
      /\ ~anchor[q].invalidated
      /\ scfg \in ProtocolConfig
      /\ scfg.cert_ttl_seconds >= MIN_CERT_TTL_SECONDS
      /\ CertExpired(q)
      /\ EpochConfirmed(q)
    BY <1>1 DEF EvaluatePoolPhase2, EvaluationPasses, TypeOK, TtlAtLeastFloor
<1>6. Epoch >= anchor[q].first_eligible_epoch + MIN_EPOCH_CONFIRMATION
  <2>1. anchor[q].first_eligible_epoch \in Nat
      BY <1>5 DEF EligibilityAnchor
  <2> QED
      BY <1>5, <2>1, EpochType, ClockAssumption DEF EpochConfirmed
<1>7. now + scfg.cert_ttl_seconds >= now + MIN_CERT_TTL_SECONDS
  <2>1. scfg.cert_ttl_seconds \in Nat /\ now \in Nat
      BY <1>5 DEF ProtocolConfig, TypeOK
  <2> QED
      BY <1>5, <2>1, ClockAssumption
<1>8. cert'[q] # None
  <2>1. cert'[q] \in EligibilityCert \cup {None}
      BY NextType DEF TypeOK
  <2>2. cert'[q] = [anchor_epoch |-> anchor[q].first_eligible_epoch,
            cert_epoch |-> Epoch,
            issued_at |-> now,
            expires_at |-> now + scfg.cert_ttl_seconds,
            criteria_bitmap |-> ALL_CRITERIA_MASK,
            reissue_generation |-> Generation(q) + 1]
      BY <1>2 DEF TypeOK
  <2>3. /\ anchor[q].first_eligible_epoch \in Nat
        /\ now + scfg.cert_ttl_seconds \in Nat
        /\ now \in Nat
      BY <1>5 DEF EligibilityAnchor, ProtocolConfig, TypeOK
  <2>4. Generation(q) + 1 \in Nat
      BY DEF Generation, EligibilityCert, TypeOK
  <2>5. cert'[q] \in EligibilityCert
      BY <2>2, <2>3, <2>4, EpochType DEF EligibilityCert, ALL_CRITERIA_MASK
  <2> QED
      BY <2>5, NoneAssumption
<1> QED
    BY <1>4, <1>5, <1>6, <1>7, <1>8

(***************************************************************************)
(* A cert is only ever issued by a confirmed re-evaluation of a live       *)
(* anchor, never over a usable one, and is usable for at least the floor.  *)
(***************************************************************************)
THEOREM CertsAreSound == Spec => CertIssueSound
<1>1. TypeOK /\ TtlAtLeastFloor /\ [Next]_vars => [CertStep]_vars
  <2> SUFFICES ASSUME TypeOK, TtlAtLeastFloor, [Next]_vars PROVE CertStep
      OBVIOUS
  <2> QED
      BY CertChange, NoneAssumption DEF CertStep
<1> QED
    BY <1>1, InitType, NextType, InitTtl, NextTtl, PTL DEF Spec, CertIssueSound

-----------------------------------------------------------------------------
(***************************************************************************)
(* Invalidation sticks.                                                    *)
(***************************************************************************)

LEMMA InitRemembered == Init => InvalidationRemembered
<1> SUFFICES ASSUME Init, NEW p \in Pools
             PROVE  InvalidationRememberedFor(p)
    BY DEF InvalidationRemembered
<1>1. anchor[p] = None /\ lastInvalidated[p] = None
    BY DEF Init
<1> QED
    BY <1>1 DEF InvalidationRememberedFor

LEMMA NextRemembered ==
    TypeOK /\ InvalidationRemembered /\ [Next]_vars => InvalidationRemembered'
<1> SUFFICES ASSUME TypeOK, InvalidationRemembered, [Next]_vars, NEW q \in Pools
             PROVE  InvalidationRememberedFor(q)'
    BY DEF InvalidationRemembered, InvalidationRememberedFor
<1>1. TypeOK'
    BY NextType
<1>2. /\ Epoch \in Nat
      /\ Epoch' \in Nat
      /\ MIN_EPOCH_CONFIRMATION \in Nat
  <2>1. Epoch' \in Nat
      BY <1>1, ClockAssumption, DivBounds DEF TypeOK, Epoch
  <2> QED
      BY <2>1, EpochType, ClockAssumption
<1>3. lastInvalidated[q] # None => lastInvalidated[q] \in Nat
    BY DEF TypeOK
<1>4. ASSUME UNCHANGED <<anchor, lastInvalidated>>, slot' >= slot
      PROVE  InvalidationRememberedFor(q)'
  <2>1. Epoch' >= Epoch
      BY <1>1, <1>4, EpochMonotone
  <2> QED
      BY <1>2, <1>3, <1>4, <2>1 DEF InvalidationRemembered, InvalidationRememberedFor
<1>5. ASSUME NEW p \in Pools, NEW a \in attestations, NEW supplied \in SUBSET Locks,
             EvaluatePoolPhase2(p, a, supplied)
      PROVE  UNCHANGED <<anchor, lastInvalidated>> /\ slot' >= slot
    BY <1>5 DEF EvaluatePoolPhase2, clockVars, TypeOK
<1>6. ASSUME NEW p \in Pools, NEW b \in Nat,
             anchor[p] = None,
             anchor' = [anchor EXCEPT ![p] =
                 [first_eligible_epoch |-> Epoch, invalidated |-> FALSE,
                  criteria_bitmap |-> b]],
             UNCHANGED <<cert, lastInvalidated, slot>>
      PROVE  InvalidationRememberedFor(q)'
  <2>1. Epoch' = Epoch
      BY <1>6 DEF Epoch
  <2>2. CASE q = p
    <3>1. anchor'[q] = [first_eligible_epoch |-> Epoch, invalidated |-> FALSE,
                        criteria_bitmap |-> b]
        BY <1>6, <2>2 DEF TypeOK
    <3>2. anchor'[q] \in EligibilityAnchor
        BY <1>2, <3>1 DEF EligibilityAnchor
    <3>3. lastInvalidated[q] # None =>
              Epoch > lastInvalidated[q] + MIN_EPOCH_CONFIRMATION + 1
        BY <1>6, <2>2 DEF InvalidationRemembered, InvalidationRememberedFor
    <3>4. anchor'[q] # None
        BY <3>2, NoneAssumption
    <3>5. anchor'[q].invalidated = FALSE
        BY <3>1
    <3>6. anchor'[q].first_eligible_epoch = Epoch
        BY <3>1
    <3> QED
        BY <1>6, <3>3, <3>4, <3>5, <3>6 DEF InvalidationRememberedFor
  <2>3. CASE q # p
    <3>1. anchor'[q] = anchor[q]
        BY <1>6, <2>3 DEF TypeOK
    <3> QED
        BY <1>6, <2>1, <3>1 DEF InvalidationRemembered, InvalidationRememberedFor
  <2> QED
      BY <2>2, <2>3
<1>7. ASSUME NEW p \in Pools, InvalidateAnchor(p)
      PROVE  InvalidationRememberedFor(q)'
  <2>1. /\ anchor[p] \in EligibilityAnchor
        /\ anchor' = [anchor EXCEPT ![p] = [anchor[p] EXCEPT !.invalidated = TRUE]]
        /\ lastInvalidated' = [lastInvalidated EXCEPT ![p] =
               anchor[p].first_eligible_epoch]
        /\ UNCHANGED slot
      BY <1>7 DEF InvalidateAnchor, clockVars, TypeOK
  <2>2. Epoch' = Epoch
      BY <2>1 DEF Epoch
  <2>3. CASE q = p
    <3>1. /\ anchor'[q] = [anchor[p] EXCEPT !.invalidated = TRUE]
          /\ lastInvalidated'[q] = anchor[p].first_eligible_epoch
        BY <2>1, <2>3 DEF TypeOK
    <3>2. /\ anchor'[q] \in EligibilityAnchor
          /\ anchor'[q].invalidated
          /\ anchor'[q].first_eligible_epoch = anchor[p].first_eligible_epoch
        BY <2>1, <3>1 DEF EligibilityAnchor
    <3> QED
        BY <3>1, <3>2, NoneAssumption DEF InvalidationRememberedFor
  <2>4. CASE q # p
    <3>1. anchor'[q] = anchor[q] /\ lastInvalidated'[q] = lastInvalidated[q]
        BY <2>1, <2>4 DEF TypeOK
    <3> QED
        BY <2>2, <3>1 DEF InvalidationRemembered, InvalidationRememberedFor
  <2> QED
      BY <2>3, <2>4
<1>8. ASSUME NEW p \in Pools, SweepStaleAnchor(p)
      PROVE  InvalidationRememberedFor(q)'
  <2>1. /\ anchor' = [anchor EXCEPT ![p] = None]
        /\ UNCHANGED <<lastInvalidated, slot>>
      BY <1>8 DEF SweepStaleAnchor, clockVars
  <2>2. Epoch' = Epoch
      BY <2>1 DEF Epoch
  <2>3. CASE q = p
    <3>1. anchor'[q] = None /\ lastInvalidated'[q] = lastInvalidated[q]
        BY <2>1, <2>3 DEF TypeOK
    <3>2. /\ anchor[q] \in EligibilityAnchor
          /\ Epoch > anchor[q].first_eligible_epoch + MIN_EPOCH_CONFIRMATION + 1
        BY <1>8, <2>3, SweepIsLate
    <3>3. anchor[q].first_eligible_epoch \in Nat /\ anchor[q] # None
        BY <3>2, NoneAssumption DEF EligibilityAnchor
    <3>4. lastInvalidated[q] # None =>
              lastInvalidated[q] <= anchor[q].first_eligible_epoch
        BY <1>2, <1>3, <3>3 DEF InvalidationRemembered, InvalidationRememberedFor
    <3> QED
        BY <1>2, <1>3, <2>2, <3>1, <3>2, <3>3, <3>4 DEF InvalidationRememberedFor
  <2>4. CASE q # p
    <3>1. anchor'[q] = anchor[q] /\ lastInvalidated'[q] = lastInvalidated[q]
        BY <2>1, <2>4 DEF TypeOK
    <3> QED
        BY <2>2, <3>1 DEF InvalidationRemembered, InvalidationRememberedFor
  <2> QED
      BY <2>3, <2>4
<1> QED
    BY <1>4, <1>5, <1>6, <1>7, <1>8, AnchorCases

\* The memory of invalidations is inductive with the types.
THEOREM InvalidationIsRemembered == Spec => []InvalidationRemembered
    BY InitType, NextType, InitRemembered, NextRemembered, PTL DEF Spec

(***************************************************************************)
(* After an invalidation a pool is certified only from a new observation   *)
(* beyond the invalidated anchor's sweep window.                           *)
(***************************************************************************)
THEOREM InvalidationSticks == Spec => InvalidationForcesReobservation
<1>1. TypeOK /\ TtlAtLeastFloor /\ InvalidationRemembered /\ [Next]_vars
          => [ReobservedStep]_vars
  <2> SUFFICES ASSUME TypeOK, TtlAtLeastFloor, InvalidationRemembered, [Next]_vars,
                      NEW q \in Pools, cert'[q] # cert[q], lastInvalidated[q] # None
               PROVE  cert'[q].anchor_epoch
                          > lastInvalidated[q] + MIN_EPOCH_CONFIRMATION + 1
      BY DEF ReobservedStep
  <2>1. /\ anchor[q] \in EligibilityAnchor
        /\ ~anchor[q].invalidated
        /\ cert'[q].anchor_epoch = anchor[q].first_eligible_epoch
      BY CertChange
  <2>2. anchor[q] # None
      BY <2>1, NoneAssumption
  <2> QED
      BY <2>1, <2>2 DEF InvalidationRemembered, InvalidationRememberedFor
<1> QED
    BY <1>1, InitType, NextType, InitTtl, NextTtl, InitRemembered, NextRemembered, PTL
       DEF Spec, InvalidationForcesReobservation


-----------------------------------------------------------------------------
(***************************************************************************)
(* The evidence behind a cert.                                             *)
(***************************************************************************)

(***************************************************************************)
(* A pool whose only lock holds LP is never certified: the marker forces   *)
(* the submitter to show that lock, and its amount fails criterion 5.      *)
(***************************************************************************)
THEOREM LoneLockAlwaysBlocks == Spec => LoneLockBlocksCert
<1>1. TypeOK /\ [Next]_vars => [LoneLockStep]_vars
  <2> SUFFICES ASSUME TypeOK, [Next]_vars, NEW p \in Pools, NEW k \in Locks,
                      ExistingLocks(p) = {k}, lock[p][k] > 0, cert'[p] # cert[p]
               PROVE  FALSE
      BY DEF LoneLockStep
  <2>1. PICK a \in attestations, supplied \in SUBSET Locks :
            EvaluatePoolPhase2(p, a, supplied)
      BY CertIssued
  <2>2. /\ EvidenceAccepted(p, supplied)
        /\ LockedLpAmount(p, supplied) = 0
      BY <2>1 DEF EvaluatePoolPhase2, EvaluationPasses, EvaluateCriteria
  <2>3. supplied = {k}
      BY <2>2 DEF EvidenceAccepted
  <2>4. lock[p][k] \in Nat
    <3>1. k \in ExistingLocks(p) /\ lock[p][k] \in Nat \cup {None}
        BY DEF TypeOK
    <3> QED
        BY <3>1 DEF ExistingLocks
  <2>5. SumFunctionOnSet(lock[p], {k}) = lock[p][k]
    <3>1. lock[p][k] \in Int
        BY <2>4
    <3> QED
        BY <3>1, SumSingle, Zenon
  <2> QED
      BY <2>2, <2>3, <2>4, <2>5 DEF LockedLpAmount
<1> QED
    BY <1>1, TypeCorrect, PTL DEF Spec, LoneLockBlocksCert

(***************************************************************************)
(* What an attestation in circulation is worth: it was issued in the past, *)
(* and an honest oracle's names the pool's last swap unless the pool was   *)
(* traded at or after the slot it was issued in.                           *)
(***************************************************************************)
HonestlySigned ==
    \A a \in attestations :
        /\ a.issued_slot <= slot
        /\ a.oracle \in HonestOracles =>
               \/ a.last_swap_unix_ts = lastSwap[a.pool]
               \/ lastSwapSlot[a.pool] >= a.issued_slot

LEMMA InitSigned == Init => HonestlySigned
BY DEF Init, HonestlySigned

LEMMA NextSigned == TypeOK /\ HonestlySigned /\ [Next]_vars => HonestlySigned'
<1> SUFFICES ASSUME TypeOK, HonestlySigned, [Next]_vars PROVE HonestlySigned'
    OBVIOUS
<1>1. \A a \in attestations : a.issued_slot \in Nat /\ a.pool \in Pools
    BY DEF TypeOK, Attestation
<1>2. ASSUME UNCHANGED <<attestations, lastSwap, lastSwapSlot>>, slot' \in Nat, slot' >= slot
      PROVE  HonestlySigned'
    BY <1>1, <1>2 DEF HonestlySigned, TypeOK
<1>3. CASE Tick
    BY <1>2, <1>3 DEF Tick, worldVars, TypeOK
<1>4. ASSUME NEW p \in Pools, Swap(p) PROVE HonestlySigned'
  <2>1. /\ UNCHANGED <<attestations, slot>>
        /\ lastSwapSlot'[p] = slot
        /\ \A q \in Pools \ {p} : /\ lastSwap'[q] = lastSwap[q]
                                  /\ lastSwapSlot'[q] = lastSwapSlot[q]
      BY <1>4 DEF Swap, clockVars, TypeOK
  <2> QED
      BY <1>1, <2>1 DEF HonestlySigned
<1>5. ASSUME NEW p \in Pools, NEW o \in Oracles, OracleSigns(p, o)
      PROVE  HonestlySigned'
  <2>1. PICK ts \in IF o \in HonestOracles THEN {lastSwap[p]} ELSE ForgedTimestamps :
            attestations' = attestations \cup
                {[pool |-> p, last_swap_unix_ts |-> ts, issued_slot |-> slot,
                  oracle |-> o]}
      BY <1>5 DEF OracleSigns
  <2>2. UNCHANGED <<lastSwap, lastSwapSlot, slot>> /\ slot \in Nat
      BY <1>5 DEF OracleSigns, clockVars, TypeOK
  <2>3. o \in HonestOracles => ts = lastSwap[p]
      BY <2>1
  <2> QED
      BY <2>1, <2>2, <2>3 DEF HonestlySigned
<1>6. ASSUME NEW p \in Pools, NEW k \in Locks, NEW n \in LockAmounts, SetLock(p, k, n)
      PROVE  HonestlySigned'
    BY <1>2, <1>6 DEF SetLock, clockVars, TypeOK
<1>7. CASE ScannerNext
  <2>1. UNCHANGED <<worldVars, clockVars>>
      BY <1>7 DEF ScannerNext, Initialize, UpdateProtocolConfig, EmergencyPause,
                  RecordBaseline, RecordLaunchPrice, Evaluate, EvaluatePoolPhase1,
                  EvaluatePoolPhase2, InvalidateAnchor, SweepStaleAnchor
  <2> QED
      BY <1>2, <2>1 DEF worldVars, clockVars, TypeOK
<1>8. CASE UNCHANGED vars
    BY <1>2, <1>8 DEF vars, worldVars, clockVars, TypeOK
<1> QED
    BY <1>3, <1>4, <1>5, <1>6, <1>7, <1>8 DEF Next, WorldNext

LEMMA NextFresh == TypeOK /\ HonestlySigned /\ [Next]_vars => FreshStep
<1> SUFFICES ASSUME TypeOK, HonestlySigned, [Next]_vars, NEW p \in Pools,
                    cert'[p] # cert[p], scfg.activity_oracle \in HonestOracles
             PROVE  \/ now - lastSwap[p] >= scfg.inactivity_seconds
                    \/ slot - lastSwapSlot[p] <= SLOT_HASHES
    BY DEF FreshStep
<1>1. PICK a \in attestations, supplied \in SUBSET Locks :
          EvaluatePoolPhase2(p, a, supplied)
    BY CertIssued
<1>2. /\ VerifyLastSwapAttestation(p, a)
      /\ Inactive(a.last_swap_unix_ts, Thresholds(scfg))
    BY <1>1 DEF EvaluatePoolPhase2, EvaluationPasses, EvaluateCriteria
<1>3. a.oracle \in HonestOracles /\ a.pool = p /\ InSlotHashes(a.issued_slot)
    BY <1>2 DEF VerifyLastSwapAttestation, SignedBy
<1>4. now - a.last_swap_unix_ts >= scfg.inactivity_seconds
    BY <1>2 DEF Inactive, Thresholds
<1>5. \/ a.last_swap_unix_ts = lastSwap[p]
      \/ lastSwapSlot[p] >= a.issued_slot
    BY <1>3 DEF HonestlySigned
<1>6. /\ a.issued_slot \in Nat
      /\ lastSwapSlot[p] \in Nat
      /\ slot \in Nat
      /\ SLOT_HASHES \in Nat
    BY ClockAssumption DEF TypeOK, Attestation
<1>7. slot - a.issued_slot <= SLOT_HASHES
    BY <1>3 DEF InSlotHashes
<1> QED
    BY <1>4, <1>5, <1>6, <1>7

(***************************************************************************)
(* With an honest activity oracle a cert is never issued on outdated       *)
(* evidence: slot freshness bounds what the attestation can have missed to *)
(* the SlotHashes window.                                                  *)
(***************************************************************************)
THEOREM CertsAreFreshlyEvidenced == Spec => CertFreshlyEvidenced
<1>1. TypeOK /\ HonestlySigned /\ [Next]_vars => [FreshStep]_vars
    BY NextFresh
<1> QED
    BY <1>1, InitType, NextType, InitSigned, NextSigned, PTL
       DEF Spec, CertFreshlyEvidenced
=============================================================================
