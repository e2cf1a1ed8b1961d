-------------------------- MODULE GraveYieldProofs --------------------------
(***************************************************************************)
(* Proofs about the two programs on one chain, for any number of pools,    *)
(* holders and oracles and any clock rates.  The scanner's invariants      *)
(* survive the composition, what the vault sees of the scanner is what its *)
(* own specification allows, and with both facts the age of the evidence   *)
(* and the reach of a revocation are bounded at the moment of a salvage.   *)
(***************************************************************************)
EXTENDS GraveYield, GraveScannerProofs

-----------------------------------------------------------------------------
(***************************************************************************)
(* The parameters in the shapes the proofs use.                            *)
(***************************************************************************)

\* A finite nonempty set of naturals has a largest element.
LEMMA LargestExists ==
    ASSUME NEW S \in SUBSET Nat, S # {}, IsFiniteSet(S)
    PROVE  Max(S) \in S /\ \A d \in S : d <= Max(S)
<1> DEFINE B == {s \in SUBSET S : s # {} /\ ~\E x \in s : \A y \in s : x >= y}
<1>1. B = {}
  <2> SUFFICES ASSUME B # {} PROVE FALSE
      OBVIOUS
  <2>1. PICK s \in B : \A t \in SUBSET s : t # s => t \notin B
    <3>1. B \in SUBSET (SUBSET S)
        OBVIOUS
    <3> HIDE DEF B
    <3> QED
        BY <3>1, MinimalSubset
  <2>2. PICK x \in s : x \in Nat
      OBVIOUS
  <2>3. s \ {x} # {} /\ s \ {x} \in SUBSET s /\ s \ {x} # s
    <3>1. s \ {x} = {} => \A y \in s : x >= y
        BY <2>2
    <3> QED
        BY <2>2, <3>1
  <2>4. PICK m \in s \ {x} : \A y \in s \ {x} : m >= y
      BY <2>1, <2>3
  <2>5. m \in Nat
      BY <2>1, <2>4
  <2>6. CASE m >= x
      BY <2>4, <2>6
  <2>7. CASE x >= m
    <3>1. \A y \in s \ {x} : x >= y
        BY <2>1, <2>2, <2>4, <2>5, <2>7
    <3> QED
        BY <2>2, <3>1
  <2> QED
      BY <2>2, <2>5, <2>6, <2>7
<1>2. PICK x \in S : \A y \in S : x >= y
    BY <1>1
<1>3. Max(S) \in S /\ \A y \in S : Max(S) >= y
    BY <1>2 DEF Max
<1> QED
    BY <1>3

LEMMA SlotSecondsBound ==
    SlotSeconds \in Nat /\ \A d \in TickSeconds : d \in Nat /\ d <= SlotSeconds
<1>1. TickSeconds \in SUBSET Nat
    BY ParameterAssumption
<1>2. Max(TickSeconds) \in TickSeconds /\ \A d \in TickSeconds : d <= Max(TickSeconds)
    BY <1>1, SlotAssumption, LargestExists
<1> QED
    BY <1>1, <1>2 DEF SlotSeconds

\* What the vault's parameters say of a withdraw and of a submission.
LEMMA VaultParameters ==
    ASSUME NEW s \in Submissions, NEW a \in AmmOutcomes
    PROVE  /\ s.salvor_lp_amount \in Nat
           /\ \A p : V!MemecoinReserve(p, a) \in Nat /\ V!WsolReserve(p, a) \in Nat
<1>1. s \in V!SalvagePoolParams /\ a \in V!AmmOutcome
    BY VaultAssumption DEF V!ParameterAssumption
<1>2. s.salvor_lp_amount \in Nat
    BY <1>1 DEF V!SalvagePoolParams
<1>3. a.coin_vault \in Nat /\ a.pc_vault \in Nat
    BY <1>1 DEF V!AmmOutcome
<1> QED
    BY <1>2, <1>3 DEF V!MemecoinReserve, V!WsolReserve

-----------------------------------------------------------------------------
(***************************************************************************)
(* A step of the system is one of the scanner or its world, or a salvage,  *)
(* which of all they know only touches the pool's market.                  *)
(***************************************************************************)
LEMMA SystemCases ==
    ASSUME [SystemNext]_systemVars
    PROVE  \/ [Next]_vars
           \/ \E p \in Pools, s \in Submissions, a \in AmmOutcomes : SalvageStep(p, s, a)
BY DEF SystemNext, ScannerStep, VaultStep, WorldStep, Next, systemVars

LEMMA SalvageTouches ==
    ASSUME TypeOK, NEW p \in Pools, NEW s \in Submissions, NEW a \in AmmOutcomes,
           SalvageStep(p, s, a)
    PROVE  /\ market' \in [Pools -> PoolData]
           /\ UNCHANGED <<scfg, anchor, cert, launchPrice, anchoredUnder,
                          lastInvalidated, attestations, lastSwap, lock, swaps,
                          lastSwapSlot, slot, now, certBasis, invalidatedAt>>
<1>1. s.salvor_lp_amount \in Nat /\ s.salvor_lp_amount <= market[p].lp_supply
  <2>1. s.salvor_lp_amount <= [q \in Pools |-> market[q].lp_supply][p]
      BY DEF SalvageStep, V!SalvagePool, V!RemoveLiquidity
  <2> QED
      BY <2>1, VaultParameters
<1>2. market[p] \in PoolData
    BY DEF TypeOK
<1>3. market[p].lp_supply - s.salvor_lp_amount \in Nat
    BY <1>1, <1>2 DEF PoolData
<1>4. [base_reserve |-> V!MemecoinReserve(p, a), quote_reserve |-> V!WsolReserve(p, a),
       lp_supply |-> market[p].lp_supply - s.salvor_lp_amount] \in PoolData
    BY <1>3, VaultParameters DEF PoolData
<1>5. market' = [market EXCEPT ![p] =
          [base_reserve |-> V!MemecoinReserve(p, a), quote_reserve |-> V!WsolReserve(p, a),
           lp_supply |-> market[p].lp_supply - s.salvor_lp_amount]]
    BY DEF SalvageStep
<1>6. market' \in [Pools -> PoolData]
    BY <1>4, <1>5 DEF TypeOK
<1> QED
    BY <1>6 DEF SalvageStep, scannerVars, clockVars, historyVars

-----------------------------------------------------------------------------
(***************************************************************************)
(* The scanner's invariants in the composition.                            *)
(***************************************************************************)
ScannerInv ==
    TypeOK /\ TtlAtLeastFloor /\ InvalidationRemembered /\ HonestlySigned

LEMMA InitScannerInv == SystemInit => ScannerInv
BY InitType, InitTtl, InitRemembered, InitSigned DEF SystemInit, ScannerInv

LEMMA NextScannerInv == ScannerInv /\ [SystemNext]_systemVars => ScannerInv'
<1> SUFFICES ASSUME ScannerInv, [SystemNext]_systemVars PROVE ScannerInv'
    OBVIOUS
<1>1. CASE [Next]_vars
    BY <1>1, NextType, NextTtl, NextRemembered, NextSigned DEF ScannerInv
<1>2. ASSUME NEW p \in Pools, NEW s \in Submissions, NEW a \in AmmOutcomes,
             SalvageStep(p, s, a)
      PROVE  ScannerInv'
  <2> USE DEF ScannerInv
  <2>1. /\ market' \in [Pools -> PoolData]
        /\ UNCHANGED <<scfg, anchor, cert, launchPrice, anchoredUnder,
                       lastInvalidated, attestations, lastSwap, lock, swaps,
                       lastSwapSlot, slot, now, certBasis, invalidatedAt>>
      BY <1>2, SalvageTouches
  <2>2. TypeOK'
      BY <2>1 DEF TypeOK
  <2>3. TtlAtLeastFloor'
      BY <2>1 DEF TtlAtLeastFloor
  <2>4. InvalidationRemembered'
      BY <2>1 DEF InvalidationRemembered, InvalidationRememberedFor, Epoch
  <2>5. HonestlySigned'
      BY <2>1 DEF HonestlySigned
  <2> QED
      BY <2>2, <2>3, <2>4, <2>5
<1> QED
    BY <1>1, <1>2, SystemCases

(***************************************************************************)
(* Composed with the vault, and with salvages that drain the pool under    *)
(* it, the scanner still never certifies a pool on outdated evidence.      *)
(***************************************************************************)
LEMMA SystemFreshStep == ScannerInv /\ [SystemNext]_systemVars => FreshStep
<1> SUFFICES ASSUME ScannerInv, [SystemNext]_systemVars PROVE FreshStep
    OBVIOUS
<1>1. CASE [Next]_vars
    BY <1>1, NextFresh DEF ScannerInv
<1>2. ASSUME NEW p \in Pools, NEW s \in Submissions, NEW a \in AmmOutcomes,
             SalvageStep(p, s, a)
      PROVE  FreshStep
    BY <1>2, SalvageTouches DEF ScannerInv, FreshStep
<1> QED
    BY <1>1, <1>2, SystemCases

(***************************************************************************)
(* A cert is issued on fresh evidence in the composition too: the vault's  *)
(* salvages take liquidity out of the pools the scanner judges, and touch  *)
(* nothing an attestation is about.                                        *)
(***************************************************************************)
THEOREM SystemCertsAreFreshlyEvidenced == SystemSpec => CertFreshlyEvidenced
<1>1. ScannerInv /\ [SystemNext]_systemVars => [FreshStep]_vars
    BY SystemFreshStep
<1> QED
    BY <1>1, InitScannerInv, NextScannerInv, PTL DEF SystemSpec, CertFreshlyEvidenced


-----------------------------------------------------------------------------
(***************************************************************************)
(* No configuration the scanner ever runs under lets a cert live longer    *)
(* than CERT_TTL.                                                          *)
(***************************************************************************)
TtlAtMost == scfg # None => scfg.cert_ttl_seconds <= CERT_TTL

LEMMA InitTtlAtMost == SystemInit => TtlAtMost
BY TtlAssumption DEF SystemInit, Init, TtlAtMost

LEMMA NextTtlAtMost ==
    ScannerInv /\ TtlAtMost /\ [SystemNext]_systemVars => TtlAtMost'
<1> SUFFICES ASSUME TypeOK, TtlAtMost, [SystemNext]_systemVars PROVE TtlAtMost'
    BY DEF ScannerInv
<1>1. ASSUME NEW i \in InitParams, Initialize(i) PROVE TtlAtMost'
    BY <1>1, TtlAssumption DEF Initialize, TtlAtMost
<1>2. ASSUME NEW u \in ConfigUpdates, UpdateProtocolConfig(u) PROVE TtlAtMost'
  <2>1. scfg \in ProtocolConfig /\ u \in UpdateProtocolConfigParams
      BY <1>2, ParameterAssumption DEF UpdateProtocolConfig, TypeOK
  <2>2. scfg'.cert_ttl_seconds = Given(u.cert_ttl_seconds, scfg.cert_ttl_seconds)
      BY <1>2, <2>1, UpdatedConfigType DEF UpdateProtocolConfig
  <2> QED
      BY <1>2, <2>2, TtlAssumption DEF UpdateProtocolConfig, Given, TtlAtMost
<1>3. ASSUME NEW b \in BOOLEAN, EmergencyPause(b) PROVE TtlAtMost'
  <2>1. scfg \in ProtocolConfig
      BY <1>3 DEF EmergencyPause, TypeOK
  <2>2. scfg'.cert_ttl_seconds = scfg.cert_ttl_seconds
      BY <1>3, <2>1 DEF EmergencyPause, ProtocolConfig
  <2> QED
      BY <1>3, <2>2 DEF EmergencyPause, TtlAtMost
<1>4. ASSUME UNCHANGED scfg PROVE TtlAtMost'
    BY <1>4 DEF TtlAtMost
<1>5. CASE RecordBaseline \/ Evaluate \/ \E p \in Pools : InvalidateAnchor(p) \/ SweepStaleAnchor(p)
    BY <1>4, <1>5 DEF RecordBaseline, RecordLaunchPrice, Evaluate, EvaluatePoolPhase1,
                      EvaluatePoolPhase2, InvalidateAnchor, SweepStaleAnchor
<1>6. CASE WorldNext \/ Tick \/ UNCHANGED vars
    BY <1>4, <1>6 DEF WorldNext, Swap, SetLock, OracleSigns, Tick, scannerVars, vars
<1>7. ASSUME NEW p \in Pools, NEW s \in Submissions, NEW a \in AmmOutcomes,
             SalvageStep(p, s, a)
      PROVE  TtlAtMost'
    BY <1>4, <1>7, SalvageTouches
<1> QED
    BY <1>1, <1>2, <1>3, <1>5, <1>6, <1>7, SystemCases DEF Next, ScannerNext

-----------------------------------------------------------------------------
(***************************************************************************)
(* The clock runs at most SlotSeconds a slot, from genesis and from every  *)
(* pool's last swap.                                                       *)
(***************************************************************************)
LEMMA TimesMonotone ==
    ASSUME NEW a \in Nat, NEW b \in Nat, a <= b, NEW s \in Nat
    PROVE  a * s \in Nat /\ b * s \in Nat /\ a * s <= b * s
<1>1. PICK k \in Nat : b = a + k
  <2>1. b - a \in Nat /\ b = a + (b - a)
      OBVIOUS
  <2> QED
      BY <2>1
<1>2. b * s = a * s + k * s
    BY <1>1
<1>3. a * s \in Nat /\ k * s \in Nat
    OBVIOUS
<1> QED
    BY <1>2, <1>3

LEMMA TimesNext ==
    ASSUME NEW a \in Nat, NEW s \in Nat
    PROVE  a * s \in Nat /\ (a + 1) * s = a * s + s
OBVIOUS

ClockInv ==
    /\ slot # 0
    /\ now # 0
    /\ now <= 1 + slot * SlotSeconds
    /\ \A p \in Pools :
          /\ lastSwapSlot[p] <= slot
          /\ lastSwap[p] <= now
          /\ now <= lastSwap[p] + (slot - lastSwapSlot[p]) * SlotSeconds

LEMMA InitClock == SystemInit => ClockInv
<1> SUFFICES ASSUME SystemInit PROVE ClockInv
    OBVIOUS
<1>1. slot = 1 /\ now = 1 /\ \A p \in Pools : lastSwapSlot[p] = 0 /\ lastSwap[p] = 1
    BY DEF SystemInit, Init
<1>2. SlotSeconds \in Nat /\ 1 * SlotSeconds = SlotSeconds /\ (1 - 0) * SlotSeconds = SlotSeconds
    BY SlotSecondsBound
<1> HIDE DEF SlotSeconds
<1> QED
    BY <1>1, <1>2 DEF ClockInv

\* What a step does to the clock and to the memory of swaps.
LEMMA ClockMoves ==
    ASSUME TypeOK, [SystemNext]_systemVars
    PROVE  \/ UNCHANGED <<slot, now, lastSwap, lastSwapSlot>>
           \/ Tick
           \/ \E p \in Pools : Swap(p)
<1>1. CASE ScannerNext
    BY <1>1 DEF ScannerNext, Initialize, UpdateProtocolConfig, EmergencyPause,
                RecordBaseline, RecordLaunchPrice, Evaluate, EvaluatePoolPhase1,
                EvaluatePoolPhase2, InvalidateAnchor, SweepStaleAnchor,
                worldVars, clockVars
<1>2. CASE WorldNext
    BY <1>2 DEF WorldNext, SetLock, OracleSigns, clockVars
<1>3. CASE UNCHANGED vars
    BY <1>3 DEF vars, worldVars, clockVars
<1>4. ASSUME NEW p \in Pools, NEW s \in Submissions, NEW a \in AmmOutcomes,
             SalvageStep(p, s, a)
      PROVE  UNCHANGED <<slot, now, lastSwap, lastSwapSlot>>
    BY <1>4, SalvageTouches
<1> QED
    BY <1>1, <1>2, <1>3, <1>4, SystemCases DEF Next

LEMMA NextClock == ScannerInv /\ ClockInv /\ [SystemNext]_systemVars => ClockInv'
<1> SUFFICES ASSUME TypeOK, ClockInv, [SystemNext]_systemVars PROVE ClockInv'
    BY DEF ScannerInv
<1>0. /\ slot \in Nat /\ now \in Nat /\ SlotSeconds \in Nat
      /\ \A p \in Pools : lastSwap[p] \in Nat /\ lastSwapSlot[p] \in Nat
    BY SlotSecondsBound DEF TypeOK
<1>1. CASE UNCHANGED <<slot, now, lastSwap, lastSwapSlot>>
    BY <1>1 DEF ClockInv
<1>2. CASE Tick
  <2>1. PICK d \in TickSeconds : now' = now + d
      BY <1>2 DEF Tick
  <2>2. slot' = slot + 1 /\ UNCHANGED <<lastSwap, lastSwapSlot>>
      BY <1>2 DEF Tick, worldVars
  <2>3. d \in Nat /\ d <= SlotSeconds
      BY SlotSecondsBound
  <2>4. slot' # 0 /\ now' # 0
      BY <1>0, <2>1, <2>2, <2>3 DEF ClockInv
  <2>5. now' <= 1 + slot' * SlotSeconds
    <3>1. slot * SlotSeconds \in Nat /\ slot' * SlotSeconds = slot * SlotSeconds + SlotSeconds
        BY <1>0, <2>2, TimesNext
    <3>2. now <= 1 + slot * SlotSeconds
        BY DEF ClockInv
    <3> QED
        BY <1>0, <2>1, <2>3, <3>1, <3>2
  <2>6. ASSUME NEW p \in Pools
        PROVE  /\ lastSwapSlot'[p] <= slot'
               /\ lastSwap'[p] <= now'
               /\ now' <= lastSwap'[p] + (slot' - lastSwapSlot'[p]) * SlotSeconds
    <3>1. /\ lastSwapSlot[p] <= slot
          /\ lastSwap[p] <= now
          /\ now <= lastSwap[p] + (slot - lastSwapSlot[p]) * SlotSeconds
        BY DEF ClockInv
    <3>2. slot - lastSwapSlot[p] \in Nat /\ slot' - lastSwapSlot'[p] = (slot - lastSwapSlot[p]) + 1
        BY <1>0, <2>2, <3>1
    <3>3. /\ (slot - lastSwapSlot[p]) * SlotSeconds \in Nat
          /\ (slot' - lastSwapSlot'[p]) * SlotSeconds
                 = (slot - lastSwapSlot[p]) * SlotSeconds + SlotSeconds
        BY <1>0, <3>2, TimesNext
    <3> QED
        BY <1>0, <2>1, <2>2, <2>3, <3>1, <3>3
  <2> QED
      BY <2>4, <2>5, <2>6 DEF ClockInv
<1>3. ASSUME NEW p \in Pools, Swap(p) PROVE ClockInv'
  <2>1. UNCHANGED <<slot, now>> /\ lastSwap'[p] = now /\ lastSwapSlot'[p] = slot
      BY <1>3 DEF Swap, clockVars, TypeOK
  <2>2. \A q \in Pools \ {p} : /\ lastSwap'[q] = lastSwap[q]
                               /\ lastSwapSlot'[q] = lastSwapSlot[q]
      BY <1>3 DEF Swap, TypeOK
  <2>3. (slot - slot) * SlotSeconds = 0
      BY <1>0
  <2>4. /\ lastSwapSlot'[p] <= slot
        /\ lastSwap'[p] <= now
        /\ now <= lastSwap'[p] + (slot - lastSwapSlot'[p]) * SlotSeconds
      BY <1>0, <2>1, <2>3
  <2> QED
      BY <2>1, <2>2, <2>4 DEF ClockInv
<1> QED
    BY <1>1, <1>2, <1>3, ClockMoves


-----------------------------------------------------------------------------
(***************************************************************************)
(* A pool's cert and what was known when it was issued.                    *)
(***************************************************************************)
CertInvFor(p) ==
    cert[p] # None =>
        /\ cert[p].issued_at <= now
        /\ cert[p].expires_at <= cert[p].issued_at + CERT_TTL
        /\ certBasis[p] \in [honest : BOOLEAN, inactivity_seconds : Nat]
        /\ certBasis[p].honest =>
              \/ now >= lastSwap[p] + certBasis[p].inactivity_seconds
              \/ cert[p].issued_at <= lastSwap[p] + SLOT_HASHES * SlotSeconds

RevokedFor(p) ==
    /\ invalidatedAt[p] \in Nat \cup {None}
    /\ invalidatedAt[p] # None =>
          /\ lastInvalidated[p] # None
          /\ cert[p] # None =>
                \/ cert[p].expires_at <= invalidatedAt[p] + CERT_TTL
                \/ cert[p].anchor_epoch
                       > lastInvalidated[p] + MIN_EPOCH_CONFIRMATION + 1

CertInv == \A p \in Pools : CertInvFor(p)
RevokedInv == \A p \in Pools : RevokedFor(p)

\* A step issues a pool's cert, invalidates its anchor, swaps, or does none of these.
Quiet(q) ==
    /\ cert'[q] = cert[q]
    /\ certBasis'[q] = certBasis[q]
    /\ lastInvalidated'[q] = lastInvalidated[q]
    /\ invalidatedAt'[q] = invalidatedAt[q]

Issues(q) ==
    /\ \E a \in attestations, supplied \in SUBSET Locks : EvaluatePoolPhase2(q, a, supplied)
    /\ certBasis'[q] = [honest |-> scfg.activity_oracle \in HonestOracles,
                        inactivity_seconds |-> scfg.inactivity_seconds]
    /\ lastInvalidated'[q] = lastInvalidated[q]
    /\ invalidatedAt'[q] = invalidatedAt[q]

Invalidates(q) ==
    /\ cert'[q] = cert[q]
    /\ certBasis'[q] = certBasis[q]
    /\ lastInvalidated'[q] # None
    /\ invalidatedAt'[q] = now

LEMMA PoolMoves ==
    ASSUME TypeOK, [SystemNext]_systemVars, NEW q \in Pools
    PROVE  \/ Quiet(q) /\ UNCHANGED <<now, lastSwap>>
           \/ Quiet(q) /\ now' \in Nat /\ now' >= now /\ UNCHANGED lastSwap
           \/ Quiet(q) /\ UNCHANGED now /\ lastSwap'[q] \in {lastSwap[q], now}
           \/ Issues(q) /\ UNCHANGED <<now, lastSwap>>
           \/ Invalidates(q) /\ UNCHANGED <<now, lastSwap>>
<1>1. CASE ScannerStep
  <2>1. UNCHANGED <<now, lastSwap>>
      BY <1>1 DEF ScannerStep, ScannerNext, Initialize, UpdateProtocolConfig,
                  EmergencyPause, RecordBaseline, RecordLaunchPrice, Evaluate,
                  EvaluatePoolPhase1, EvaluatePoolPhase2, InvalidateAnchor,
                  SweepStaleAnchor, worldVars, clockVars
  <2>2. /\ certBasis'[q] =
              IF cert'[q] = cert[q] THEN certBasis[q]
              ELSE [honest |-> scfg.activity_oracle \in HonestOracles,
                    inactivity_seconds |-> scfg.inactivity_seconds]
        /\ invalidatedAt'[q] =
              IF lastInvalidated'[q] = lastInvalidated[q] THEN invalidatedAt[q] ELSE now
      BY <1>1 DEF ScannerStep
  <2>3. [Next]_vars
      BY <1>1 DEF ScannerStep, Next
  <2>4. CASE cert'[q] # cert[q]
    <3>1. \E a \in attestations, supplied \in SUBSET Locks : EvaluatePoolPhase2(q, a, supplied)
        BY <2>3, <2>4, CertIssued
    <3>2. lastInvalidated' = lastInvalidated
        BY <3>1 DEF EvaluatePoolPhase2
    <3> QED
        BY <2>1, <2>2, <2>4, <3>1, <3>2 DEF Issues
  <2>5. CASE cert'[q] = cert[q] /\ lastInvalidated'[q] # lastInvalidated[q]
    <3>1. PICK p \in Pools : InvalidateAnchor(p)
      <4>1. ASSUME NEW p \in Pools, SweepStaleAnchor(p) PROVE FALSE
          BY <2>5, <4>1 DEF SweepStaleAnchor
      <4>2. ASSUME NEW p \in Pools, NEW a \in attestations, NEW supplied \in SUBSET Locks,
                   EvaluatePoolPhase2(p, a, supplied)
            PROVE  FALSE
          BY <2>5, <4>2 DEF EvaluatePoolPhase2
      <4> QED
          BY <2>3, <2>5, <4>1, <4>2, AnchorCases
    <3>2. q = p
        BY <2>5, <3>1 DEF InvalidateAnchor, TypeOK
    <3>3. anchor[p] \in EligibilityAnchor
        BY <3>1 DEF InvalidateAnchor, TypeOK
    <3>4. lastInvalidated'[q] = anchor[p].first_eligible_epoch
        BY <3>1, <3>2 DEF InvalidateAnchor, TypeOK
    <3>5. lastInvalidated'[q] # None
        BY <3>3, <3>4, NoneAssumption DEF EligibilityAnchor
    <3> QED
        BY <2>1, <2>2, <2>5, <3>5 DEF Invalidates
  <2> QED
      BY <2>1, <2>2, <2>4, <2>5 DEF Quiet
<1>2. ASSUME NEW p \in Pools, NEW s \in Submissions, NEW a \in AmmOutcomes,
             SalvageStep(p, s, a)
      PROVE  Quiet(q) /\ UNCHANGED <<now, lastSwap>>
    BY <1>2, SalvageTouches DEF Quiet
<1>3. CASE VaultStep \/ UNCHANGED systemVars
    BY <1>3 DEF VaultStep, systemVars, vars, scannerVars, worldVars, clockVars,
                historyVars, Quiet
<1>4. CASE WorldStep
  <2>1. Quiet(q)
      BY <1>4 DEF WorldStep, WorldNext, Swap, SetLock, OracleSigns, Tick, scannerVars,
                  historyVars, Quiet
  <2>2. CASE Tick
      BY <2>1, <2>2, ParameterAssumption DEF Tick, worldVars, TypeOK
  <2>3. ASSUME NEW p \in Pools, Swap(p)
        PROVE  UNCHANGED now /\ lastSwap'[q] \in {lastSwap[q], now}
      BY <2>3 DEF Swap, clockVars, TypeOK
  <2>4. CASE UNCHANGED <<now, lastSwap>>
      BY <2>1, <2>4
  <2> QED
      BY <1>4, <2>1, <2>2, <2>3, <2>4 DEF WorldStep, WorldNext, SetLock, OracleSigns, clockVars
<1> QED
    BY <1>1, <1>2, <1>3, <1>4 DEF SystemNext

\* What Phase 2 writes.
LEMMA IssuedCert ==
    ASSUME TypeOK, TtlAtMost, NEW q \in Pools, Issues(q)
    PROVE  /\ cert'[q] \in EligibilityCert
           /\ scfg \in ProtocolConfig
           /\ cert'[q].issued_at = now
           /\ cert'[q].expires_at <= now + CERT_TTL
           /\ cert'[q] # cert[q]
<1>1. PICK a \in attestations, supplied \in SUBSET Locks : EvaluatePoolPhase2(q, a, supplied)
    BY DEF Issues
<1>2. scfg # None /\ scfg \in ProtocolConfig
    BY <1>1 DEF EvaluatePoolPhase2, EvaluationPasses, TypeOK
<1>3. scfg.cert_ttl_seconds \in Nat /\ scfg.cert_ttl_seconds <= CERT_TTL
    BY <1>2 DEF ProtocolConfig, TtlAtMost
<1>4. cert'[q] = [anchor_epoch |-> anchor[q].first_eligible_epoch,
                  cert_epoch |-> Epoch,
                  issued_at |-> now,
                  expires_at |-> now + scfg.cert_ttl_seconds,
                  criteria_bitmap |-> ALL_CRITERIA_MASK,
                  reissue_generation |-> Generation(q) + 1]
    BY <1>1 DEF EvaluatePoolPhase2, TypeOK
<1>5. anchor[q].first_eligible_epoch \in Nat /\ now \in Nat /\ Epoch \in Nat
  <2>1. anchor[q] \in EligibilityAnchor
      BY <1>1 DEF EvaluatePoolPhase2, TypeOK
  <2> QED
      BY <2>1, EpochType DEF EligibilityAnchor, TypeOK
<1>6. Generation(q) \in Nat
  <2>1. cert[q] \in EligibilityCert \cup {None}
      BY DEF TypeOK
  <2> QED
      BY <2>1 DEF Generation, EligibilityCert
<1>7. cert'[q] \in EligibilityCert
    BY <1>3, <1>4, <1>5, <1>6 DEF EligibilityCert, ALL_CRITERIA_MASK
<1>8. cert'[q].issued_at = now /\ cert'[q].expires_at = now + scfg.cert_ttl_seconds
    BY <1>4
<1>9. cert'[q] # cert[q]
  <2>1. cert'[q].reissue_generation = Generation(q) + 1
      BY <1>4
  <2> QED
      BY <1>6, <1>7, <2>1, NoneAssumption DEF Generation
<1> QED
    BY <1>2, <1>3, <1>5, <1>7, <1>8, <1>9, TtlAssumption

LEMMA InitCert == SystemInit => CertInv /\ RevokedInv
BY DEF SystemInit, Init, CertInv, CertInvFor, RevokedInv, RevokedFor

LEMMA NextCert ==
    ScannerInv /\ TtlAtMost /\ ClockInv /\ CertInv /\ [SystemNext]_systemVars => CertInv'
<1> SUFFICES ASSUME ScannerInv, TtlAtMost, ClockInv, CertInv, [SystemNext]_systemVars,
                    NEW q \in Pools, cert'[q] # None
             PROVE  CertInvFor(q)'
    BY DEF CertInv, CertInvFor
<1> DEFINE window == SLOT_HASHES * SlotSeconds
<1>0. /\ now \in Nat /\ lastSwap[q] \in Nat /\ lastSwap[q] <= now
      /\ CERT_TTL \in Nat /\ window \in Nat
  <2>1. SLOT_HASHES \in Nat /\ SlotSeconds \in Nat
      BY ClockAssumption, SlotSecondsBound
  <2>2. window \in Nat
      BY <2>1, TimesNext
  <2> QED
      BY <2>2, TtlAssumption DEF ScannerInv, TypeOK, ClockInv
<1>1. cert[q] # None => /\ cert[q].issued_at \in Nat
                        /\ cert[q].expires_at \in Nat
                        /\ cert[q].issued_at <= now
                        /\ cert[q].expires_at <= cert[q].issued_at + CERT_TTL
                        /\ certBasis[q] \in [honest : BOOLEAN, inactivity_seconds : Nat]
                        /\ certBasis[q].inactivity_seconds \in Nat
                        /\ certBasis[q].honest =>
                              \/ now >= lastSwap[q] + certBasis[q].inactivity_seconds
                              \/ cert[q].issued_at <= lastSwap[q] + window
  <2>1. cert[q] \in EligibilityCert \cup {None}
      BY DEF ScannerInv, TypeOK
  <2>2. CertInvFor(q)
      BY DEF CertInv
  <2> QED
      BY <2>1, <2>2 DEF CertInvFor, EligibilityCert
<1> HIDE DEF window
<1>2. CASE Quiet(q) /\ now' \in Nat /\ now' >= now /\ UNCHANGED lastSwap
  <2>1. cert'[q] = cert[q] /\ certBasis'[q] = certBasis[q] /\ lastSwap'[q] = lastSwap[q]
      BY <1>2 DEF Quiet
  <2>2. certBasis[q].honest =>
            \/ now' >= lastSwap[q] + certBasis[q].inactivity_seconds
            \/ cert[q].issued_at <= lastSwap[q] + window
      BY <1>0, <1>1, <1>2, <2>1
  <2>3. cert[q].issued_at <= now'
      BY <1>0, <1>1, <1>2, <2>1
  <2> QED
      BY <1>1, <2>1, <2>2, <2>3 DEF CertInvFor, window
<1>3. CASE Quiet(q) /\ UNCHANGED now /\ lastSwap'[q] \in {lastSwap[q], now}
  <2>1. cert'[q] = cert[q] /\ certBasis'[q] = certBasis[q]
      BY <1>3 DEF Quiet
  <2>2. certBasis[q].honest =>
            \/ now >= lastSwap'[q] + certBasis[q].inactivity_seconds
            \/ cert[q].issued_at <= lastSwap'[q] + window
    <3>1. CASE lastSwap'[q] = now
        BY <1>0, <1>1, <2>1, <3>1
    <3> QED
        BY <1>1, <1>3, <2>1, <3>1
  <2> QED
      BY <1>1, <1>3, <2>1, <2>2 DEF CertInvFor, window
<1>4. CASE Invalidates(q) /\ UNCHANGED <<now, lastSwap>>
    BY <1>1, <1>4 DEF Invalidates, CertInvFor, window
<1>5. CASE Issues(q) /\ UNCHANGED <<now, lastSwap>>
  <2>1. /\ scfg \in ProtocolConfig
        /\ cert'[q].issued_at = now
        /\ cert'[q].expires_at <= now + CERT_TTL
      BY <1>5, IssuedCert DEF ScannerInv
  <2>2. certBasis'[q] = [honest |-> scfg.activity_oracle \in HonestOracles,
                         inactivity_seconds |-> scfg.inactivity_seconds]
      BY <1>5 DEF Issues
  <2>3. scfg.inactivity_seconds \in Nat
      BY <2>1 DEF ProtocolConfig
  <2>4. /\ certBasis'[q] \in [honest : BOOLEAN, inactivity_seconds : Nat]
        /\ certBasis'[q].honest => scfg.activity_oracle \in HonestOracles
        /\ certBasis'[q].inactivity_seconds = scfg.inactivity_seconds
    <3>1. /\ certBasis'[q].honest = (scfg.activity_oracle \in HonestOracles)
          /\ certBasis'[q].inactivity_seconds = scfg.inactivity_seconds
        BY <2>2
    <3>2. (scfg.activity_oracle \in HonestOracles) \in BOOLEAN
        OBVIOUS
    <3>3. certBasis'[q] \in [honest : BOOLEAN, inactivity_seconds : Nat]
      <4>1. \A h \in BOOLEAN, n \in Nat : [honest |-> h, inactivity_seconds |-> n]
                \in [honest : BOOLEAN, inactivity_seconds : Nat]
          OBVIOUS
      <4> QED
          BY <2>2, <2>3, <3>2, <4>1, Zenon
    <3>4. certBasis'[q].honest => scfg.activity_oracle \in HonestOracles
        BY <3>1, Zenon
    <3> QED
        BY <3>1, <3>3, <3>4
  <2>5. ASSUME scfg.activity_oracle \in HonestOracles
        PROVE  \/ now >= lastSwap[q] + scfg.inactivity_seconds
               \/ now <= lastSwap[q] + window
    <3>1. cert'[q] # cert[q]
        BY <1>5, IssuedCert DEF ScannerInv
    <3>2. \/ now - lastSwap[q] >= scfg.inactivity_seconds
          \/ slot - lastSwapSlot[q] <= SLOT_HASHES
        BY <2>5, <3>1, SystemFreshStep DEF FreshStep
    <3>3. CASE slot - lastSwapSlot[q] <= SLOT_HASHES
      <4>1. slot - lastSwapSlot[q] \in Nat
          BY DEF ClockInv, ScannerInv, TypeOK
      <4>2. /\ (slot - lastSwapSlot[q]) * SlotSeconds \in Nat
            /\ (slot - lastSwapSlot[q]) * SlotSeconds <= window
        <5>1. SLOT_HASHES \in Nat /\ SlotSeconds \in Nat
            BY ClockAssumption, SlotSecondsBound
        <5> QED
            BY <3>3, <4>1, <5>1, TimesMonotone DEF window
      <4>3. now <= lastSwap[q] + (slot - lastSwapSlot[q]) * SlotSeconds
          BY DEF ClockInv
      <4> QED
          BY <1>0, <4>2, <4>3
    <3> QED
        BY <1>0, <2>3, <3>2, <3>3
  <2>6. certBasis'[q].honest =>
            \/ now >= lastSwap[q] + certBasis'[q].inactivity_seconds
            \/ cert'[q].issued_at <= lastSwap[q] + window
      BY <2>1, <2>4, <2>5
  <2> QED
      BY <1>0, <1>5, <2>1, <2>4, <2>6 DEF CertInvFor, window
<1>6. TypeOK
    BY DEF ScannerInv
<1>7. CASE Quiet(q) /\ UNCHANGED <<now, lastSwap>>
    BY <1>0, <1>2, <1>7
<1> QED
    BY <1>2, <1>3, <1>4, <1>5, <1>6, <1>7, PoolMoves

LEMMA NextRevoked ==
    /\ ScannerInv /\ TtlAtMost /\ CertInv /\ RevokedInv /\ [SystemNext]_systemVars
    => RevokedInv'
<1> SUFFICES ASSUME ScannerInv, TtlAtMost, CertInv, RevokedInv, [SystemNext]_systemVars,
                    NEW q \in Pools
             PROVE  RevokedFor(q)'
    BY DEF RevokedInv, RevokedFor
<1>0. TypeOK /\ CertInvFor(q) /\ RevokedFor(q)
    BY DEF ScannerInv, CertInv, RevokedInv
<1>1. CASE Quiet(q)
    BY <1>0, <1>1 DEF Quiet, RevokedFor
<1>2. CASE Issues(q)
  <2>1. ASSUME lastInvalidated[q] # None
        PROVE  cert'[q].anchor_epoch > lastInvalidated[q] + MIN_EPOCH_CONFIRMATION + 1
    <3>1. PICK a \in attestations, supplied \in SUBSET Locks :
              EvaluatePoolPhase2(q, a, supplied)
        BY <1>2 DEF Issues
    <3>2. /\ anchor[q] # None
          /\ ~anchor[q].invalidated
          /\ cert'[q].anchor_epoch = anchor[q].first_eligible_epoch
        BY <1>0, <3>1 DEF EvaluatePoolPhase2, TypeOK
    <3>3. InvalidationRememberedFor(q)
        BY DEF ScannerInv, InvalidationRemembered
    <3> QED
        BY <2>1, <3>2, <3>3 DEF InvalidationRememberedFor
  <2> QED
      BY <1>0, <1>2, <2>1 DEF Issues, RevokedFor
<1>3. CASE Invalidates(q)
  <2>1. now \in Nat /\ CERT_TTL \in Nat /\ cert[q] \in EligibilityCert \cup {None}
      BY <1>0, TtlAssumption DEF TypeOK
  <2>2. cert[q] # None => cert[q].expires_at <= now + CERT_TTL
      BY <1>0, <2>1 DEF CertInvFor, EligibilityCert
  <2> QED
      BY <1>3, <2>1, <2>2 DEF Invalidates, RevokedFor
<1> QED
    BY <1>0, <1>1, <1>2, <1>3, PoolMoves


-----------------------------------------------------------------------------
(***************************************************************************)
(* Only a salvage of a pool makes it salvaged.                             *)
(***************************************************************************)
RegistryOK == DOMAIN registry = Pools

LEMMA InitRegistry == SystemInit => RegistryOK
BY DEF SystemInit, V!Init, RegistryOK

LEMMA RegistryMoves ==
    ASSUME RegistryOK, [SystemNext]_systemVars
    PROVE  /\ RegistryOK'
           /\ \A q \in Pools : SalvagedNow(q) =>
                 \E s \in Submissions, a \in AmmOutcomes : SalvageStep(q, s, a)
<1>1. ASSUME UNCHANGED registry
      PROVE  RegistryOK' /\ \A q \in Pools : ~SalvagedNow(q)
    BY <1>1 DEF RegistryOK, SalvagedNow
<1>2. CASE ScannerStep \/ WorldStep \/ UNCHANGED systemVars
    BY <1>1, <1>2 DEF ScannerStep, WorldStep, systemVars, vaultVars
<1>3. CASE VaultStep
  <2>1. CASE \/ \E i \in VaultInitParams : V!Initialize(i)
             \/ \E u \in VaultConfigUpdates : V!UpdateProtocolConfig(u)
             \/ \E b \in BOOLEAN : V!EmergencyPause(b)
             \/ \E p \in Pools : V!SweepDust(p)
      BY <1>1, <2>1 DEF V!Initialize, V!UpdateProtocolConfig, V!EmergencyPause,
                        V!SweepDust
  <2>2. CASE V!GiftNext
      BY <1>1, <2>2 DEF V!GiftNext, V!GiftToLpVault, V!GiftToSolHolding,
                        V!GiftToTreasury, V!GiftWsol
  <2>3. ASSUME NEW p \in Pools, NEW h \in Holders, V!Claim(p, h)
        PROVE  RegistryOK' /\ \A q \in Pools : ~SalvagedNow(q)
    <3>1. registry[p] # None
        BY <2>3 DEF V!Claim, V!Salvaged
    <3>2. \E r : registry' = [registry EXCEPT ![p] = r]
        BY <2>3 DEF V!Claim, V!ClaimLpProceeds
    <3> QED
        BY <3>1, <3>2 DEF RegistryOK, SalvagedNow
  <2> QED
      BY <1>3, <2>1, <2>2, <2>3 DEF VaultStep
<1>4. ASSUME NEW p \in Pools, NEW s \in Submissions, NEW a \in AmmOutcomes,
             SalvageStep(p, s, a)
      PROVE  /\ RegistryOK'
             /\ \A q \in Pools : SalvagedNow(q) => q = p
  <2>1. \E r : registry' = [registry EXCEPT ![p] = r]
      BY <1>4 DEF SalvageStep, V!SalvagePool, V!Settle
  <2> QED
      BY <2>1 DEF RegistryOK, SalvagedNow
<1> QED
    BY <1>2, <1>3, <1>4 DEF SystemNext

\* The cert a salvage is admitted on has not expired.
LEMMA SalvageSeesCert ==
    ASSUME TypeOK, CertInv, NEW p \in Pools, NEW s \in Submissions, NEW a \in AmmOutcomes,
           SalvageStep(p, s, a)
    PROVE  /\ cert[p] # None
           /\ cert[p] \in EligibilityCert
           /\ CertInvFor(p)
           /\ now < cert[p].expires_at
<1>1. V!Preflight(p)
    BY DEF SalvageStep, V!SalvagePool
<1>2. [q \in Pools |-> CertAccount(q)][p] = CertAccount(p)
    OBVIOUS
<1>3. CertAccount(p) # None /\ ~(CertAccount(p).expires_at <= now)
    BY <1>1, <1>2 DEF V!Preflight, V!CertExpired
<1>4. cert[p] # None /\ CertAccount(p).expires_at = cert[p].expires_at
    BY <1>3 DEF CertAccount
<1>5. cert[p] \in EligibilityCert /\ now \in Nat
    BY <1>4 DEF TypeOK
<1>6. cert[p].expires_at \in Nat
    BY <1>5 DEF EligibilityCert
<1> QED
    BY <1>3, <1>4, <1>5, <1>6 DEF CertInv

SystemInv ==
    ScannerInv /\ TtlAtMost /\ ClockInv /\ CertInv /\ RevokedInv /\ RegistryOK

\* The invariant of the composition, preserved by every step.
LEMMA InitSystemInv == SystemInit => SystemInv
BY InitScannerInv, InitTtlAtMost, InitClock, InitCert, InitRegistry DEF SystemInv

LEMMA NextSystemInv == SystemInv /\ [SystemNext]_systemVars => SystemInv'
BY NextScannerInv, NextTtlAtMost, NextClock, NextCert, NextRevoked, RegistryMoves
   DEF SystemInv

(***************************************************************************)
(* With an honest oracle a pool is salvaged only on evidence as fresh as   *)
(* the cert's lifetime and the SlotHashes window make it, although the     *)
(* vault never looks at the pool's trading itself.                         *)
(***************************************************************************)
THEOREM SalvagesAreFreshlyEvidenced == SystemSpec => SalvageFreshlyEvidenced
<1>1. SystemInv /\ [SystemNext]_systemVars => [SalvageEvidenceStep]_systemVars
  <2> SUFFICES ASSUME SystemInv, [SystemNext]_systemVars, NEW p \in Pools,
                      SalvagedNow(p), certBasis[p].honest,
                      ~(now - lastSwap[p] >= certBasis[p].inactivity_seconds)
               PROVE  now - lastSwap[p] < CERT_TTL + SLOT_HASHES * SlotSeconds
      BY DEF SalvageEvidenceStep
  <2> DEFINE window == SLOT_HASHES * SlotSeconds
  <2>1. PICK s \in Submissions, a \in AmmOutcomes : SalvageStep(p, s, a)
      BY RegistryMoves DEF SystemInv
  <2>2. /\ cert[p] # None
        /\ cert[p] \in EligibilityCert
        /\ CertInvFor(p)
        /\ now < cert[p].expires_at
      BY <2>1, SalvageSeesCert DEF SystemInv, ScannerInv
  <2>3. /\ now \in Nat /\ lastSwap[p] \in Nat
        /\ cert[p].expires_at \in Nat /\ cert[p].issued_at \in Nat
        /\ CERT_TTL \in Nat
      BY <2>2, TtlAssumption DEF SystemInv, ScannerInv, TypeOK, EligibilityCert
  <2>4. window \in Nat
      BY ClockAssumption, SlotSecondsBound, TimesNext
  <2>5. /\ certBasis[p].inactivity_seconds \in Nat
        /\ cert[p].expires_at <= cert[p].issued_at + CERT_TTL
        /\ \/ now >= lastSwap[p] + certBasis[p].inactivity_seconds
           \/ cert[p].issued_at <= lastSwap[p] + window
      BY <2>2 DEF CertInvFor
  <2> HIDE DEF window
  <2>6. cert[p].issued_at <= lastSwap[p] + window
      BY <2>3, <2>5
  <2>7. now - lastSwap[p] < CERT_TTL + window
      BY <2>2, <2>3, <2>4, <2>5, <2>6
  <2> QED
      BY <2>7 DEF window
<1> QED
    BY <1>1, InitSystemInv, NextSystemInv, PTL DEF SystemSpec, SalvageFreshlyEvidenced

(***************************************************************************)
(* An invalidation reaches the vault within one cert lifetime, although    *)
(* invalidate_anchor does not touch the cert: later salvages rest on a new *)
(* observation beyond the invalidated anchor's sweep window.               *)
(***************************************************************************)
THEOREM RevocationReachesTheVault == SystemSpec => RevocationTakesEffect
<1>1. SystemInv /\ [SystemNext]_systemVars => [RevocationStep]_systemVars
  <2> SUFFICES ASSUME SystemInv, [SystemNext]_systemVars, NEW p \in Pools,
                      SalvagedNow(p), invalidatedAt[p] # None
               PROVE  \/ now < invalidatedAt[p] + CERT_TTL
                      \/ cert[p].anchor_epoch
                             > lastInvalidated[p] + MIN_EPOCH_CONFIRMATION + 1
      BY DEF RevocationStep
  <2>1. PICK s \in Submissions, a \in AmmOutcomes : SalvageStep(p, s, a)
      BY RegistryMoves DEF SystemInv
  <2>2. cert[p] # None /\ cert[p] \in EligibilityCert /\ now < cert[p].expires_at
      BY <2>1, SalvageSeesCert DEF SystemInv, ScannerInv
  <2>3. RevokedFor(p)
      BY DEF SystemInv, RevokedInv
  <2>4. /\ now \in Nat /\ cert[p].expires_at \in Nat
        /\ invalidatedAt[p] \in Nat /\ CERT_TTL \in Nat
      BY <2>2, <2>3, TtlAssumption
         DEF SystemInv, ScannerInv, TypeOK, EligibilityCert, RevokedFor
  <2>5. \/ cert[p].expires_at <= invalidatedAt[p] + CERT_TTL
        \/ cert[p].anchor_epoch > lastInvalidated[p] + MIN_EPOCH_CONFIRMATION + 1
      BY <2>2, <2>3 DEF RevokedFor
  <2> QED
      BY <2>2, <2>4, <2>5
<1> QED
    BY <1>1, InitSystemInv, NextSystemInv, PTL DEF SystemSpec, RevocationTakesEffect


-----------------------------------------------------------------------------
(***************************************************************************)
(* What the vault sees: every step of the system is, through the accounts  *)
(* it reads, a step its own specification allows.                          *)
(***************************************************************************)
Seen == [p \in Pools |-> CertAccount(p)]
SeenSupply == [p \in Pools |-> market[p].lp_supply]

\* A step that leaves the cert, the LP supply and the clock alone.
LEMMA UnseenStep ==
    ASSUME UNCHANGED <<vaultVars, cert, now>>, SeenSupply' = SeenSupply
    PROVE  UNCHANGED V!vars
<1>1. Seen' = Seen
    BY DEF Seen, CertAccount
<1> QED
    BY <1>1 DEF Seen, SeenSupply, vaultVars, V!vars, V!programVars, V!envVars

LEMMA IssueSeen ==
    ASSUME SystemInv, NEW p \in Pools, NEW a \in attestations, NEW supplied \in SUBSET Locks,
           EvaluatePoolPhase2(p, a, supplied), UNCHANGED vaultVars
    PROVE  V!ScannerIssuesCert(p)
<1>1. TypeOK
    BY DEF SystemInv, ScannerInv
<1>2. /\ scfg \in ProtocolConfig
      /\ scfg.cert_ttl_seconds \in MIN_CERT_TTL_SECONDS .. CERT_TTL
  <2>1. scfg # None /\ scfg \in ProtocolConfig
      BY <1>1 DEF EvaluatePoolPhase2, EvaluationPasses, TypeOK
  <2>2. scfg.cert_ttl_seconds \in Nat
      BY <2>1 DEF ProtocolConfig
  <2> QED
      BY <2>1, <2>2, ClockAssumption, TtlAssumption
         DEF SystemInv, ScannerInv, TtlAtLeastFloor, TtlAtMost
<1>3. Seen[p] # None => Seen[p].expires_at <= now
  <2>1. CertExpired(p)
      BY DEF EvaluatePoolPhase2
  <2>2. cert[p] # None => cert[p] \in EligibilityCert /\ cert[p].expires_at \in Nat
      BY <1>1 DEF TypeOK, EligibilityCert
  <2>3. now \in Nat
      BY <1>1 DEF TypeOK
  <2>4. Seen[p] = CertAccount(p)
      BY DEF Seen
  <2>5. CASE cert[p] = None
      BY <2>4, <2>5 DEF CertAccount
  <2>6. CASE cert[p] # None
    <3>1. Seen[p].expires_at = cert[p].expires_at
        BY <2>4, <2>6 DEF CertAccount
    <3> QED
        BY <2>1, <2>2, <2>3, <2>6, <3>1 DEF CertExpired
  <2> QED
      BY <2>5, <2>6
<1>4. Seen' = [Seen EXCEPT ![p] =
          [criteria_bitmap |-> 63, expires_at |-> now + scfg.cert_ttl_seconds]]
  <2> DEFINE new == [anchor_epoch |-> anchor[p].first_eligible_epoch,
                     cert_epoch |-> Epoch,
                     issued_at |-> now,
                     expires_at |-> now + scfg.cert_ttl_seconds,
                     criteria_bitmap |-> ALL_CRITERIA_MASK,
                     reissue_generation |-> Generation(p) + 1]
  <2>1. cert' = [cert EXCEPT ![p] = new]
      BY DEF EvaluatePoolPhase2
  <2>2. /\ new.criteria_bitmap = 63
        /\ new.expires_at = now + scfg.cert_ttl_seconds
      BY DEF ALL_CRITERIA_MASK
  <2>3. new # None
    <3>1. anchor[p] \in EligibilityAnchor
        BY <1>1 DEF EvaluatePoolPhase2, TypeOK
    <3>2. anchor[p].first_eligible_epoch \in Nat
        BY <3>1 DEF EligibilityAnchor
    <3>3. cert[p] \in EligibilityCert \cup {None} /\ now \in Nat
        BY <1>1 DEF TypeOK
    <3>4. Generation(p) \in Nat /\ Epoch \in Nat /\ scfg.cert_ttl_seconds \in Nat
        BY <1>1, <1>2, <3>3, EpochType DEF Generation, EligibilityCert, ProtocolConfig
    <3>5. new \in EligibilityCert
        BY <3>2, <3>3, <3>4 DEF EligibilityCert, ALL_CRITERIA_MASK
    <3> QED
        BY <3>5, NoneAssumption
  <2> HIDE DEF new
  <2>4. cert'[p] = new /\ \A q \in Pools \ {p} : cert'[q] = cert[q]
      BY <1>1, <2>1 DEF TypeOK
  <2>5. CertAccount(p)' = [criteria_bitmap |-> 63,
                           expires_at |-> now + scfg.cert_ttl_seconds]
      BY <2>2, <2>3, <2>4 DEF CertAccount
  <2>6. \A q \in Pools \ {p} : CertAccount(q)' = CertAccount(q)
      BY <2>4 DEF CertAccount
  <2> QED
      BY <2>5, <2>6 DEF Seen
<1>5. UNCHANGED <<market, now>>
    BY DEF EvaluatePoolPhase2, worldVars, clockVars
<1> QED
    BY <1>2, <1>3, <1>4, <1>5
       DEF V!ScannerIssuesCert, V!CertExpired, V!ALL_CRITERIA_MASK, V!programVars,
           Seen, vaultVars

LEMMA SwapSeen ==
    ASSUME TypeOK, NEW p \in Pools, Swap(p), UNCHANGED vaultVars
    PROVE  V!LpSupplyMoves(p)
<1>1. PICK m \in Markets : market' = [market EXCEPT ![p] = m]
    BY DEF Swap
<1>2. SeenSupply' = [SeenSupply EXCEPT ![p] = m.lp_supply]
    BY <1>1 DEF SeenSupply, TypeOK
<1>3. m.lp_supply \in {k.lp_supply : k \in Markets}
    OBVIOUS
<1>4. UNCHANGED <<cert, now>> /\ Seen' = Seen
    BY DEF Swap, scannerVars, clockVars, Seen, CertAccount
<1> QED
    BY <1>2, <1>3, <1>4 DEF V!LpSupplyMoves, V!programVars, SeenSupply, Seen, vaultVars

LEMMA TickSeen ==
    ASSUME SystemInv, Tick, UNCHANGED vaultVars
    PROVE  V!Tick
<1>1. slot \in Nat /\ now \in Nat /\ MaxSlot \in Nat /\ SlotSeconds \in Nat
    BY ClockAssumption, SlotSecondsBound DEF SystemInv, ScannerInv, TypeOK
<1>2. slot <= MaxSlot
    BY <1>1 DEF Tick
<1>3. slot * SlotSeconds \in Nat /\ MaxSlot * SlotSeconds \in Nat
      /\ slot * SlotSeconds <= MaxSlot * SlotSeconds
    BY <1>1, <1>2, TimesMonotone
<1>4. now <= 1 + slot * SlotSeconds
    BY DEF SystemInv, ClockInv
<1>5. now < 2 + MaxSlot * SlotSeconds
    BY <1>1, <1>3, <1>4
<1>6. UNCHANGED <<cert, market>> /\ Seen' = Seen /\ SeenSupply' = SeenSupply
    BY DEF Tick, scannerVars, worldVars, Seen, CertAccount, SeenSupply
<1>7. \E d \in TickSeconds : now' = now + d
    BY DEF Tick
<1> QED
    BY <1>5, <1>6, <1>7 DEF V!Tick, V!programVars, Seen, SeenSupply, vaultVars

LEMMA NextSeen == SystemInv /\ [SystemNext]_systemVars => [V!Next]_(V!vars)
<1> SUFFICES ASSUME SystemInv, [SystemNext]_systemVars PROVE V!Next \/ UNCHANGED V!vars
    OBVIOUS
<1>0. TypeOK
    BY DEF SystemInv, ScannerInv
<1>1. CASE ScannerStep
  <2>1. [Next]_vars /\ UNCHANGED vaultVars
      BY <1>1 DEF ScannerStep, Next
  <2>2. UNCHANGED <<market, now>>
      BY <1>1 DEF ScannerStep, ScannerNext, Initialize, UpdateProtocolConfig,
                  EmergencyPause, RecordBaseline, RecordLaunchPrice, Evaluate,
                  EvaluatePoolPhase1, EvaluatePoolPhase2, InvalidateAnchor,
                  SweepStaleAnchor, worldVars, clockVars
  <2>3. CASE UNCHANGED cert
      BY <2>1, <2>2, <2>3, UnseenStep DEF SeenSupply
  <2>4. ASSUME NEW p \in Pools, NEW a \in attestations, NEW supplied \in SUBSET Locks,
               EvaluatePoolPhase2(p, a, supplied)
        PROVE  V!Next
      BY <2>1, <2>4, IssueSeen DEF V!Next, V!EnvNext
  <2>5. ASSUME NEW p \in Pools, InvalidateAnchor(p) \/ SweepStaleAnchor(p)
        PROVE  UNCHANGED cert
      BY <2>5 DEF InvalidateAnchor, SweepStaleAnchor
  <2> QED
      BY <1>0, <2>1, <2>3, <2>4, <2>5, AnchorCases
<1>2. ASSUME NEW p \in Pools, NEW s \in Submissions, NEW a \in AmmOutcomes,
             SalvageStep(p, s, a)
      PROVE  V!Next
    BY <1>2 DEF SalvageStep, V!Next, V!ProgramNext, V!Salvage
<1>3. CASE VaultStep
    BY <1>3 DEF VaultStep, V!Next, V!ProgramNext
<1>4. CASE WorldStep
  <2>1. UNCHANGED vaultVars
      BY <1>4 DEF WorldStep
  <2>2. CASE Tick
      BY <2>1, <2>2, TickSeen DEF V!Next, V!EnvNext
  <2>3. ASSUME NEW p \in Pools, Swap(p) PROVE V!Next
      BY <1>0, <2>1, <2>3, SwapSeen DEF V!Next, V!EnvNext
  <2>4. CASE \/ \E p \in Pools, k \in Locks, n \in LockAmounts : SetLock(p, k, n)
             \/ \E p \in Pools, o \in Oracles : OracleSigns(p, o)
    <3>1. UNCHANGED <<cert, market, now>>
        BY <2>4 DEF SetLock, OracleSigns, scannerVars, clockVars
    <3> QED
        BY <2>1, <3>1, UnseenStep DEF SeenSupply
  <2> QED
      BY <1>4, <2>2, <2>3, <2>4 DEF WorldStep, WorldNext
<1>5. CASE UNCHANGED systemVars
  <2>1. UNCHANGED <<vaultVars, cert, market, now>>
      BY <1>5 DEF systemVars, vars, scannerVars, worldVars, clockVars
  <2> QED
      BY <2>1, UnseenStep DEF SeenSupply
<1> QED
    BY <1>1, <1>2, <1>3, <1>4, <1>5 DEF SystemNext

(***************************************************************************)
(* The composition implements the vault's specification: everything proved *)
(* of the vault alone, against any certs and any LP supplies, holds of it  *)
(* on a chain with the scanner and live pools.                             *)
(***************************************************************************)
THEOREM SystemImplementsVault == SystemSpec => ImplementsVault
<1>1. SystemInit => V!Init
    BY DEF SystemInit
<1> QED
    BY <1>1, InitSystemInv, NextSystemInv, NextSeen, PTL
       DEF SystemSpec, ImplementsVault, V!Spec
=============================================================================
