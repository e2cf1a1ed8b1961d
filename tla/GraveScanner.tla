---------------------------- MODULE GraveScanner ----------------------------
(***************************************************************************)
(* The certification program (programs/grave-scanner).  A pool is found    *)
(* derelict twice: Phase 1 writes an anchor with the epoch in which all    *)
(* six criteria held, Phase 2 re-evaluates at least MIN_EPOCH_CONFIRMATION *)
(* epochs later and issues a short-lived certificate, the only thing the   *)
(* vault trusts.  Anchors can be invalidated by the authority and, once    *)
(* stale, swept by anybody.                                                *)
(*                                                                         *)
(* Every instruction is one all-or-nothing transaction.  Signatures are    *)
(* modelled by who signed, slot hashes by the slots the SlotHashes sysvar  *)
(* still lists.                                                            *)
(***************************************************************************)
EXTENDS Integers, FiniteSetsExt

CONSTANTS
    None,                 \* an absent account, an absent Option value
    Pools,
    Locks,                \* UNCX TokenLock ids a pool may have
    LockAmounts,          \* LP amounts a lock may hold
    Oracles,              \* attestation keys
    HonestOracles,        \* those that sign what they saw
    ForgedTimestamps,     \* what the others claim was the last swap
    Pairs,                \* (base mint, quote mint) pairs
    PoolPair,             \* [Pools -> Pairs], from the pool's bytes
    Markets,              \* reserves and LP supplies a pool may have
    LaunchPrices,         \* Q64.64 launch prices that may be attested
    PRICE_ONE,            \* the Q64.64 scale, 2^64 in the code
    ConfigUpdates,        \* UpdateProtocolConfigParams the authority may submit
    InitParams,           \* InitializeParams a deployer may submit
    LegacyConfigs,        \* accounts a program upgrade may find in place
    MIN_EPOCH_CONFIRMATION,
    APPROX_EPOCH_DURATION_SECONDS,
    MIN_CERT_TTL_SECONDS,
    SLOTS_PER_EPOCH,
    SLOT_HASHES,          \* slots the SlotHashes sysvar remembers
    TickSeconds,          \* seconds the clock may advance in one slot
    MaxSlot,              \* bound on time
    MaxSwaps,             \* bound on swaps and market moves per pool
    MaxAttestations       \* bound on signed attestations

VARIABLES
    scfg,                 \* the scanner's ProtocolConfig, or None
    anchor,               \* [Pools -> EligibilityAnchor or None]
    cert,                 \* [Pools -> EligibilityCert or None]
    launchPrice,          \* [Pools -> LaunchPrice or None]
    attestations,         \* signed C1 messages in circulation
    lastSwap,             \* unix timestamp of each pool's real last swap
    market,               \* [Pools -> Markets]
    lock,                 \* [Pools -> [Locks -> amount or None]]
    slot,                 \* Clock slot
    now,                  \* Clock unix_timestamp
    swaps,                \* history: swaps so far
    lastSwapSlot,         \* history: slot of the last swap
    anchoredUnder,        \* history: thresholds in force at Phase 1
    lastInvalidated       \* history: epoch stamp of the last invalidated anchor

scannerVars == <<scfg, anchor, cert, launchPrice, anchoredUnder, lastInvalidated>>
worldVars == <<attestations, lastSwap, market, lock, swaps, lastSwapSlot>>
clockVars == <<slot, now>>
vars == <<scannerVars, worldVars, clockVars>>

ALL_CRITERIA_MASK == 63     \* six criteria, 0x3F
BPS == 10000
DEFAULT_INACTIVITY_SECONDS == 90 * 24 * 60 * 60
DEFAULT_PRICE_COLLAPSE_BPS == 9900
DEFAULT_MIN_TVL_LAMPORTS == 500000000
DEFAULT_LP_BURN_DUST_THRESHOLD == 1000
DEFAULT_ANCHOR_STALENESS_SECONDS == 14 * 24 * 60 * 60
DEFAULT_CERT_TTL_SECONDS == 60 * 60
MIN_ANCHOR_STALENESS_SECONDS ==
    (MIN_EPOCH_CONFIRMATION + 1) * APPROX_EPOCH_DURATION_SECONDS

Epoch == slot \div SLOTS_PER_EPOCH

(***************************************************************************)
(* Account and message shapes.                                             *)
(***************************************************************************)
ProtocolConfig ==
    [inactivity_seconds : Nat, price_collapse_bps : Nat, min_tvl_lamports : Nat,
     lp_burn_dust_threshold : Nat, anchor_staleness_seconds : Nat,
     cert_ttl_seconds : Nat, activity_oracle : Oracles,
     launch_price_oracle : Oracles, paused : BOOLEAN]

CriteriaThresholds ==
    [inactivity_seconds : Nat, price_collapse_bps : Nat,
     min_tvl_lamports : Nat, lp_burn_dust_threshold : Nat]

UpdateProtocolConfigParams ==
    [inactivity_seconds : Nat \cup {None}, price_collapse_bps : Nat \cup {None},
     min_tvl_lamports : Nat \cup {None}, lp_burn_dust_threshold : Nat \cup {None},
     anchor_staleness_seconds : Nat \cup {None}, cert_ttl_seconds : Nat \cup {None},
     activity_oracle : Oracles \cup {None},
     launch_price_oracle : Oracles \cup {None}]

EligibilityAnchor ==
    [first_eligible_epoch : Nat, invalidated : BOOLEAN, criteria_bitmap : Nat]

EligibilityCert ==
    [anchor_epoch : Nat, cert_epoch : Nat, issued_at : Nat, expires_at : Nat,
     criteria_bitmap : Nat, reissue_generation : Nat]

LaunchPrice == [pair : Pairs, launch_price_q64x64 : Nat]

Attestation == [pool : Pools, last_swap_unix_ts : Nat, issued_slot : Nat,
                oracle : Oracles]

PoolData == [base_reserve : Nat, quote_reserve : Nat, lp_supply : Nat]

InitializeParams ==
    [inactivity_seconds : Nat, price_collapse_bps : Nat, min_tvl_lamports : Nat,
     lp_burn_dust_threshold : Nat, anchor_staleness_seconds : Nat,
     cert_ttl_seconds : Nat, authority : Oracles]

ASSUME NoneAssumption ==
    /\ None \notin Nat
    /\ None \notin ProtocolConfig
    /\ None \notin CriteriaThresholds
    /\ None \notin Oracles
    /\ None \notin EligibilityAnchor
    /\ None \notin EligibilityCert
    /\ None \notin LaunchPrice

ASSUME ParameterAssumption ==
    /\ LockAmounts \subseteq Nat
    /\ HonestOracles \subseteq Oracles
    /\ ForgedTimestamps \subseteq Nat
    /\ PoolPair \in [Pools -> Pairs]
    /\ Markets \subseteq PoolData
    /\ LaunchPrices \subseteq Nat
    /\ PRICE_ONE \in Nat
    /\ ConfigUpdates \subseteq UpdateProtocolConfigParams
    /\ InitParams \subseteq InitializeParams
    /\ LegacyConfigs \subseteq ProtocolConfig
    /\ TickSeconds \subseteq Nat

\* The TTL floor is as old as the field it bounds, the staleness floor is not.
ASSUME LegacyAssumption ==
    \A c \in LegacyConfigs : c.cert_ttl_seconds >= MIN_CERT_TTL_SECONDS

ASSUME ClockAssumption ==
    /\ MIN_EPOCH_CONFIRMATION \in Nat
    /\ APPROX_EPOCH_DURATION_SECONDS \in Nat \ {0}
    /\ MIN_CERT_TTL_SECONDS \in Nat \ {0}
    /\ SLOTS_PER_EPOCH \in Nat \ {0}
    /\ SLOT_HASHES \in Nat
    /\ MaxSlot \in Nat
    /\ MaxSwaps \in Nat
    /\ MaxAttestations \in Nat

-----------------------------------------------------------------------------
(***************************************************************************)
(* initialize, update_protocol_config, emergency_pause: signed by the      *)
(* authority.  LegacyConfigs are accounts written before the staleness     *)
(* floor existed; an upgrade finds them as they are.                       *)
(***************************************************************************)
Init ==
    /\ scfg \in LegacyConfigs \cup {None}
    /\ anchor = [p \in Pools |-> None]
    /\ cert = [p \in Pools |-> None]
    /\ launchPrice = [p \in Pools |-> None]
    /\ attestations = {}
    /\ lastSwap = [p \in Pools |-> 1]
    /\ market \in [Pools -> Markets]
    /\ lock = [p \in Pools |-> [k \in Locks |-> None]]
    /\ slot = 1
    /\ now = 1
    /\ swaps = [p \in Pools |-> 0]
    /\ lastSwapSlot = [p \in Pools |-> 0]
    /\ anchoredUnder = [p \in Pools |-> None]
    /\ lastInvalidated = [p \in Pools |-> None]

ZeroMeansDefault(v, default) == IF v = 0 THEN default ELSE v

\* Both oracle keys start out as the authority.
InitialConfig(i) ==
    [inactivity_seconds |->
        ZeroMeansDefault(i.inactivity_seconds, DEFAULT_INACTIVITY_SECONDS),
     price_collapse_bps |->
        ZeroMeansDefault(i.price_collapse_bps, DEFAULT_PRICE_COLLAPSE_BPS),
     min_tvl_lamports |->
        ZeroMeansDefault(i.min_tvl_lamports, DEFAULT_MIN_TVL_LAMPORTS),
     lp_burn_dust_threshold |->
        ZeroMeansDefault(i.lp_burn_dust_threshold, DEFAULT_LP_BURN_DUST_THRESHOLD),
     anchor_staleness_seconds |->
        ZeroMeansDefault(i.anchor_staleness_seconds,
                         DEFAULT_ANCHOR_STALENESS_SECONDS),
     cert_ttl_seconds |->
        ZeroMeansDefault(i.cert_ttl_seconds, DEFAULT_CERT_TTL_SECONDS),
     activity_oracle |-> i.authority,
     launch_price_oracle |-> i.authority,
     paused |-> FALSE]

Initialize(i) ==
    /\ scfg = None
    /\ i.anchor_staleness_seconds # 0 =>
           i.anchor_staleness_seconds >= MIN_ANCHOR_STALENESS_SECONDS
    /\ InitialConfig(i).cert_ttl_seconds >= MIN_CERT_TTL_SECONDS
    /\ scfg' = InitialConfig(i)
    /\ UNCHANGED <<anchor, cert, launchPrice, anchoredUnder, lastInvalidated,
                   worldVars, clockVars>>

\* Mutant: an absent option overwrites the field.
GivenOverwrites(option, old) == option

Given(option, old) == IF option = None THEN old ELSE option

AtLeast(option, floor) == option # None => option >= floor

UpdatedConfig(u) ==
    [scfg EXCEPT
        !.inactivity_seconds = Given(u.inactivity_seconds, @),
        !.price_collapse_bps = Given(u.price_collapse_bps, @),
        !.min_tvl_lamports = Given(u.min_tvl_lamports, @),
        !.anchor_staleness_seconds = Given(u.anchor_staleness_seconds, @),
        !.lp_burn_dust_threshold = Given(u.lp_burn_dust_threshold, @),
        !.cert_ttl_seconds = Given(u.cert_ttl_seconds, @),
        !.activity_oracle = Given(u.activity_oracle, @),
        !.launch_price_oracle = Given(u.launch_price_oracle, @)]

UpdateProtocolConfig(u) ==
    /\ scfg # None
    /\ u.price_collapse_bps # None => u.price_collapse_bps <= BPS
    /\ AtLeast(u.anchor_staleness_seconds, MIN_ANCHOR_STALENESS_SECONDS)
    /\ AtLeast(u.cert_ttl_seconds, MIN_CERT_TTL_SECONDS)
    /\ scfg' = UpdatedConfig(u)
    /\ UNCHANGED <<anchor, cert, launchPrice, anchoredUnder, lastInvalidated,
                   worldVars, clockVars>>

EmergencyPause(paused) ==
    /\ scfg # None
    /\ scfg.paused # paused
    /\ scfg' = [scfg EXCEPT !.paused = paused]
    /\ UNCHANGED <<anchor, cert, launchPrice, anchoredUnder, lastInvalidated,
                   worldVars, clockVars>>

(***************************************************************************)
(* A message counts as signed by a key when the Ed25519 instruction in     *)
(* front of the scanner's verified exactly the bytes in its parameters     *)
(* under that key.                                                         *)
(***************************************************************************)
SignedBy(signer, key) == signer = key

\* Bound to the record by the signature; the first swap only has to be past.
VerifyLaunchPriceAttestation(price, oracle) ==
    /\ SignedBy(oracle, scfg.launch_price_oracle)
    /\ price > 0

(***************************************************************************)
(* record_launch_price: once per pool, signed by the launch-price oracle,  *)
(* with no freshness requirement.                                          *)
(***************************************************************************)
RecordLaunchPrice(p, pair, price, oracle) ==
    /\ scfg # None
    /\ ~scfg.paused
    /\ launchPrice[p] = None
    /\ VerifyLaunchPriceAttestation(price, oracle)
    /\ launchPrice' = [launchPrice EXCEPT ![p] =
           [pair |-> pair, launch_price_q64x64 |-> price]]
    /\ UNCHANGED <<scfg, anchor, cert, anchoredUnder, lastInvalidated,
                   worldVars, clockVars>>

-----------------------------------------------------------------------------
(***************************************************************************)
(* Evidence.                                                               *)
(***************************************************************************)

\* Mutant: any earlier slot counts as recent.
AnyEarlierSlot(s) == s < slot

\* SlotHashes lists the last SLOT_HASHES slots before the current one.
InSlotHashes(s) == s < slot /\ slot - s <= SLOT_HASHES

\* Signature, pool binding, timestamp sanity and slot freshness.
VerifyLastSwapAttestation(p, a) ==
    /\ SignedBy(a.oracle, scfg.activity_oracle)
    /\ a.pool = p
    /\ a.last_swap_unix_ts > 0
    /\ a.last_swap_unix_ts <= now
    /\ a.issued_slot > 0
    /\ InSlotHashes(a.issued_slot)

CurrentPrice(m) == (m.quote_reserve * PRICE_ONE) \div m.base_reserve

ComputeDropBps(launch, current) ==
    IF current >= launch THEN 0 ELSE ((launch - current) * BPS) \div launch

(***************************************************************************)
(* The locker check.  The per-pool marker account exists once any lock has *)
(* been created; if it does, the submitter must supply at least one of the *)
(* pool's locks, and the amounts of the supplied ones are summed.  Which   *)
(* ones are supplied is the submitter's choice.                            *)
(***************************************************************************)
ExistingLocks(p) == {k \in Locks : lock[p][k] # None}

\* Mutant: the marker does not force the submitter to show a lock.
EvidenceOptional(p, supplied) == supplied \subseteq ExistingLocks(p)

EvidenceAccepted(p, supplied) ==
    /\ supplied \subseteq ExistingLocks(p)
    /\ ExistingLocks(p) # {} => supplied # {}

LockedLpAmount(p, supplied) == SumFunctionOnSet(lock[p], supplied)

(***************************************************************************)
(* The six criteria.                                                       *)
(***************************************************************************)
Inactive(lastSwapTs, t) ==
    now >= lastSwapTs /\ now - lastSwapTs >= t.inactivity_seconds

PriceCollapsed(p, t) ==
    /\ launchPrice[p].launch_price_q64x64 > 0
    /\ ComputeDropBps(launchPrice[p].launch_price_q64x64, CurrentPrice(market[p]))
           >= t.price_collapse_bps

TvlRemains(p, t) == market[p].quote_reserve >= t.min_tvl_lamports

LpNotBurned(p, t) == market[p].lp_supply > t.lp_burn_dust_threshold

\* Mutant: one epoch too early.
EpochConfirmedEarly(p) ==
    Epoch - anchor[p].first_eligible_epoch >= MIN_EPOCH_CONFIRMATION - 1

EpochConfirmed(p) ==
    Epoch - anchor[p].first_eligible_epoch >= MIN_EPOCH_CONFIRMATION

\* Criteria 1 to 5 against a set of thresholds.
EvaluateCriteria(p, lastSwapTs, lockedAmount, t) ==
    /\ Inactive(lastSwapTs, t)
    /\ PriceCollapsed(p, t)
    /\ TvlRemains(p, t)
    /\ LpNotBurned(p, t)
    /\ lockedAmount = 0

Thresholds(c) ==
    [inactivity_seconds |-> c.inactivity_seconds,
     price_collapse_bps |-> c.price_collapse_bps,
     min_tvl_lamports |-> c.min_tvl_lamports,
     lp_burn_dust_threshold |-> c.lp_burn_dust_threshold]

\* What both phases demand of an attestation and a locker enumeration.
EvaluationPasses(p, a, supplied) ==
    /\ scfg # None
    /\ ~scfg.paused
    /\ VerifyLastSwapAttestation(p, a)
    /\ market[p].base_reserve > 0
    /\ launchPrice[p] # None
    /\ launchPrice[p].pair = PoolPair[p]
    /\ EvidenceAccepted(p, supplied)
    /\ EvaluateCriteria(p, a.last_swap_unix_ts, LockedLpAmount(p, supplied),
                        Thresholds(scfg))

-----------------------------------------------------------------------------
(***************************************************************************)
(* The two phases and the two ways an anchor ends.                         *)
(***************************************************************************)

EvaluatePoolPhase1(p, a, supplied) ==
    /\ anchor[p] = None                    \* `init` of eligibility_anchor
    /\ EvaluationPasses(p, a, supplied)
    /\ anchor' = [anchor EXCEPT ![p] =
           [first_eligible_epoch |-> Epoch, invalidated |-> FALSE,
            criteria_bitmap |-> ALL_CRITERIA_MASK]]
    /\ anchoredUnder' = [anchoredUnder EXCEPT ![p] = Thresholds(scfg)]
    /\ UNCHANGED <<scfg, cert, launchPrice, lastInvalidated, worldVars, clockVars>>

\* Mutant: an existing cert may be overwritten while it is good.
CertReplaceable(p) == cert[p] # None => now >= cert[p].issued_at

\* A never-written cert has expires_at = 0 and counts as expired.
CertExpired(p) == cert[p] # None => now >= cert[p].expires_at

Generation(p) == IF cert[p] = None THEN 0 ELSE cert[p].reissue_generation

EvaluatePoolPhase2(p, a, supplied) ==
    /\ anchor[p] # None
    /\ ~anchor[p].invalidated
    /\ EvaluationPasses(p, a, supplied)
    /\ EpochConfirmed(p)
    /\ anchor[p].criteria_bitmap = ALL_CRITERIA_MASK
    /\ CertExpired(p)
    /\ cert' = [cert EXCEPT ![p] =
           [anchor_epoch |-> anchor[p].first_eligible_epoch,
            cert_epoch |-> Epoch,
            issued_at |-> now,
            expires_at |-> now + scfg.cert_ttl_seconds,
            criteria_bitmap |-> ALL_CRITERIA_MASK,
            reissue_generation |-> Generation(p) + 1]]
    /\ UNCHANGED <<scfg, anchor, launchPrice, anchoredUnder, lastInvalidated,
                   worldVars, clockVars>>

\* Mutant: invalidation closes the account instead of flagging it.
InvalidateAnchorCloses(p) ==
    /\ anchor[p] # None
    /\ ~anchor[p].invalidated
    /\ anchor' = [anchor EXCEPT ![p] = None]
    /\ lastInvalidated' = [lastInvalidated EXCEPT ![p] =
           anchor[p].first_eligible_epoch]
    /\ UNCHANGED <<scfg, cert, launchPrice, anchoredUnder, worldVars, clockVars>>

InvalidateAnchor(p) ==
    /\ anchor[p] # None
    /\ ~anchor[p].invalidated
    /\ anchor' = [anchor EXCEPT ![p].invalidated = TRUE]
    /\ lastInvalidated' = [lastInvalidated EXCEPT ![p] =
           anchor[p].first_eligible_epoch]
    /\ UNCHANGED <<scfg, cert, launchPrice, anchoredUnder, worldVars, clockVars>>

Greater(a, b) == IF a >= b THEN a ELSE b

\* Mutant: the configured window is used as it is.
StalenessEpochsUnclamped ==
    (scfg.anchor_staleness_seconds + APPROX_EPOCH_DURATION_SECONDS - 1)
        \div APPROX_EPOCH_DURATION_SECONDS

\* ceil(staleness / epoch length), the configured value clamped to its floor.
StalenessEpochs ==
    (Greater(scfg.anchor_staleness_seconds, MIN_ANCHOR_STALENESS_SECONDS)
        + APPROX_EPOCH_DURATION_SECONDS - 1) \div APPROX_EPOCH_DURATION_SECONDS

SweepGate(p) == Epoch > anchor[p].first_eligible_epoch + StalenessEpochs

\* Permissionless, not gated on the pause, indifferent to a live cert.
SweepStaleAnchor(p) ==
    /\ scfg # None
    /\ anchor[p] # None
    /\ SweepGate(p)
    /\ anchor' = [anchor EXCEPT ![p] = None]
    /\ anchoredUnder' = [anchoredUnder EXCEPT ![p] = None]
    /\ UNCHANGED <<scfg, cert, launchPrice, lastInvalidated, worldVars, clockVars>>

-----------------------------------------------------------------------------
(***************************************************************************)
(* The world: time, trading, locks, and oracles signing what they see (or, *)
(* the dishonest ones, what they like).                                    *)
(***************************************************************************)

Tick ==
    /\ slot < MaxSlot
    /\ slot' = slot + 1
    /\ \E d \in TickSeconds : now' = now + d
    /\ UNCHANGED <<scannerVars, worldVars>>

Swap(p) ==
    /\ swaps[p] < MaxSwaps
    /\ \E m \in Markets : market' = [market EXCEPT ![p] = m]
    /\ swaps' = [swaps EXCEPT ![p] = @ + 1]
    /\ lastSwap' = [lastSwap EXCEPT ![p] = now]
    /\ lastSwapSlot' = [lastSwapSlot EXCEPT ![p] = slot]
    /\ UNCHANGED <<scannerVars, attestations, lock, clockVars>>

SetLock(p, k, amount) ==
    /\ amount # lock[p][k]
    /\ lock' = [lock EXCEPT ![p][k] = amount]
    /\ UNCHANGED <<scannerVars, attestations, lastSwap, market, swaps,
                   lastSwapSlot, clockVars>>

OracleSigns(p, o) ==
    /\ Cardinality(attestations) < MaxAttestations
    /\ \E ts \in IF o \in HonestOracles THEN {lastSwap[p]} ELSE ForgedTimestamps :
           attestations' = attestations \cup
               {[pool |-> p, last_swap_unix_ts |-> ts, issued_slot |-> slot,
                 oracle |-> o]}
    /\ UNCHANGED <<scannerVars, lastSwap, market, lock, swaps, lastSwapSlot,
                   clockVars>>

-----------------------------------------------------------------------------
Evaluate ==
    \E p \in Pools, a \in attestations, supplied \in SUBSET Locks :
        EvaluatePoolPhase1(p, a, supplied) \/ EvaluatePoolPhase2(p, a, supplied)

RecordBaseline ==
    \E p \in Pools, pair \in Pairs, price \in LaunchPrices, o \in Oracles :
        RecordLaunchPrice(p, pair, price, o)

ScannerNext ==
    \/ \E i \in InitParams : Initialize(i)
    \/ \E u \in ConfigUpdates : UpdateProtocolConfig(u)
    \/ \E b \in BOOLEAN : EmergencyPause(b)
    \/ RecordBaseline
    \/ Evaluate
    \/ \E p \in Pools : InvalidateAnchor(p)
    \/ \E p \in Pools : SweepStaleAnchor(p)

WorldNext ==
    \/ \E p \in Pools : Swap(p)
    \/ \E p \in Pools, k \in Locks, n \in LockAmounts : SetLock(p, k, n)
    \/ \E p \in Pools, o \in Oracles : OracleSigns(p, o)

Next == ScannerNext \/ WorldNext \/ Tick

Spec == Init /\ [][Next]_vars

-----------------------------------------------------------------------------
(***************************************************************************)
(* Properties.                                                             *)
(***************************************************************************)

\* Type correctness of the program's accounts and of the world around them.
TypeOK ==
    /\ scfg \in ProtocolConfig \cup {None}
    /\ anchor \in [Pools -> EligibilityAnchor \cup {None}]
    /\ cert \in [Pools -> EligibilityCert \cup {None}]
    /\ launchPrice \in [Pools -> LaunchPrice \cup {None}]
    /\ attestations \subseteq Attestation
    /\ lastSwap \in [Pools -> Nat]
    /\ market \in [Pools -> PoolData]
    /\ lock \in [Pools -> [Locks -> Nat \cup {None}]]
    /\ slot \in Nat
    /\ now \in Nat
    /\ swaps \in [Pools -> Nat]
    /\ lastSwapSlot \in [Pools -> Nat]
    /\ anchoredUnder \in [Pools -> CriteriaThresholds \cup {None}]
    /\ lastInvalidated \in [Pools -> Nat \cup {None}]

(***************************************************************************)
(* An anchor's epoch clock is never reset: while it exists a step can only *)
(* invalidate it, once and for all, or sweep it - and a sweep leaves Phase *)
(* 2 more than one full epoch of open window, even under a configuration   *)
(* from before the staleness floor existed.                                *)
(***************************************************************************)
AnchorStep ==
    \A p \in Pools : anchor[p] # None =>
        \/ anchor'[p] = anchor[p]
        \/ /\ ~anchor[p].invalidated
           /\ anchor'[p] = [anchor[p] EXCEPT !.invalidated = TRUE]
        \/ /\ anchor'[p] = None
           /\ Epoch > anchor[p].first_eligible_epoch + MIN_EPOCH_CONFIRMATION + 1

AnchorLifecycle == [][AnchorStep]_vars

(***************************************************************************)
(* A certificate appears or is replaced only by a confirmed re-evaluation: *)
(* the pool's live, uninvalidated anchor is at least                       *)
(* MIN_EPOCH_CONFIRMATION epochs old, the previous cert is no longer       *)
(* usable, the new one is usable for at least the TTL floor and counts one *)
(* generation more.  Nothing ever deletes a cert.                          *)
(***************************************************************************)
CertStep ==
    \A p \in Pools : cert'[p] # cert[p] =>
        /\ CertExpired(p)
        /\ anchor[p] # None
        /\ ~anchor[p].invalidated
        /\ cert'[p] # None
        /\ cert'[p].anchor_epoch = anchor[p].first_eligible_epoch
        /\ Epoch >= anchor[p].first_eligible_epoch + MIN_EPOCH_CONFIRMATION
        /\ cert'[p].expires_at >= now + MIN_CERT_TTL_SECONDS
        /\ cert'[p].reissue_generation = Generation(p) + 1

CertIssueSound == [][CertStep]_vars

(***************************************************************************)
(* Invalidation sticks.  After the authority has invalidated an anchor the *)
(* pool can only be certified from a new Phase 1 observation, made after   *)
(* the invalidated anchor's sweep window: sweeping an invalidated anchor   *)
(* early, or re-anchoring in its place, cannot be used to shake off the    *)
(* invalidation.                                                           *)
(***************************************************************************)
ReobservedStep ==
    \A p \in Pools :
        cert'[p] # cert[p] /\ lastInvalidated[p] # None =>
            cert'[p].anchor_epoch > lastInvalidated[p] + MIN_EPOCH_CONFIRMATION + 1

InvalidationForcesReobservation == [][ReobservedStep]_vars

(***************************************************************************)
(* Why invalidation sticks, as a state invariant: an invalidated anchor    *)
(* carries the stamp that was invalidated; a live one, and the epoch in    *)
(* which a missing one could be re-created, lie beyond the sweep window of *)
(* the last invalidated one.                                               *)
(***************************************************************************)
InvalidationRememberedFor(p) ==
    /\ anchor[p] # None =>
          IF anchor[p].invalidated
          THEN lastInvalidated[p] = anchor[p].first_eligible_epoch
          ELSE lastInvalidated[p] # None =>
                   anchor[p].first_eligible_epoch
                       > lastInvalidated[p] + MIN_EPOCH_CONFIRMATION + 1
    /\ anchor[p] = None /\ lastInvalidated[p] # None =>
          Epoch > lastInvalidated[p] + MIN_EPOCH_CONFIRMATION + 1

InvalidationRemembered == \A p \in Pools : InvalidationRememberedFor(p)

(***************************************************************************)
(* With an honest activity oracle a cert is never issued on outdated       *)
(* evidence: the pool has really been inactive for inactivity_seconds,     *)
(* except for a swap younger than the SlotHashes window.  In particular    *)
(* the attestation of Phase 1 cannot be replayed in Phase 2, and one       *)
(* signed by a key that is not configured counts for nothing.              *)
(***************************************************************************)
FreshStep ==
    \A p \in Pools :
        cert'[p] # cert[p] /\ scfg.activity_oracle \in HonestOracles =>
            \/ now - lastSwap[p] >= scfg.inactivity_seconds
            \/ slot - lastSwapSlot[p] <= SLOT_HASHES

CertFreshlyEvidenced == [][FreshStep]_vars

(***************************************************************************)
(* A pool whose only lock still holds LP is not certified, whenever the    *)
(* lock was created: the marker forces the submitter to show it.           *)
(***************************************************************************)
LoneLockStep ==
    \A p \in Pools, k \in Locks :
        ExistingLocks(p) = {k} /\ lock[p][k] > 0 => cert'[p] = cert[p]

LoneLockBlocksCert == [][LoneLockStep]_vars

-----------------------------------------------------------------------------
(***************************************************************************)
(* What the documentation says and the code does not do.                   *)
(***************************************************************************)

(***************************************************************************)
(* eligibility_anchor.rs and eligibility-anchors.md: bitmap equality pins  *)
(* the definition of derelict across the two-phase gap.  The evidence that *)
(* certifies a pool would also have satisfied the thresholds under which   *)
(* it was anchored.                                                        *)
(***************************************************************************)
DefinitionPinnedAcrossPhases ==
    [][\A p \in Pools : cert'[p] # cert[p] =>
          \E a \in attestations, supplied \in SUBSET Locks :
              /\ VerifyLastSwapAttestation(p, a)
              /\ EvidenceAccepted(p, supplied)
              /\ EvaluateCriteria(p, a.last_swap_unix_ts,
                                  LockedLpAmount(p, supplied), anchoredUnder[p])
      ]_vars
=============================================================================
