----------------------------- MODULE GraveYield -----------------------------
(***************************************************************************)
(* Both programs on one chain.  They share three things: the clock, the    *)
(* EligibilityCert accounts that the scanner writes and the vault reads,   *)
(* and the pool itself, whose LP mint and reserves both programs look at   *)
(* and a salvage takes liquidity from.  There is no call between them:     *)
(* nothing tells the vault that a pool came back to life, that its anchor  *)
(* was invalidated or that the scanner was paused.                         *)
(***************************************************************************)
EXTENDS GraveScanner

CONSTANTS
    Holders, Mints, WSOL, PoolAccount, Submissions, AmmOutcomes, RouteOutcomes,
    VaultInitParams, VaultConfigUpdates, GiftAmounts,
    RENT, ATA_RENT, U64_MAX,
    CERT_TTL        \* the longest cert_ttl_seconds the scanner is configured with

VARIABLES
    config, registry, receipt, claimRecord, lpVault, solHolding, treasury,
    wsolAta, memeAta, treasuryMeme, gifts, audit,
    certBasis,      \* history: what the pool's cert was issued on, or None
    invalidatedAt   \* history: when the authority last invalidated an anchor

vaultVars == <<config, registry, receipt, claimRecord, lpVault, solHolding,
               treasury, wsolAta, memeAta, treasuryMeme, gifts, audit>>
historyVars == <<certBasis, invalidatedAt>>
systemVars == <<vars, vaultVars, historyVars>>

\* The two fields of the scanner's account that the vault reads.
CertAccount(p) ==
    IF cert[p] = None THEN None
    ELSE [criteria_bitmap |-> cert[p].criteria_bitmap,
          expires_at |-> cert[p].expires_at]

\* The longest a slot takes.
SlotSeconds == Max(TickSeconds)

(***************************************************************************)
(* What the vault's specification leaves open about its environment is     *)
(* what the scanner, the pools and the clock make of it here; its own      *)
(* bound on time lies beyond what MaxSlot slots can reach.                 *)
(***************************************************************************)
V == INSTANCE GraveVault WITH
    cert <- [p \in Pools |-> CertAccount(p)],
    lpSupply <- [p \in Pools |-> market[p].lp_supply],
    InitParams <- VaultInitParams,
    ConfigUpdates <- VaultConfigUpdates,
    LpSupplies <- {m.lp_supply : m \in Markets},
    CertTtls <- MIN_CERT_TTL_SECONDS .. CERT_TTL,
    MaxTime <- 2 + MaxSlot * SlotSeconds

ASSUME VaultAssumption ==
    /\ V!NoneAssumption
    /\ V!ParameterAssumption
    /\ V!SnapshotAssumption
    /\ V!BoundAssumption
    /\ V!EscrowAssumption

\* Nothing in the code bounds the TTL from above: CERT_TTL is what governance keeps to.
ASSUME TtlAssumption ==
    /\ CERT_TTL \in Nat
    /\ \A c \in LegacyConfigs : c.cert_ttl_seconds <= CERT_TTL
    /\ \A i \in InitParams : InitialConfig(i).cert_ttl_seconds <= CERT_TTL
    /\ \A u \in ConfigUpdates :
          u.cert_ttl_seconds # None => u.cert_ttl_seconds <= CERT_TTL

ASSUME SlotAssumption == TickSeconds # {} /\ IsFiniteSet(TickSeconds)

-----------------------------------------------------------------------------
SystemInit ==
    /\ Init
    /\ certBasis = [p \in Pools |-> None]
    /\ invalidatedAt = [p \in Pools |-> None]
    /\ V!Init

\* A scanner instruction, with the histories it leaves.
ScannerStep ==
    /\ ScannerNext
    /\ certBasis' = [p \in Pools |->
           IF cert'[p] = cert[p] THEN certBasis[p]
           ELSE [honest |-> scfg.activity_oracle \in HonestOracles,
                 inactivity_seconds |-> scfg.inactivity_seconds]]
    /\ invalidatedAt' = [p \in Pools |->
           IF lastInvalidated'[p] = lastInvalidated[p]
               THEN invalidatedAt[p] ELSE now]
    /\ UNCHANGED vaultVars

\* A salvage also takes the salvor's liquidity out of the pool.
SalvageStep(p, s, a) ==
    /\ market' = [market EXCEPT ![p] =
           [base_reserve |-> V!MemecoinReserve(p, a),
            quote_reserve |-> V!WsolReserve(p, a),
            lp_supply |-> @.lp_supply - s.salvor_lp_amount]]
    /\ UNCHANGED <<scannerVars, attestations, lastSwap, lock, swaps,
                   lastSwapSlot, clockVars, historyVars>>
    /\ V!SalvagePool(p, s, a)

VaultStep ==
    /\ UNCHANGED <<vars, historyVars>>
    /\ \/ \E i \in VaultInitParams : V!Initialize(i)
       \/ \E u \in VaultConfigUpdates : V!UpdateProtocolConfig(u)
       \/ \E b \in BOOLEAN : V!EmergencyPause(b)
       \/ \E p \in Pools, h \in Holders : V!Claim(p, h)
       \/ \E p \in Pools : V!SweepDust(p)
       \/ V!GiftNext

WorldStep == (WorldNext \/ Tick) /\ UNCHANGED <<vaultVars, historyVars>>

SystemNext ==
    \/ ScannerStep
    \/ \E p \in Pools, s \in Submissions, a \in AmmOutcomes : SalvageStep(p, s, a)
    \/ VaultStep
    \/ WorldStep

SystemSpec == SystemInit /\ [][SystemNext]_systemVars

-----------------------------------------------------------------------------
(***************************************************************************)
(* The scanner keeps what the vault relies on: seen through the accounts   *)
(* it reads, every step of the system is one the vault's own specification *)
(* allows - certs appear with the full mask, live at most CERT_TTL seconds *)
(* and are never replaced while they are still good.                       *)
(***************************************************************************)
ImplementsVault == V!Spec

SalvagedNow(p) == registry[p] = None /\ registry'[p] # None

(***************************************************************************)
(* How stale the evidence behind a salvage can be.  The vault checks a     *)
(* cert, not the pool, so a pool that trades again may still be salvaged;  *)
(* but with an honest oracle only if it was inactive for as long as the    *)
(* scanner demanded when it issued the cert, or if its last swap is        *)
(* younger than the cert's lifetime plus the SlotHashes window.            *)
(***************************************************************************)
SalvageEvidenceStep ==
    \A p \in Pools : SalvagedNow(p) /\ certBasis[p].honest =>
        \/ now - lastSwap[p] >= certBasis[p].inactivity_seconds
        \/ now - lastSwap[p] < CERT_TTL + SLOT_HASHES * SlotSeconds

SalvageFreshlyEvidenced == [][SalvageEvidenceStep]_systemVars

(***************************************************************************)
(* Revocation takes effect.  Invalidating an anchor does not touch a cert  *)
(* that was already issued, so the pool may still be salvaged - but for    *)
(* less than one cert lifetime; after that only a cert from an anchor      *)
(* observed anew, beyond the invalidated one's window, opens it again.     *)
(***************************************************************************)
RevocationStep ==
    \A p \in Pools : SalvagedNow(p) /\ invalidatedAt[p] # None =>
        \/ now < invalidatedAt[p] + CERT_TTL
        \/ cert[p].anchor_epoch > lastInvalidated[p] + MIN_EPOCH_CONFIRMATION + 1

RevocationTakesEffect == [][RevocationStep]_systemVars
=============================================================================
