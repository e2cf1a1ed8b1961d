----------------------------- MODULE GraveVault -----------------------------
(***************************************************************************)
(* The settlement program (programs/grave-vault).  A salvor who holds LP   *)
(* of a certified pool burns it, the vault converts the proceeds to SOL,   *)
(* splits them between salvor, original LP holders and protocol, seals the *)
(* LP-holder snapshot, and the holders then claim their pro-rata share.    *)
(*                                                                         *)
(* Every instruction is one transaction of the runtime: it either takes    *)
(* effect as a whole or leaves no trace, so a handler is one action whose  *)
(* guard is the conjunction of its require!s.  Accounts that the handlers  *)
(* create are functions into a record or None (no such account).           *)
(*                                                                         *)
(* A Merkle root is modelled by the set of leaves it commits to, and proof *)
(* verification by membership: SHA-256 is taken to be collision free.      *)
(***************************************************************************)
EXTENDS SettlementMath, FiniteSetsExt

CONSTANTS
    None,           \* an absent account, an absent Option value
    Pools,
    Holders,
    Mints,          \* memecoin, LP and quote mints
    WSOL,           \* the wrapped SOL mint
    PoolAccount,    \* [Pools -> AmmAccount], the bytes of the pool account
    Submissions,    \* the SalvagePoolParams a salvor may submit
    AmmOutcomes,    \* what the AMM's withdraw may pay and leave behind
    RouteOutcomes,  \* what the Jupiter route may pay and spend
    InitParams,     \* the InitializeParams a deployer may submit
    ConfigUpdates,  \* the UpdateProtocolConfigParams the authority may submit
    LpSupplies,     \* supplies an LP mint may have
    GiftAmounts,    \* what a third party may send to a vault address
    RENT,           \* rent-exempt minimum of a zero-data system account
    ATA_RENT,       \* rent of a token account
    U64_MAX,        \* largest u64
    CertTtls,       \* cert_ttl_seconds the scanner may be configured with
    TickSeconds,    \* seconds the clock may advance at once
    MaxTime         \* bound on the clock

VARIABLES
    config,         \* ProtocolConfig, or None before initialize
    registry,       \* [Pools -> PoolRegistry or None]
    receipt,        \* [Pools -> SalvageReceipt or None]
    claimRecord,    \* [Pools -> [Holders -> ClaimRecord or None]]
    lpVault,        \* lamports of each pool's lp_holder_pool_vault
    solHolding,     \* lamports of each pool's vault_sol_holding_account
    treasury,       \* lamports of the protocol_treasury
    wsolAta,        \* WSOL in the vault's (singleton) base token account
    memeAta,        \* memecoin in the vault's token account of each mint
    treasuryMeme,   \* memecoin in the treasury's token account of each mint
    lpSupply,       \* supply of each pool's LP mint
    cert,           \* GraveScanner's EligibilityCert of each pool, or None
    now,            \* Clock::get()?.unix_timestamp
    gifts,          \* history: lamports third parties sent to a pool's PDAs
    audit           \* history: what each salvage saw, or None

programVars == <<config, registry, receipt, claimRecord, lpVault, solHolding,
                 treasury, wsolAta, memeAta, treasuryMeme, audit>>
envVars == <<lpSupply, cert, now, gifts>>
vars == <<programVars, envVars>>

ALL_CRITERIA_MASK == 63

(***************************************************************************)
(* Account and parameter shapes.                                           *)
(***************************************************************************)

AMM_PROGRAMS == {"raydium_v4", "raydium_clmm", "orca_whirlpool", "pump_swap"}

AmmAccount == [owner : AMM_PROGRAMS, coin_mint : Mints, pc_mint : Mints]

ProtocolConfig ==
    [lp_holder_share_bps : Nat, salvor_share_bps : Nat,
     protocol_share_bps : Nat, max_slippage_bps : Nat,
     jupiter_dust_threshold_lamports : Nat, emergency_paused : BOOLEAN]

Snapshot == SUBSET (Holders \X Nat)

PoolRegistry ==
    [lp_snapshot_merkle_root : Snapshot,
     lp_total_supply_at_snapshot : Nat,
     lp_holder_pool_total_lamports : Nat,
     lp_holder_pool_claimed_lamports : Nat]

SalvageReceipt ==
    [lp_holder_amount_lamports : Nat, salvor_amount_lamports : Nat,
     protocol_amount_lamports : Nat, total_proceeds_lamports : Nat,
     memecoin_mint : Mints, dust_memecoin_lamports : Nat,
     dust_swept_at_ts : Nat]

ClaimRecord == [amount_lamports : Nat, lp_balance_at_snapshot : Nat]

EligibilityCert == [criteria_bitmap : Nat, expires_at : Nat]

\* Roles an account of the submitted Jupiter route may turn out to play.
FORBIDDEN ==
    {"pool_registry", "salvage_receipt", "lp_holder_pool_vault",
     "protocol_treasury", "vault_sol_holding_account", "protocol_config",
     "eligibility_cert", "salvor", "salvor_lp_token_account"}
RouteRoles == FORBIDDEN \cup {"vault_base_token_account", "venue"}

SalvagePoolParams ==
    [memecoin_mint : Mints,
     lp_snapshot_merkle_root : Snapshot,
     lp_total_supply_at_snapshot : Nat,
     salvor_lp_amount : Nat,
     min_quote_output_lamports : Nat,
     max_slippage_bps_override : Nat \cup {None},
     route_accounts : SUBSET RouteRoles,
     route_data_empty : BOOLEAN]

\* What a withdraw pays out on each side and what it leaves in the reserves.
AmmOutcome == [coin : Nat, pc : Nat, coin_vault : Nat, pc_vault : Nat]

\* WSOL a route delivers, memecoin it takes.
RouteOutcome == [out : Nat, spent : Nat]

ShareOptions == Nat \cup {None}
UpdateProtocolConfigParams ==
    [lp_holder_share_bps : ShareOptions, salvor_share_bps : ShareOptions,
     protocol_share_bps : ShareOptions, max_slippage_bps : ShareOptions,
     jupiter_dust_threshold_lamports : ShareOptions]

InitializeParams ==
    [lp_holder_share_bps : Nat, salvor_share_bps : Nat,
     protocol_share_bps : Nat, max_slippage_bps : Nat,
     jupiter_dust_threshold_lamports : Nat]


\* What a salvage saw, for the properties: the withdraw's SOL, the value the
\* reserves implied, the WSOL the route delivered and the WSOL already there.
Audit == [base : Nat, swapped : BOOLEAN, implied : Nat, out : Nat, donated : Nat]

ASSUME NoneAssumption ==
    /\ None \notin Nat
    /\ None \notin ProtocolConfig
    /\ None \notin PoolRegistry
    /\ None \notin SalvageReceipt
    /\ None \notin ClaimRecord
    /\ None \notin EligibilityCert
    /\ None \notin Audit

ASSUME ParameterAssumption ==
    /\ WSOL \in Mints
    /\ PoolAccount \in [Pools -> AmmAccount]
    /\ Submissions \subseteq SalvagePoolParams
    /\ AmmOutcomes \subseteq AmmOutcome
    /\ RouteOutcomes \subseteq RouteOutcome
    /\ InitParams \subseteq InitializeParams
    /\ ConfigUpdates \subseteq UpdateProtocolConfigParams
    /\ LpSupplies \subseteq Nat
    /\ GiftAmounts \subseteq Nat

\* A Merkle tree has finitely many leaves.
ASSUME SnapshotAssumption ==
    \A s \in Submissions : IsFiniteSet(s.lp_snapshot_merkle_root)

ASSUME BoundAssumption ==
    /\ RENT \in Nat \ {0}
    /\ ATA_RENT \in Nat
    /\ U64_MAX \in Nat
    /\ CertTtls \subseteq Nat
    /\ TickSeconds \subseteq Nat
    /\ MaxTime \in Nat

-----------------------------------------------------------------------------
(***************************************************************************)
(* initialize, update_protocol_config, emergency_pause.  The configured    *)
(* authority is the only signer they accept; a call by anyone else changes *)
(* nothing and is not an action.                                           *)
(***************************************************************************)

Init ==
    /\ config = None
    /\ registry = [p \in Pools |-> None]
    /\ receipt = [p \in Pools |-> None]
    /\ claimRecord = [p \in Pools |-> [h \in Holders |-> None]]
    /\ lpVault = [p \in Pools |-> 0]
    /\ solHolding = [p \in Pools |-> 0]
    /\ treasury = 0
    /\ wsolAta = 0
    /\ memeAta = [m \in Mints |-> 0]
    /\ treasuryMeme = [m \in Mints |-> 0]
    /\ lpSupply \in [Pools -> LpSupplies]
    /\ cert = [p \in Pools |-> None]
    /\ now = 1
    /\ gifts = [p \in Pools |-> 0]
    /\ audit = [p \in Pools |-> None]

ZeroMeansDefault(v, default) == IF v = 0 THEN default ELSE v

\* Mutant: the shares are not required to add up.
SharesUnchecked(c) == c \in ProtocolConfig

SharesSumToWhole(c) ==
    c.lp_holder_share_bps + c.salvor_share_bps + c.protocol_share_bps
        = BPS_DENOMINATOR

InitialConfig(i) ==
    [lp_holder_share_bps |->
        ZeroMeansDefault(i.lp_holder_share_bps, DEFAULT_LP_HOLDER_SHARE_BPS),
     salvor_share_bps |->
        ZeroMeansDefault(i.salvor_share_bps, DEFAULT_SALVOR_SHARE_BPS),
     protocol_share_bps |->
        ZeroMeansDefault(i.protocol_share_bps, DEFAULT_PROTOCOL_SHARE_BPS),
     max_slippage_bps |->
        ZeroMeansDefault(i.max_slippage_bps, DEFAULT_MAX_SLIPPAGE_BPS),
     jupiter_dust_threshold_lamports |->
        ZeroMeansDefault(i.jupiter_dust_threshold_lamports,
                         DEFAULT_JUPITER_DUST_THRESHOLD_LAMPORTS),
     emergency_paused |-> FALSE]

Initialize(i) ==
    LET c == InitialConfig(i) IN
    /\ config = None
    /\ c.protocol_share_bps <= PROTOCOL_SHARE_BPS_CEILING
    /\ SharesSumToWhole(c)
    /\ config' = c
    /\ UNCHANGED <<registry, receipt, claimRecord, lpVault, solHolding,
                   treasury, wsolAta, memeAta, treasuryMeme, audit, envVars>>

Given(option, old) == IF option = None THEN old ELSE option

UpdatedConfig(u) ==
    [config EXCEPT
        !.lp_holder_share_bps = Given(u.lp_holder_share_bps, @),
        !.salvor_share_bps = Given(u.salvor_share_bps, @),
        !.protocol_share_bps = Given(u.protocol_share_bps, @),
        !.max_slippage_bps = Given(u.max_slippage_bps, @),
        !.jupiter_dust_threshold_lamports =
            Given(u.jupiter_dust_threshold_lamports, @)]

UpdateProtocolConfig(u) ==
    /\ config # None
    /\ u.protocol_share_bps # None =>
           u.protocol_share_bps <= PROTOCOL_SHARE_BPS_CEILING
    /\ SharesSumToWhole(UpdatedConfig(u))
    /\ u.max_slippage_bps # None => u.max_slippage_bps <= BPS_DENOMINATOR
    /\ config' = UpdatedConfig(u)
    /\ UNCHANGED <<registry, receipt, claimRecord, lpVault, solHolding,
                   treasury, wsolAta, memeAta, treasuryMeme, audit, envVars>>

EmergencyPause(paused) ==
    /\ config # None
    /\ config.emergency_paused # paused
    /\ config' = [config EXCEPT !.emergency_paused = paused]
    /\ UNCHANGED <<registry, receipt, claimRecord, lpVault, solHolding,
                   treasury, wsolAta, memeAta, treasuryMeme, audit, envVars>>

-----------------------------------------------------------------------------
(***************************************************************************)
(* salvage_pool.                                                           *)
(***************************************************************************)

Salvaged(p) == registry[p] # None

\* is_expired compares with <=: a cert is dead at its expiry second.
CertExpired(c) == c.expires_at <= now

\* Mutant: registry and receipt are opened with init_if_needed.
PreflightReusingRegistry(p) ==
    /\ config # None
    /\ ~config.emergency_paused
    /\ cert[p] # None
    /\ ~CertExpired(cert[p])
    /\ cert[p].criteria_bitmap = ALL_CRITERIA_MASK

\* Mutant: the cert's expiry is not looked at.
PreflightIgnoringExpiry(p) ==
    /\ config # None
    /\ ~config.emergency_paused
    /\ cert[p] # None
    /\ cert[p].criteria_bitmap = ALL_CRITERIA_MASK
    /\ registry[p] = None
    /\ receipt[p] = None

Preflight(p) ==
    /\ config # None
    /\ ~config.emergency_paused
    /\ cert[p] # None
    /\ ~CertExpired(cert[p])
    /\ cert[p].criteria_bitmap = ALL_CRITERIA_MASK
    /\ registry[p] = None      \* `init` of pool_registry and salvage_receipt
    /\ receipt[p] = None

\* Exactly one side of the AmmInfo must be WSOL; the other is the memecoin.
BaseIsCoinSide(p) == PoolAccount[p].coin_mint = WSOL
HasWsolSide(p) ==
    (PoolAccount[p].coin_mint = WSOL) # (PoolAccount[p].pc_mint = WSOL)
PoolMemecoinMint(p) ==
    IF BaseIsCoinSide(p) THEN PoolAccount[p].pc_mint ELSE PoolAccount[p].coin_mint

\* Mutant: the positive LP amount is not required.
SubmissionMatchesAnyAmount(p, s) ==
    /\ HasWsolSide(p)
    /\ s.memecoin_mint = PoolMemecoinMint(p)
    /\ lpSupply[p] = s.lp_total_supply_at_snapshot

\* The submission is bound to the pool's own bytes and to the live LP supply.
SubmissionMatches(p, s) ==
    /\ HasWsolSide(p)
    /\ s.memecoin_mint = PoolMemecoinMint(p)
    /\ lpSupply[p] = s.lp_total_supply_at_snapshot
    /\ s.salvor_lp_amount > 0

(***************************************************************************)
(* The withdraw CPI.  Only the Raydium V4 adapter is implemented.  The AMM *)
(* itself is external: it burns LP the mint really has and pays any amount *)
(* on either side; the adapter refuses an empty base side.                 *)
(***************************************************************************)
RemovedBase(p, a) == IF BaseIsCoinSide(p) THEN a.coin ELSE a.pc
RemovedMemecoin(p, a) == IF BaseIsCoinSide(p) THEN a.pc ELSE a.coin
WsolReserve(p, a) == IF BaseIsCoinSide(p) THEN a.coin_vault ELSE a.pc_vault
MemecoinReserve(p, a) == IF BaseIsCoinSide(p) THEN a.pc_vault ELSE a.coin_vault

RemoveLiquidity(p, s, a) ==
    /\ PoolAccount[p].owner = "raydium_v4"
    /\ s.salvor_lp_amount <= lpSupply[p]
    /\ RemovedBase(p, a) > 0

(***************************************************************************)
(* The Jupiter leg: taken when the memecoin received reaches the dust      *)
(* threshold.  The route is opaque; it is vetted by the roles of its       *)
(* accounts, its submitted floor is held against the reserves' own price,  *)
(* and what it delivered against that floor.  The delivery is measured as  *)
(* the whole WSOL balance minus the withdraw's part, so WSOL that was      *)
(* already in the account counts towards it.                               *)
(***************************************************************************)
Swaps(p, a) == RemovedMemecoin(p, a) >= config.jupiter_dust_threshold_lamports

Override(s) ==
    Given(s.max_slippage_bps_override, BPS_DENOMINATOR)

SlippageCap(s) == EffectiveSlippageCapBps(config.max_slippage_bps, Override(s))

RouteVetted(s) ==
    /\ s.route_accounts \cap FORBIDDEN = {}
    /\ "vault_base_token_account" \in s.route_accounts
    /\ ~s.route_data_empty

Implied(p, a) ==
    ImpliedWsolOut(RemovedMemecoin(p, a), WsolReserve(p, a), MemecoinReserve(p, a))

FloorTightEnough(p, s, a) ==
    /\ MemecoinReserve(p, a) > 0
    /\ s.min_quote_output_lamports >= MinSwapFloor(Implied(p, a), SlippageCap(s))

JupiterSwap(p, s, a, r) ==
    /\ RouteVetted(s)
    /\ FloorTightEnough(p, s, a)
    /\ r.spent <= memeAta[PoolMemecoinMint(p)] + RemovedMemecoin(p, a)
    /\ wsolAta + r.out >= s.min_quote_output_lamports

NoRoute == [out |-> 0, spent |-> 0]

\* Route outcomes a salvage may have: none when the leg is skipped.
SwapLeg(p, s, a) ==
    IF Swaps(p, a) THEN {r \in RouteOutcomes : JupiterSwap(p, s, a, r)}
                   ELSE {NoRoute}

\* The vault's WSOL account is unwrapped whole: withdraw, route, earlier gifts.
TotalRecovered(p, a, r) == wsolAta + RemovedBase(p, a) + r.out

\* Mutant: the PDA is not funded with its rent.
LazyInitUnfunded(lamports) == lamports

\* A system PDA is created with its rent unless it already holds lamports.
LazyInit(lamports) == IF lamports > 0 THEN lamports ELSE RENT

\* The runtime refuses a transaction that leaves an account below its rent.
RentExempt(lamports) == lamports # 0 => lamports >= RENT

\* Mutant: the protocol share is passed where the salvor's belongs.
SettlementSplitSwapped(total) ==
    SplitProceeds(total, config.protocol_share_bps, config.lp_holder_share_bps)

SettlementSplit(total) ==
    SplitProceeds(total, config.salvor_share_bps, config.lp_holder_share_bps)

SealedRegistry(s, split) ==
    [lp_snapshot_merkle_root |-> s.lp_snapshot_merkle_root,
     lp_total_supply_at_snapshot |-> s.lp_total_supply_at_snapshot,
     lp_holder_pool_total_lamports |-> split.lp,
     lp_holder_pool_claimed_lamports |-> 0]

IssuedReceipt(total, split, mint, dust) ==
    [lp_holder_amount_lamports |-> split.lp,
     salvor_amount_lamports |-> split.salvor,
     protocol_amount_lamports |-> split.protocol,
     total_proceeds_lamports |-> total,
     memecoin_mint |-> mint,
     dust_memecoin_lamports |-> dust,
     dust_swept_at_ts |-> 0]

Settle(p, s, a, r) ==
    LET mint  == PoolMemecoinMint(p)
        total == TotalRecovered(p, a, r)
        split == SettlementSplit(total)
        dust  == memeAta[mint] + RemovedMemecoin(p, a) - r.spent
    IN  /\ total <= U64_MAX
        /\ dust <= U64_MAX
        /\ SharesSumToWhole(config)
        /\ config.protocol_share_bps <= PROTOCOL_SHARE_BPS_CEILING
        /\ wsolAta' = 0
        /\ memeAta' = [memeAta EXCEPT ![mint] = dust]
        /\ lpVault' = [lpVault EXCEPT ![p] = LazyInit(@) + split.lp]
        /\ solHolding' = [solHolding EXCEPT ![p] =
               LazyInit(@) + total + ATA_RENT
                   - split.salvor - split.lp - split.protocol]
        /\ treasury' = treasury + split.protocol
        /\ RentExempt(treasury')
        /\ registry' = [registry EXCEPT ![p] = SealedRegistry(s, split)]
        /\ receipt' = [receipt EXCEPT ![p] =
               IssuedReceipt(total, split, mint, dust)]
        /\ audit' = [audit EXCEPT ![p] =
               [base |-> RemovedBase(p, a),
                swapped |-> Swaps(p, a),
                implied |-> IF Swaps(p, a) THEN Implied(p, a) ELSE 0,
                out |-> r.out, donated |-> wsolAta]]

SalvagePool(p, s, a) ==
    /\ Preflight(p)
    /\ SubmissionMatches(p, s)
    /\ RemoveLiquidity(p, s, a)
    /\ \E r \in SwapLeg(p, s, a) : Settle(p, s, a, r)
    /\ lpSupply' = [lpSupply EXCEPT ![p] = @ - s.salvor_lp_amount]
    /\ UNCHANGED <<config, claimRecord, treasuryMeme, cert, now, gifts>>

-----------------------------------------------------------------------------
(***************************************************************************)
(* claim_lp_proceeds.  Not gated on the pause.                             *)
(***************************************************************************)

\* Mutant: shares are taken of what is left, not of the sealed total.
ClaimAmountOfRemaining(p, balance) ==
    ProRata(registry[p].lp_holder_pool_total_lamports
                - registry[p].lp_holder_pool_claimed_lamports,
            balance, registry[p].lp_total_supply_at_snapshot)

ClaimAmount(p, balance) ==
    ProRata(registry[p].lp_holder_pool_total_lamports, balance,
            registry[p].lp_total_supply_at_snapshot)

VerifyProof(root, holder, balance) == <<holder, balance>> \in root

\* Mutant: no conservation check.
ClaimAcceptedUnconserved(p, h, balance) ==
    /\ Salvaged(p)
    /\ claimRecord[p][h] = None
    /\ balance > 0
    /\ registry[p].lp_total_supply_at_snapshot > 0
    /\ VerifyProof(registry[p].lp_snapshot_merkle_root, h, balance)
    /\ ClaimAmount(p, balance) <= U64_MAX
    /\ ClaimAmount(p, balance) <= lpVault[p]

\* Mutant: the claim record is opened with init_if_needed.
ClaimAcceptedTwice(p, h, balance) ==
    /\ Salvaged(p)
    /\ balance > 0
    /\ registry[p].lp_total_supply_at_snapshot > 0
    /\ VerifyProof(registry[p].lp_snapshot_merkle_root, h, balance)
    /\ registry[p].lp_holder_pool_claimed_lamports + ClaimAmount(p, balance)
           <= registry[p].lp_holder_pool_total_lamports

\* Mutant: claims stop while the protocol is paused.
ClaimAcceptedUnlessPaused(p, h, balance) ==
    /\ ~config.emergency_paused
    /\ Salvaged(p)
    /\ claimRecord[p][h] = None
    /\ balance > 0
    /\ VerifyProof(registry[p].lp_snapshot_merkle_root, h, balance)
    /\ registry[p].lp_holder_pool_claimed_lamports + ClaimAmount(p, balance)
           <= registry[p].lp_holder_pool_total_lamports

\* Every condition of the handler on a claim of this leaf.
ClaimAccepted(p, h, balance) ==
    /\ Salvaged(p)
    /\ claimRecord[p][h] = None            \* `init` of claim_record
    /\ balance > 0
    /\ registry[p].lp_total_supply_at_snapshot > 0
    /\ VerifyProof(registry[p].lp_snapshot_merkle_root, h, balance)
    /\ ClaimAmount(p, balance) <= U64_MAX
    /\ registry[p].lp_holder_pool_claimed_lamports + ClaimAmount(p, balance)
           <= registry[p].lp_holder_pool_total_lamports
    /\ ClaimAmount(p, balance) <= lpVault[p]
    /\ RentExempt(lpVault[p] - ClaimAmount(p, balance))

\* Mutant: the running counter is not advanced.
ClaimUncounted(p, h, balance) ==
    /\ ClaimAccepted(p, h, balance)
    /\ lpVault' = [lpVault EXCEPT ![p] = @ - ClaimAmount(p, balance)]
    /\ claimRecord' = [claimRecord EXCEPT ![p][h] =
           [amount_lamports |-> ClaimAmount(p, balance),
            lp_balance_at_snapshot |-> balance]]
    /\ UNCHANGED <<config, registry, receipt, solHolding, treasury, wsolAta,
                   memeAta, treasuryMeme, audit, envVars>>

ClaimLpProceeds(p, h, balance) ==
    /\ ClaimAccepted(p, h, balance)
    /\ LET amount == ClaimAmount(p, balance) IN
       /\ registry' = [registry EXCEPT
              ![p].lp_holder_pool_claimed_lamports = @ + amount]
       /\ lpVault' = [lpVault EXCEPT ![p] = @ - amount]
       /\ claimRecord' = [claimRecord EXCEPT ![p][h] =
              [amount_lamports |-> amount, lp_balance_at_snapshot |-> balance]]
    /\ UNCHANGED <<config, receipt, solHolding, treasury, wsolAta, memeAta,
                   treasuryMeme, audit, envVars>>

\* Mutant: the treasury's token account is opened with `init`.
SweepAcceptedOnce(p) ==
    /\ receipt[p] # None
    /\ receipt[p].dust_swept_at_ts = 0
    /\ memeAta[receipt[p].memecoin_mint] > 0
    /\ treasuryMeme[receipt[p].memecoin_mint] = 0

SweepAccepted(p) ==
    /\ receipt[p] # None
    /\ receipt[p].dust_swept_at_ts = 0
    /\ memeAta[receipt[p].memecoin_mint] > 0

(***************************************************************************)
(* sweep_dust.  Moves the WHOLE balance of the mint's token account, which *)
(* pools of the same memecoin share, and stamps one receipt.               *)
(***************************************************************************)
SweepDust(p) ==
    /\ SweepAccepted(p)
    /\ LET mint == receipt[p].memecoin_mint IN
       /\ treasuryMeme' = [treasuryMeme EXCEPT ![mint] = @ + memeAta[mint]]
       /\ memeAta' = [memeAta EXCEPT ![mint] = 0]
    /\ receipt' = [receipt EXCEPT ![p].dust_swept_at_ts = now]
    /\ UNCHANGED <<config, registry, claimRecord, lpVault, solHolding, treasury,
                   wsolAta, audit, envVars>>

-----------------------------------------------------------------------------
(***************************************************************************)
(* The environment: time, the scanner's certs, LP mints and burns by other *)
(* holders, and lamports or WSOL anybody may send to a vault address.      *)
(* Gifts are bounded: one per pool, one WSOL gift at a time, and one to    *)
(* the empty treasury.                                                     *)
(***************************************************************************)

Tick ==
    /\ now < MaxTime
    /\ \E d \in TickSeconds : now' = now + d
    /\ UNCHANGED <<programVars, lpSupply, cert, gifts>>

\* A cert is only (re)issued when the pool has none or the old one expired.
ScannerIssuesCert(p) ==
    /\ cert[p] # None => CertExpired(cert[p])
    /\ \E ttl \in CertTtls : cert' = [cert EXCEPT ![p] =
           [criteria_bitmap |-> ALL_CRITERIA_MASK, expires_at |-> now + ttl]]
    /\ UNCHANGED <<programVars, lpSupply, now, gifts>>

LpSupplyMoves(p) ==
    /\ \E n \in LpSupplies : lpSupply' = [lpSupply EXCEPT ![p] = n]
    /\ UNCHANGED <<programVars, cert, now, gifts>>

GiftToLpVault(p, amount) ==
    /\ gifts[p] = 0
    /\ gifts' = [gifts EXCEPT ![p] = amount]
    /\ lpVault' = [lpVault EXCEPT ![p] = @ + amount]
    /\ RentExempt(lpVault'[p])
    /\ UNCHANGED <<config, registry, receipt, claimRecord, solHolding, treasury,
                   wsolAta, memeAta, treasuryMeme, audit, lpSupply, cert, now>>

GiftToSolHolding(p, amount) ==
    /\ gifts[p] = 0
    /\ gifts' = [gifts EXCEPT ![p] = amount]
    /\ solHolding' = [solHolding EXCEPT ![p] = @ + amount]
    /\ RentExempt(solHolding'[p])
    /\ UNCHANGED <<config, registry, receipt, claimRecord, lpVault, treasury,
                   wsolAta, memeAta, treasuryMeme, audit, lpSupply, cert, now>>

GiftToTreasury(amount) ==
    /\ treasury = 0
    /\ treasury' = amount
    /\ RentExempt(amount)
    /\ UNCHANGED <<config, registry, receipt, claimRecord, lpVault, solHolding,
                   wsolAta, memeAta, treasuryMeme, audit, envVars>>

GiftWsol(amount) ==
    /\ wsolAta = 0
    /\ wsolAta' = amount
    /\ UNCHANGED <<config, registry, receipt, claimRecord, lpVault, solHolding,
                   treasury, memeAta, treasuryMeme, audit, envVars>>

-----------------------------------------------------------------------------
Salvage == \E p \in Pools, s \in Submissions, a \in AmmOutcomes : SalvagePool(p, s, a)

\* A holder submits the balance of a leaf; another balance has no valid proof.
Claim(p, h) ==
    /\ Salvaged(p)
    /\ \E leaf \in registry[p].lp_snapshot_merkle_root :
           /\ leaf[1] = h
           /\ ClaimLpProceeds(p, h, leaf[2])

ProgramNext ==
    \/ \E i \in InitParams : Initialize(i)
    \/ \E u \in ConfigUpdates : UpdateProtocolConfig(u)
    \/ \E b \in BOOLEAN : EmergencyPause(b)
    \/ Salvage
    \/ \E p \in Pools, h \in Holders : Claim(p, h)
    \/ \E p \in Pools : SweepDust(p)

GiftNext ==
    \/ \E p \in Pools, n \in GiftAmounts : GiftToLpVault(p, n)
    \/ \E p \in Pools, n \in GiftAmounts : GiftToSolHolding(p, n)
    \/ \E n \in GiftAmounts : GiftToTreasury(n)
    \/ \E n \in GiftAmounts : GiftWsol(n)

EnvNext ==
    \/ Tick
    \/ \E p \in Pools : ScannerIssuesCert(p)
    \/ \E p \in Pools : LpSupplyMoves(p)

Next == ProgramNext \/ GiftNext \/ EnvNext

Spec == Init /\ [][Next]_vars

(***************************************************************************)
(* A holder whose wallet keeps retrying the claim eventually gets it       *)
(* through: nothing but the handler's own conditions stands in the way.    *)
(* No other action is assumed to happen.                                   *)
(***************************************************************************)
FairSpec == Spec /\ \A p \in Pools, h \in Holders : WF_vars(Claim(p, h))

-----------------------------------------------------------------------------
(***************************************************************************)
(* Properties.                                                             *)
(***************************************************************************)

\* Type correctness of every account the program and its environment keep.
TypeOK ==
    /\ config \in ProtocolConfig \cup {None}
    /\ registry \in [Pools -> PoolRegistry \cup {None}]
    /\ receipt \in [Pools -> SalvageReceipt \cup {None}]
    /\ claimRecord \in [Pools -> [Holders -> ClaimRecord \cup {None}]]
    /\ lpVault \in [Pools -> Nat]
    /\ solHolding \in [Pools -> Nat]
    /\ treasury \in Nat
    /\ wsolAta \in Nat
    /\ memeAta \in [Mints -> Nat]
    /\ treasuryMeme \in [Mints -> Nat]
    /\ lpSupply \in [Pools -> Nat]
    /\ cert \in [Pools -> EligibilityCert \cup {None}]
    /\ now \in Nat \ {0}
    /\ gifts \in [Pools -> Nat]
    /\ audit \in [Pools -> Audit \cup {None}]

ClaimedHolders(p) == {h \in Holders : claimRecord[p][h] # None}

RemainingLamports(p) ==
    registry[p].lp_holder_pool_total_lamports
        - registry[p].lp_holder_pool_claimed_lamports

(***************************************************************************)
(* Whatever the snapshot (over-allocated ones too) and whatever order the  *)
(* claims come in, a pool's lp_holder_pool_vault always holds its rent     *)
(* plus everything not yet claimed: the conservation check of              *)
(* claim_lp_proceeds keeps the bucket from going negative.  Before the     *)
(* salvage it is empty or, prefunded by a stranger, rent exempt, so that   *)
(* skipping its creation is safe.                                          *)
(***************************************************************************)
LpBucketSolvent ==
    \A p \in Pools :
        /\ Salvaged(p) => /\ RemainingLamports(p) >= 0
                          /\ lpVault[p] >= RENT + RemainingLamports(p)
        /\ ~Salvaged(p) => RentExempt(lpVault[p])

(***************************************************************************)
(* The off-chain observer reads the three kinds of account in one call and *)
(* must find them consistent at any moment: R1 (the receipt's legs add up) *)
(* and C1-C3 (the registry's counter is the sum of the claim records, the  *)
(* records stay within the receipt's LP amount, registry and receipt agree *)
(* on it) hold of every pool's accounts between any two transactions.      *)
(***************************************************************************)
Observer == INSTANCE VaultReconcile

PoolClaims(p) ==
    {<<h, claimRecord[p][h].amount_lamports>> : h \in ClaimedHolders(p)}

ClaimsAccounted ==
    \A p \in Pools :
        /\ Salvaged(p) <=> receipt[p] # None
        /\ receipt[p] # None => Observer!r1Sum(receipt[p])
        /\ Observer!c1Accounted(registry[p], PoolClaims(p))
        /\ Observer!c2WithinCeiling(receipt[p], PoolClaims(p))
        /\ Observer!c3Agrees(receipt[p], registry[p])

LeafTotal(root) == SumFunction([l \in root |-> l[2]])

\* A snapshot as the builder makes it: one leaf a holder, within the supply.
HonestSnapshot(root, supply) ==
    /\ \A k, l \in root : k[1] = l[1] => k = l
    /\ LeafTotal(root) <= supply

Honest(p) ==
    /\ Salvaged(p)
    /\ HonestSnapshot(registry[p].lp_snapshot_merkle_root,
                      registry[p].lp_total_supply_at_snapshot)

OpenLeaves(p) ==
    {l \in registry[p].lp_snapshot_merkle_root :
        l[2] > 0 /\ claimRecord[p][l[1]] = None}

(***************************************************************************)
(* Charter: original LPs always recover their share.  With an honest       *)
(* snapshot every holder who has not claimed yet would be accepted NOW:    *)
(* paused or not, whoever claimed before, whatever the configuration has   *)
(* become.  Rounding of the others' claims, the rent floor of the vault    *)
(* account and the conservation check never lock anybody out.              *)
(***************************************************************************)
HonestHolderCanAlwaysClaim ==
    \A p \in Pools : Honest(p) =>
        \A l \in OpenLeaves(p) : ClaimAccepted(p, l[1], l[2])

(***************************************************************************)
(* When the snapshot covers the whole supply and everybody has claimed,    *)
(* fewer lamports than there are holders are left behind by the floor      *)
(* divisions of claim_lp_proceeds.                                         *)
(***************************************************************************)
RoundingDustBounded ==
    \A p \in Pools :
        LET root == registry[p].lp_snapshot_merkle_root IN
        /\ Honest(p)
        /\ root # {}
        /\ LeafTotal(root) = registry[p].lp_total_supply_at_snapshot
        /\ OpenLeaves(p) = {}
        => RemainingLamports(p) < Cardinality(root)

(***************************************************************************)
(* The snapshot denominator of a settled pool is never zero, although      *)
(* salvage_pool does not test for it: a positive LP amount must be burned  *)
(* from a mint with exactly that supply.                                   *)
(***************************************************************************)
SealedSupplyPositive ==
    \A p \in Pools :
        Salvaged(p) => registry[p].lp_total_supply_at_snapshot > 0

SalvagedPools == {p \in Pools : Salvaged(p)}

(***************************************************************************)
(* A settlement pays out exactly what came in: the three shares of the     *)
(* receipt exhaust withdraw + route + WSOL that was already there, the     *)
(* transient holding account is left with rents and gifts alone, and the   *)
(* treasury holds the protocol shares of all receipts (and at most one     *)
(* gift).                                                                  *)
(***************************************************************************)
ProceedsConserved ==
    /\ \A p \in Pools : Salvaged(p) =>
          /\ receipt[p].total_proceeds_lamports
                 = audit[p].base + audit[p].out + audit[p].donated
          /\ receipt[p].total_proceeds_lamports
                 = receipt[p].lp_holder_amount_lamports
                   + receipt[p].salvor_amount_lamports
                   + receipt[p].protocol_amount_lamports
          /\ solHolding[p] >= RENT + ATA_RENT
          /\ solHolding[p] <= RENT + ATA_RENT + gifts[p]
          /\ lpVault[p] <= RENT + RemainingLamports(p) + gifts[p]
    /\ treasury - SumFunction([p \in SalvagedPools |->
                                  receipt[p].protocol_amount_lamports])
           \in {0} \cup GiftAmounts

(***************************************************************************)
(* Charter: the protocol never takes more than 20 per cent of a            *)
(* settlement, up to the two lamports that the two floor divisions of      *)
(* split_proceeds may leave to the remainder - whatever sequence of        *)
(* partial configuration updates the authority went through.               *)
(***************************************************************************)
ProtocolWithinCeiling ==
    \A p \in Pools : Salvaged(p) =>
        BPS_DENOMINATOR * receipt[p].protocol_amount_lamports
            < PROTOCOL_SHARE_BPS_CEILING * receipt[p].total_proceeds_lamports
              + 2 * BPS_DENOMINATOR

(***************************************************************************)
(* What is split between the parties is at least the withdraw's SOL plus   *)
(* 90 per cent of the value the pool's own reserves imply for the          *)
(* memecoin, even when the configured max_slippage_bps has been raised far *)
(* above the hard ceiling.  WSOL that was in the vault before the salvage  *)
(* counts towards the floor, so the swap itself may lose more than 10 per  *)
(* cent; then the loss is at the giver's expense, not at the parties'.     *)
(***************************************************************************)
ProceedsFloor ==
    \A p \in Pools : Salvaged(p) /\ audit[p].swapped =>
        receipt[p].total_proceeds_lamports >=
            audit[p].base + MinSwapFloor(audit[p].implied, HARD_MAX_SLIPPAGE_BPS)

(***************************************************************************)
(* Retained memecoin is never stranded.  The vault has one token account   *)
(* per mint, a sweep empties it for all pools of the mint and stamps one   *)
(* receipt, and each receipt is good for one sweep only; yet whenever      *)
(* salvages have left memecoin in the account, some receipt of the mint is *)
(* left that sweep_dust accepts.                                           *)
(***************************************************************************)
RetainedDustRecoverable ==
    \A m \in Mints : memeAta[m] > 0 =>
        \E p \in Pools : SweepAccepted(p) /\ receipt[p].memecoin_mint = m

(***************************************************************************)
(* The vault observer allows each leg of a receipt one lamport against the *)
(* default shares (R2).  A salvage settled under these shares passes       *)
(* unless its total is 2 or 4 modulo 5: then both floors are short and the *)
(* protocol's leg is two lamports over.  So a critical R2 alert has no     *)
(* other cause among genuine settlements, and two totals in five raise it. *)
(***************************************************************************)
AlarmExplained ==
    \A p \in Pools :
        /\ receipt[p] = None /\ receipt'[p] # None
        /\ config.lp_holder_share_bps = DEFAULT_LP_HOLDER_SHARE_BPS
        /\ config.salvor_share_bps = DEFAULT_SALVOR_SHARE_BPS
        => (Observer!r2Shares(receipt'[p])
                <=> receipt'[p].total_proceeds_lamports % 5 \notin {2, 4})

ReceiptAlarmsExplained == [][AlarmExplained]_vars

\* The fields of a registry that salvage_pool seals.
Sealed(r) == <<r.lp_snapshot_merkle_root, r.lp_total_supply_at_snapshot,
               r.lp_holder_pool_total_lamports>>

(***************************************************************************)
(* A settlement is final.  Once a pool is salvaged no later step - another *)
(* salvage attempt, a claim, a sweep, a governance call - changes the      *)
(* sealed root, supply or total, lowers the claimed counter, rewrites an   *)
(* amount of the receipt or clears its sweep stamp; and a claim record is  *)
(* written once.                                                           *)
(***************************************************************************)
SettlementKept ==
    /\ \A p \in Pools : Salvaged(p) =>
          /\ Salvaged(p)'
          /\ Sealed(registry'[p]) = Sealed(registry[p])
          /\ registry'[p].lp_holder_pool_claimed_lamports
                 >= registry[p].lp_holder_pool_claimed_lamports
          /\ \/ receipt'[p] = receipt[p]
             \/ /\ receipt[p].dust_swept_at_ts = 0
                /\ receipt'[p] = [receipt[p] EXCEPT !.dust_swept_at_ts = now]
    /\ \A p \in Pools, h \in Holders :
          claimRecord[p][h] # None => claimRecord'[p][h] = claimRecord[p][h]

SettlementFinal == [][SettlementKept]_vars

(***************************************************************************)
(* Charter: the LP-holder vault is unsweepable.  Lamports leave it only    *)
(* with a fresh claim record for exactly that amount, of a holder the      *)
(* sealed snapshot names.                                                  *)
(***************************************************************************)
DebitsAreClaims ==
    \A p \in Pools : lpVault'[p] < lpVault[p] =>
        \E l \in registry[p].lp_snapshot_merkle_root :
            /\ claimRecord[p][l[1]] = None
            /\ claimRecord'[p][l[1]] =
                   [amount_lamports |-> lpVault[p] - lpVault'[p],
                    lp_balance_at_snapshot |-> l[2]]

LpVaultUnsweepable == [][DebitsAreClaims]_vars

(***************************************************************************)
(* Every holder of an honest snapshot is eventually paid, whatever the     *)
(* authority, salvors, sweepers and other holders do meanwhile.            *)
(***************************************************************************)
HonestHoldersEventuallyPaid ==
    \A p \in Pools : Honest(p) ~> (Salvaged(p) /\ OpenLeaves(p) = {})

-----------------------------------------------------------------------------
(***************************************************************************)
(* The vault implements LpEscrow: seen through the registries and claim    *)
(* records alone, every instruction, by whomever and in whatever order, is *)
(* the funding of a fresh promise, one holder drawing its share, or        *)
(* nothing.                                                                *)
(***************************************************************************)
Escrow == INSTANCE LpEscrow WITH
    promise <- [p \in Pools |->
                  IF registry[p] = None THEN None
                  ELSE [sum |-> registry[p].lp_holder_pool_total_lamports,
                        roster |-> registry[p].lp_snapshot_merkle_root,
                        whole |-> registry[p].lp_total_supply_at_snapshot]],
    left <- [p \in Pools |->
               IF registry[p] = None THEN 0 ELSE RemainingLamports(p)],
    drawn <- [p \in Pools |-> [h \in Holders |->
                IF claimRecord[p][h] = None THEN None
                ELSE claimRecord[p][h].amount_lamports]]

ASSUME EscrowAssumption == None \notin Escrow!Promise

(***************************************************************************)
(* Refinement: Spec implies the abstract specification of the escrow under *)
(* the mapping above (salvage_pool funds, claim_lp_proceeds draws, every   *)
(* other handler stutters).                                                *)
(***************************************************************************)
ImplementsLpEscrow == Escrow!Spec
=============================================================================
