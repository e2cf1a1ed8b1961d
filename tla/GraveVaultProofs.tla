-------------------------- MODULE GraveVaultProofs --------------------------
(***************************************************************************)
(* Proofs about GraveVault, for every set of pools and holders, every      *)
(* submission, AMM and route outcome, configuration and gift.              *)
(***************************************************************************)
EXTENDS GraveVault, TLAPS

-----------------------------------------------------------------------------
(***************************************************************************)
(* What the settlement arithmetic guarantees for every amount.             *)
(***************************************************************************)

(***************************************************************************)
(* A u64 amount times a bps, divided by 10000: the floor is a natural      *)
(* number within one lamport below the exact share.                        *)
(***************************************************************************)
LEMMA BpsOfFloor ==
    ASSUME NEW amount \in Nat, NEW bps \in Nat
    PROVE  /\ BpsOf(amount, bps) \in Nat
           /\ BPS_DENOMINATOR * BpsOf(amount, bps) <= amount * bps
           /\ amount * bps < BPS_DENOMINATOR * BpsOf(amount, bps) + BPS_DENOMINATOR
<1> DEFINE x == amount * bps
<1>1. x \in Nat
    OBVIOUS
<1> HIDE DEF x
<1>2. /\ x \div 10000 \in Nat
      /\ 10000 * (x \div 10000) <= x
      /\ x < 10000 * (x \div 10000) + 10000
    BY <1>1
<1> QED
    BY <1>2 DEF BpsOf, BPS_DENOMINATOR, x

(***************************************************************************)
(* split_proceeds never pays out more than there is: with salvor and LP    *)
(* shares of at most the whole, the protocol remainder is not negative.    *)
(***************************************************************************)
LEMMA SplitConserves ==
    ASSUME NEW total \in Nat, NEW salvorBps \in Nat, NEW lpBps \in Nat,
           salvorBps + lpBps <= BPS_DENOMINATOR
    PROVE  LET split == SplitProceeds(total, salvorBps, lpBps) IN
           /\ split.salvor \in Nat
           /\ split.lp \in Nat
           /\ split.protocol \in Nat
           /\ split.salvor + split.lp + split.protocol = total
<1> DEFINE salvor == BpsOf(total, salvorBps)
           lp == BpsOf(total, lpBps)
<1>1. /\ salvor \in Nat
      /\ BPS_DENOMINATOR * salvor <= total * salvorBps
    BY BpsOfFloor
<1>2. /\ lp \in Nat
      /\ BPS_DENOMINATOR * lp <= total * lpBps
    BY BpsOfFloor
<1>3. total * salvorBps + total * lpBps <= total * BPS_DENOMINATOR
  <2>1. PICK rest \in Nat : salvorBps + lpBps + rest = BPS_DENOMINATOR
      <3>1. BPS_DENOMINATOR - (salvorBps + lpBps) \in Nat
          BY DEF BPS_DENOMINATOR
      <3> QED BY <3>1 DEF BPS_DENOMINATOR
  <2>2. total * (salvorBps + lpBps + rest)
            = total * salvorBps + total * lpBps + total * rest
      OBVIOUS
  <2>3. total * rest \in Nat
      OBVIOUS
  <2>4. total * salvorBps \in Nat /\ total * lpBps \in Nat
      OBVIOUS
  <2> QED BY <2>1, <2>2, <2>3, <2>4
<1>4. salvor + lp <= total
  <2> HIDE DEF salvor, lp
  <2>1. total * salvorBps \in Nat /\ total * lpBps \in Nat
      OBVIOUS
  <2> QED BY <1>1, <1>2, <1>3, <2>1 DEF BPS_DENOMINATOR
<1> HIDE DEF salvor, lp
<1>5. SplitProceeds(total, salvorBps, lpBps)
          = [salvor |-> salvor, lp |-> lp, protocol |-> total - salvor - lp]
    BY DEF SplitProceeds, salvor, lp
<1> QED
    BY <1>1, <1>2, <1>4, <1>5

(***************************************************************************)
(* The protocol remainder exceeds its exact share by less than two         *)
(* lamports.                                                               *)
(***************************************************************************)
LEMMA SplitRemainder ==
    ASSUME NEW total \in Nat, NEW salvorBps \in Nat, NEW lpBps \in Nat,
           NEW protocolBps \in Nat,
           salvorBps + lpBps + protocolBps = BPS_DENOMINATOR
    PROVE  BPS_DENOMINATOR * SplitProceeds(total, salvorBps, lpBps).protocol
               < total * protocolBps + 2 * BPS_DENOMINATOR
<1> DEFINE salvor == BpsOf(total, salvorBps)
           lp == BpsOf(total, lpBps)
<1>1. /\ salvor \in Nat
      /\ total * salvorBps < BPS_DENOMINATOR * salvor + BPS_DENOMINATOR
    BY BpsOfFloor
<1>2. /\ lp \in Nat
      /\ total * lpBps < BPS_DENOMINATOR * lp + BPS_DENOMINATOR
    BY BpsOfFloor
<1>3. total * salvorBps + total * lpBps + total * protocolBps
          = total * BPS_DENOMINATOR
  <2>1. total * (salvorBps + lpBps + protocolBps)
            = total * salvorBps + total * lpBps + total * protocolBps
      OBVIOUS
  <2> QED BY <2>1
<1>4. SplitProceeds(total, salvorBps, lpBps).protocol = total - salvor - lp
    BY DEF SplitProceeds
<1> HIDE DEF salvor, lp
<1>5. /\ total * salvorBps \in Nat
      /\ total * lpBps \in Nat
      /\ total * protocolBps \in Nat
    OBVIOUS
<1> QED
    BY <1>1, <1>2, <1>3, <1>4, <1>5 DEF BPS_DENOMINATOR

(***************************************************************************)
(* A protocol share within the ceiling yields a remainder within the       *)
(* ceiling, up to those two lamports.                                      *)
(***************************************************************************)
LEMMA RemainderWithinCeiling ==
    ASSUME NEW total \in Nat, NEW salvorBps \in Nat, NEW lpBps \in Nat,
           NEW protocolBps \in Nat,
           salvorBps + lpBps + protocolBps = BPS_DENOMINATOR,
           protocolBps <= PROTOCOL_SHARE_BPS_CEILING
    PROVE  BPS_DENOMINATOR * SplitProceeds(total, salvorBps, lpBps).protocol
               < PROTOCOL_SHARE_BPS_CEILING * total + 2 * BPS_DENOMINATOR
<1> DEFINE protocol == SplitProceeds(total, salvorBps, lpBps).protocol
<1>1. BPS_DENOMINATOR * protocol < total * protocolBps + 2 * BPS_DENOMINATOR
    BY SplitRemainder
<1>2. protocol \in Nat
  <2>1. salvorBps + lpBps <= BPS_DENOMINATOR
      BY DEF BPS_DENOMINATOR
  <2> QED
      BY <2>1, SplitConserves
<1> HIDE DEF protocol
<1>3. total * protocolBps <= total * 2000
  <2>1. PICK k \in Nat : protocolBps + k = 2000
    <3>1. 2000 - protocolBps \in Nat
        BY DEF PROTOCOL_SHARE_BPS_CEILING
    <3> QED
        BY <3>1
  <2>2. total * (protocolBps + k) = total * protocolBps + total * k
      OBVIOUS
  <2>3. total * k \in Nat /\ total * protocolBps \in Nat
      OBVIOUS
  <2> QED
      BY <2>1, <2>2, <2>3
<1>4. total * protocolBps \in Nat
    OBVIOUS
<1> QED
    BY <1>1, <1>2, <1>3, <1>4 DEF protocol, BPS_DENOMINATOR, PROTOCOL_SHARE_BPS_CEILING

(***************************************************************************)
(* Whatever cap governance configured and whatever override the salvor     *)
(* chose, the effective cap is within the hard ceiling, and so the floor   *)
(* is at least the one the hard ceiling implies.                           *)
(***************************************************************************)
LEMMA FloorAtLeastHardFloor ==
    ASSUME NEW implied \in Nat, NEW configBps \in Nat, NEW overrideBps \in Nat
    PROVE  LET cap == EffectiveSlippageCapBps(configBps, overrideBps) IN
           /\ cap \in 0 .. HARD_MAX_SLIPPAGE_BPS
           /\ MinSwapFloor(implied, cap) \in Nat
           /\ MinSwapFloor(implied, HARD_MAX_SLIPPAGE_BPS) \in Nat
           /\ MinSwapFloor(implied, cap)
                  >= MinSwapFloor(implied, HARD_MAX_SLIPPAGE_BPS)
<1> DEFINE cap == EffectiveSlippageCapBps(configBps, overrideBps)
<1>1. cap \in 0 .. 1000
    BY DEF EffectiveSlippageCapBps, Lesser, HARD_MAX_SLIPPAGE_BPS
<1> HIDE DEF cap
<1>2. PICK k \in Nat : (10000 - cap) = 9000 + k
  <2>1. (10000 - cap) - 9000 \in Nat
      BY <1>1
  <2> QED BY <2>1, <1>1
<1>3. implied * (10000 - cap) = implied * 9000 + implied * k
    BY <1>2
<1>4. implied * k \in Nat
    OBVIOUS
<1>5. /\ MinSwapFloor(implied, cap) = (implied * (10000 - cap)) \div 10000
      /\ MinSwapFloor(implied, HARD_MAX_SLIPPAGE_BPS)
             = (implied * 9000) \div 10000
  <2>1. 10000 - 1000 = 9000
      OBVIOUS
  <2> QED BY <2>1 DEF MinSwapFloor, BpsOf, BPS_DENOMINATOR, HARD_MAX_SLIPPAGE_BPS
<1>6. \A x, y \in Nat : (x + y) \div 10000 >= x \div 10000
                        /\ (x + y) \div 10000 \in Nat /\ x \div 10000 \in Nat
    OBVIOUS
<1>7. implied * 9000 \in Nat
    OBVIOUS
<1>8. /\ (implied * 9000 + implied * k) \div 10000 >= (implied * 9000) \div 10000
      /\ (implied * 9000 + implied * k) \div 10000 \in Nat
      /\ (implied * 9000) \div 10000 \in Nat
    BY <1>4, <1>6, <1>7
<1>9. /\ MinSwapFloor(implied, cap) = (implied * 9000 + implied * k) \div 10000
      /\ MinSwapFloor(implied, HARD_MAX_SLIPPAGE_BPS) = (implied * 9000) \div 10000
    BY <1>3, <1>5
<1>10. /\ MinSwapFloor(implied, cap) \in Nat
       /\ MinSwapFloor(implied, HARD_MAX_SLIPPAGE_BPS) \in Nat
       /\ MinSwapFloor(implied, cap) >= MinSwapFloor(implied, HARD_MAX_SLIPPAGE_BPS)
    BY <1>8, <1>9
<1>11. cap \in 0 .. HARD_MAX_SLIPPAGE_BPS
    BY <1>1 DEF HARD_MAX_SLIPPAGE_BPS
<1> QED
    BY <1>10, <1>11, Zenon DEF cap

(***************************************************************************)
(* The pro-rata claim is a natural number when there is a supply.          *)
(***************************************************************************)
LEMMA ProRataType ==
    ASSUME NEW bucket \in Nat, NEW balance \in Nat, NEW supply \in Nat \ {0}
    PROVE  ProRata(bucket, balance, supply) \in Nat
<1>1. bucket * balance \in Nat
    OBVIOUS
<1>2. \A x \in Nat : x \div supply \in Nat
    OBVIOUS
<1> QED
    BY <1>1, <1>2 DEF ProRata

(***************************************************************************)
(* The implied value is a natural number when there is a reserve.          *)
(***************************************************************************)
LEMMA ImpliedType ==
    ASSUME NEW memecoin \in Nat, NEW wsolReserve \in Nat,
           NEW memecoinReserve \in Nat \ {0}
    PROVE  ImpliedWsolOut(memecoin, wsolReserve, memecoinReserve) \in Nat
<1>1. memecoin * wsolReserve \in Nat
    OBVIOUS
<1>2. \A x \in Nat : x \div memecoinReserve \in Nat
    OBVIOUS
<1> QED
    BY <1>1, <1>2 DEF ImpliedWsolOut

(***************************************************************************)
(* A pro-rata share is the exact quotient rounded down by less than one.   *)
(***************************************************************************)
LEMMA ProRataFloor ==
    ASSUME NEW bucket \in Nat, NEW balance \in Nat, NEW supply \in Nat \ {0}
    PROVE  LET share == ProRata(bucket, balance, supply) IN
           /\ share \in Nat
           /\ supply * share <= bucket * balance
           /\ bucket * balance + 1 <= supply * share + supply
<1>1. bucket * balance \in Nat
    OBVIOUS
<1>2. \A x \in Nat : /\ x \div supply \in Nat
                     /\ supply * (x \div supply) <= x
                     /\ x + 1 <= supply * (x \div supply) + supply
    OBVIOUS
<1> QED
    BY <1>1, <1>2 DEF ProRata

\* Fewer than whole parts of a bucket, of whole parts, are within the bucket.
LEMMA PartWithinWhole ==
    ASSUME NEW whole \in Nat \ {0}, NEW bucket \in Nat,
           NEW paid \in Nat, NEW parts \in Nat,
           whole * paid <= bucket * parts, parts <= whole
    PROVE  paid <= bucket
<1>1. bucket * parts <= bucket * whole
  <2>1. PICK d \in Nat : whole = parts + d
      BY whole - parts \in Nat
  <2>2. bucket * whole = bucket * parts + bucket * d /\ bucket * d \in Nat
      BY <2>1
  <2> QED
      BY <2>2
<1> SUFFICES ASSUME ~(paid <= bucket) PROVE FALSE
    OBVIOUS
<1>2. PICK e \in Nat : paid = bucket + 1 + e
    BY paid - bucket - 1 \in Nat
<1>3. /\ whole * paid = whole * bucket + whole + whole * e
      /\ whole * e \in Nat
      /\ whole * bucket \in Nat
      /\ bucket * parts \in Nat
    BY <1>2
<1>4. whole * bucket = bucket * whole
    OBVIOUS
<1> QED
    BY <1>1, <1>3, <1>4

\* What rounding n shares down withholds of a bucket is less than n.
LEMMA WithheldBelow ==
    ASSUME NEW whole \in Nat \ {0}, NEW bucket \in Nat,
           NEW paid \in Nat, NEW n \in Nat \ {0},
           bucket * whole + n <= whole * paid + whole * n
    PROVE  bucket - paid < n
<1> SUFFICES ASSUME ~(bucket - paid < n) PROVE FALSE
    OBVIOUS
<1>1. PICK e \in Nat : bucket = paid + n + e
    BY bucket - paid - n \in Nat
<1>2. bucket * whole = whole * paid + whole * n + whole * e /\ whole * e \in Nat
    BY <1>1
<1>3. whole * paid \in Nat /\ whole * n \in Nat
    OBVIOUS
<1> QED
    BY <1>2, <1>3

-----------------------------------------------------------------------------
(***************************************************************************)
(* The two sides of a withdraw, and what a route may have done.            *)
(***************************************************************************)

\* Both sides of a withdraw are amounts, the memecoin is a mint.
LEMMA OutcomeType ==
    ASSUME NEW p \in Pools, NEW a \in AmmOutcomes
    PROVE  /\ RemovedBase(p, a) \in Nat
           /\ RemovedMemecoin(p, a) \in Nat
           /\ WsolReserve(p, a) \in Nat
           /\ MemecoinReserve(p, a) \in Nat
           /\ PoolMemecoinMint(p) \in Mints
<1>1. /\ a \in AmmOutcome
      /\ PoolAccount[p] \in AmmAccount
    BY ParameterAssumption
<1> QED
    BY <1>1 DEF AmmOutcome, AmmAccount, RemovedBase, RemovedMemecoin, WsolReserve,
                MemecoinReserve, PoolMemecoinMint

\* A route delivers an amount and takes at most what the vault's account has.
LEMMA SwapLegType ==
    ASSUME TypeOK, config # None,
           NEW p \in Pools, NEW s \in Submissions, NEW a \in AmmOutcomes,
           NEW r \in SwapLeg(p, s, a)
    PROVE  /\ r.out \in Nat
           /\ r.spent \in Nat
           /\ r.spent <= memeAta[PoolMemecoinMint(p)] + RemovedMemecoin(p, a)
           /\ Swaps(p, a) => JupiterSwap(p, s, a, r)
<1>1. memeAta[PoolMemecoinMint(p)] \in Nat /\ RemovedMemecoin(p, a) \in Nat
    BY OutcomeType DEF TypeOK
<1>2. CASE Swaps(p, a)
  <2>1. r \in RouteOutcomes /\ JupiterSwap(p, s, a, r)
      BY <1>2 DEF SwapLeg
  <2>2. r \in RouteOutcome
      BY <2>1, ParameterAssumption
  <2> QED
      BY <2>1, <2>2 DEF JupiterSwap, RouteOutcome
<1>3. CASE ~Swaps(p, a)
  <2>1. r = [out |-> 0, spent |-> 0]
      BY <1>3 DEF SwapLeg, NoRoute
  <2> QED
      BY <1>1, <1>3, <2>1
<1> QED
    BY <1>2, <1>3

(***************************************************************************)
(* What a settlement computes: the total is an amount, the three shares    *)
(* exhaust it, and the dust left in the token account is an amount.        *)
(***************************************************************************)
LEMMA SettleAmounts ==
    ASSUME TypeOK, config # None,
           NEW p \in Pools, NEW s \in Submissions, NEW a \in AmmOutcomes,
           NEW r \in SwapLeg(p, s, a),
           SharesSumToWhole(config)
    PROVE  LET total == TotalRecovered(p, a, r)
               split == SettlementSplit(total)
           IN  /\ total \in Nat
               /\ split.salvor \in Nat
               /\ split.lp \in Nat
               /\ split.protocol \in Nat
               /\ split.salvor + split.lp + split.protocol = total
               /\ memeAta[PoolMemecoinMint(p)] + RemovedMemecoin(p, a) - r.spent
                      \in Nat
<1>1. config \in ProtocolConfig
    BY DEF TypeOK
<1>2. TotalRecovered(p, a, r) \in Nat
    BY OutcomeType, SwapLegType DEF TypeOK, TotalRecovered
<1>3. memeAta[PoolMemecoinMint(p)] + RemovedMemecoin(p, a) - r.spent \in Nat
  <2>1. memeAta[PoolMemecoinMint(p)] \in Nat
      BY OutcomeType DEF TypeOK
  <2> QED
      BY <2>1, OutcomeType, SwapLegType
<1>4. /\ config.salvor_share_bps \in Nat
      /\ config.lp_holder_share_bps \in Nat
      /\ config.protocol_share_bps \in Nat
    BY <1>1 DEF ProtocolConfig
<1>5. config.salvor_share_bps + config.lp_holder_share_bps <= BPS_DENOMINATOR
    BY <1>4 DEF SharesSumToWhole, BPS_DENOMINATOR
<1> QED
    BY <1>2, <1>3, <1>4, <1>5, SplitConserves DEF SettlementSplit

-----------------------------------------------------------------------------
(***************************************************************************)
(* Type correctness.                                                       *)
(***************************************************************************)

\* A salvage writes well-formed accounts.
LEMMA SalvageType ==
    ASSUME TypeOK,
           NEW p \in Pools, NEW s \in Submissions, NEW a \in AmmOutcomes,
           SalvagePool(p, s, a)
    PROVE  TypeOK'
<1> USE DEF TypeOK
<1>1. PICK r \in SwapLeg(p, s, a) : Settle(p, s, a, r)
    BY DEF SalvagePool
<1>2. config # None /\ config \in ProtocolConfig
    BY DEF SalvagePool, Preflight
<1>3. SharesSumToWhole(config)
    BY <1>1 DEF Settle
<1> DEFINE mint == PoolMemecoinMint(p)
           total == TotalRecovered(p, a, r)
           split == SettlementSplit(total)
           dust == memeAta[mint] + RemovedMemecoin(p, a) - r.spent
<1>4. /\ total \in Nat
      /\ split.salvor \in Nat
      /\ split.lp \in Nat
      /\ split.protocol \in Nat
      /\ split.salvor + split.lp + split.protocol = total
      /\ dust \in Nat
    BY <1>2, <1>3, SettleAmounts
<1>5. s \in SalvagePoolParams
    BY ParameterAssumption
<1>6. /\ RemovedBase(p, a) \in Nat
      /\ RemovedMemecoin(p, a) \in Nat
      /\ mint \in Mints
      /\ r.out \in Nat
      /\ r.spent \in Nat
    BY <1>2, OutcomeType, SwapLegType
<1>7. /\ wsolAta' = 0
      /\ memeAta' = [memeAta EXCEPT ![mint] = dust]
      /\ lpVault' = [lpVault EXCEPT ![p] = LazyInit(lpVault[p]) + split.lp]
      /\ solHolding' = [solHolding EXCEPT ![p] =
             LazyInit(solHolding[p]) + total + ATA_RENT
                 - split.salvor - split.lp - split.protocol]
      /\ treasury' = treasury + split.protocol
      /\ registry' = [registry EXCEPT ![p] = SealedRegistry(s, split)]
      /\ receipt' = [receipt EXCEPT ![p] = IssuedReceipt(total, split, mint, dust)]
    BY <1>1 DEF Settle
<1>8. audit' = [audit EXCEPT ![p] =
               [base |-> RemovedBase(p, a),
                swapped |-> Swaps(p, a),
                implied |-> IF Swaps(p, a) THEN Implied(p, a) ELSE 0,
                out |-> r.out, donated |-> wsolAta]]
    BY <1>1 DEF Settle
<1>9. lpSupply' = [lpSupply EXCEPT ![p] = lpSupply[p] - s.salvor_lp_amount]
      /\ s.salvor_lp_amount <= lpSupply[p]
    BY DEF SalvagePool, RemoveLiquidity
<1>10. UNCHANGED <<config, claimRecord, treasuryMeme, cert, now, gifts>>
    BY DEF SalvagePool
<1>11. (IF Swaps(p, a) THEN Implied(p, a) ELSE 0) \in Nat
  <2>1. CASE Swaps(p, a)
    <3>1. MemecoinReserve(p, a) \in Nat \ {0}
        BY <1>2, <2>1, OutcomeType, SwapLegType DEF JupiterSwap, FloorTightEnough
    <3> QED
        BY <2>1, <3>1, OutcomeType, ImpliedType DEF Implied
  <2> QED
      BY <2>1
<1>12. Swaps(p, a) \in BOOLEAN
    BY DEF Swaps
<1> HIDE DEF total, split, dust, mint
<1>13. registry' \in [Pools -> PoolRegistry \cup {None}]
  <2>1. SealedRegistry(s, split) \in PoolRegistry
      BY <1>4, <1>5 DEF SealedRegistry, PoolRegistry, SalvagePoolParams
  <2> QED
      BY <1>7, <2>1
<1>14. receipt' \in [Pools -> SalvageReceipt \cup {None}]
  <2>1. IssuedReceipt(total, split, mint, dust) \in SalvageReceipt
      BY <1>4, <1>6 DEF IssuedReceipt, SalvageReceipt
  <2> QED
      BY <1>7, <2>1
<1>15. lpVault' \in [Pools -> Nat] /\ solHolding' \in [Pools -> Nat]
  <2>1. LazyInit(lpVault[p]) \in Nat /\ LazyInit(solHolding[p]) \in Nat
      BY BoundAssumption DEF LazyInit
  <2>2. LazyInit(solHolding[p]) + total + ATA_RENT
            - split.salvor - split.lp - split.protocol \in Nat
      BY <1>4, <2>1, BoundAssumption
  <2> QED
      BY <1>4, <1>7, <2>1, <2>2
<1>16. audit' \in [Pools -> Audit \cup {None}]
  <2>1. s.min_quote_output_lamports \in Nat
      BY <1>5 DEF SalvagePoolParams
  <2> QED
      BY <1>6, <1>8, <1>11, <1>12, <2>1 DEF Audit
<1>17. lpSupply' \in [Pools -> Nat]
  <2>1. s.salvor_lp_amount \in Nat
      BY <1>5 DEF SalvagePoolParams
  <2> QED
      BY <1>9, <2>1
<1>18. treasury' \in Nat /\ memeAta' \in [Mints -> Nat] /\ wsolAta' \in Nat
    BY <1>4, <1>6, <1>7
<1> QED
    BY <1>10, <1>13, <1>14, <1>15, <1>16, <1>17, <1>18

\* A claim's amount is what the guard compares it with.
LEMMA ClaimAmountType ==
    ASSUME TypeOK, NEW p \in Pools, NEW balance \in Nat, Salvaged(p),
           registry[p].lp_total_supply_at_snapshot > 0
    PROVE  ClaimAmount(p, balance) \in Nat
<1>1. registry[p] \in PoolRegistry
    BY DEF TypeOK, Salvaged
<1>2. /\ registry[p].lp_holder_pool_total_lamports \in Nat
      /\ registry[p].lp_total_supply_at_snapshot \in Nat \ {0}
    BY <1>1 DEF PoolRegistry
<1> QED
    BY <1>2, ProRataType DEF ClaimAmount

\* The leaves of a sealed snapshot carry amounts.
LEMMA LeafType ==
    ASSUME TypeOK, NEW p \in Pools, Salvaged(p),
           NEW leaf \in registry[p].lp_snapshot_merkle_root
    PROVE  leaf[1] \in Holders /\ leaf[2] \in Nat /\ leaf = <<leaf[1], leaf[2]>>
<1>1. registry[p] \in PoolRegistry
    BY DEF TypeOK, Salvaged
<1>2. leaf \in Holders \X Nat
    BY <1>1 DEF PoolRegistry, Snapshot
<1> QED
    BY <1>2

\* A claim moves an amount from the vault to the counter and the record.
LEMMA ClaimEffect ==
    ASSUME TypeOK, NEW p \in Pools, NEW h \in Holders, Claim(p, h)
    PROVE  \E balance \in Nat :
             LET amount == ClaimAmount(p, balance) IN
             /\ registry[p] \in PoolRegistry
             /\ amount \in Nat
             /\ ClaimAccepted(p, h, balance)
             /\ registry' = [registry EXCEPT ![p] =
                    [registry[p] EXCEPT !.lp_holder_pool_claimed_lamports =
                        registry[p].lp_holder_pool_claimed_lamports + amount]]
             /\ lpVault' = [lpVault EXCEPT ![p] = lpVault[p] - amount]
             /\ claimRecord' = [claimRecord EXCEPT ![p] =
                    [claimRecord[p] EXCEPT ![h] =
                        [amount_lamports |-> amount,
                         lp_balance_at_snapshot |-> balance]]]
             /\ UNCHANGED <<config, receipt, solHolding, treasury, wsolAta,
                            memeAta, treasuryMeme, audit, envVars>>
<1>1. PICK leaf \in registry[p].lp_snapshot_merkle_root :
          ClaimLpProceeds(p, h, leaf[2])
    BY DEF Claim
<1>2. Salvaged(p)
    BY DEF Claim
<1>3. registry[p] \in PoolRegistry
    BY <1>2 DEF TypeOK, Salvaged
<1>4. leaf[2] \in Nat
    BY <1>2, LeafType
<1> DEFINE balance == leaf[2]
           amount == ClaimAmount(p, balance)
<1>5. ClaimAccepted(p, h, balance)
    BY <1>1 DEF ClaimLpProceeds
<1>6. amount \in Nat
    BY <1>2, <1>4, <1>5, ClaimAmountType DEF ClaimAccepted
<1> HIDE DEF amount
<1>7. /\ registry' = [registry EXCEPT ![p].lp_holder_pool_claimed_lamports =
             @ + amount]
      /\ lpVault' = [lpVault EXCEPT ![p] = @ - amount]
      /\ claimRecord' = [claimRecord EXCEPT ![p][h] =
             [amount_lamports |-> amount, lp_balance_at_snapshot |-> balance]]
      /\ UNCHANGED <<config, receipt, solHolding, treasury, wsolAta,
                     memeAta, treasuryMeme, audit, envVars>>
    BY <1>1 DEF ClaimLpProceeds, amount
<1> QED
    BY <1>3, <1>4, <1>5, <1>6, <1>7 DEF amount

LEMMA ClaimType ==
    ASSUME TypeOK, NEW p \in Pools, NEW h \in Holders, Claim(p, h)
    PROVE  TypeOK'
<1> USE DEF TypeOK
<1>1. PICK balance \in Nat :
             LET amount == ClaimAmount(p, balance) IN
             /\ registry[p] \in PoolRegistry
             /\ amount \in Nat
             /\ ClaimAccepted(p, h, balance)
             /\ registry' = [registry EXCEPT ![p] =
                    [registry[p] EXCEPT !.lp_holder_pool_claimed_lamports =
                        registry[p].lp_holder_pool_claimed_lamports + amount]]
             /\ lpVault' = [lpVault EXCEPT ![p] = lpVault[p] - amount]
             /\ claimRecord' = [claimRecord EXCEPT ![p] =
                    [claimRecord[p] EXCEPT ![h] =
                        [amount_lamports |-> amount,
                         lp_balance_at_snapshot |-> balance]]]
             /\ UNCHANGED <<config, receipt, solHolding, treasury, wsolAta,
                            memeAta, treasuryMeme, audit, envVars>>
    BY ClaimEffect
<1> DEFINE amount == ClaimAmount(p, balance)
<1>2. amount \in Nat /\ amount <= lpVault[p]
    BY <1>1 DEF ClaimAccepted
<1> HIDE DEF amount
<1>3. registry' \in [Pools -> PoolRegistry \cup {None}]
  <2>1. registry[p] \in PoolRegistry
      BY <1>1
  <2>2. registry[p].lp_holder_pool_claimed_lamports + amount \in Nat
      BY <1>2, <2>1 DEF PoolRegistry
  <2>3. [registry[p] EXCEPT !.lp_holder_pool_claimed_lamports =
            registry[p].lp_holder_pool_claimed_lamports + amount] \in PoolRegistry
      BY <2>1, <2>2 DEF PoolRegistry
  <2> QED
      BY <1>1, <2>3 DEF amount
<1>4. lpVault' \in [Pools -> Nat]
    BY <1>1, <1>2 DEF amount
<1>5. claimRecord' \in [Pools -> [Holders -> ClaimRecord \cup {None}]]
  <2>1. [amount_lamports |-> amount, lp_balance_at_snapshot |-> balance]
            \in ClaimRecord
      BY <1>2 DEF ClaimRecord
  <2> QED
      BY <1>1, <2>1 DEF amount
<1> QED
    BY <1>1, <1>3, <1>4, <1>5 DEF envVars

\* Governance writes well-formed configurations.
LEMMA GovernanceType ==
    ASSUME TypeOK,
           \/ \E i \in InitParams : Initialize(i)
           \/ \E u \in ConfigUpdates : UpdateProtocolConfig(u)
           \/ \E b \in BOOLEAN : EmergencyPause(b)
    PROVE  TypeOK'
<1> USE DEF TypeOK
<1>1. ASSUME NEW i \in InitParams, Initialize(i) PROVE TypeOK'
  <2>1. i \in InitializeParams
      BY ParameterAssumption
  <2>2. InitialConfig(i) \in ProtocolConfig
      BY <2>1 DEF InitializeParams, InitialConfig, ProtocolConfig, ZeroMeansDefault,
                  DEFAULT_LP_HOLDER_SHARE_BPS, DEFAULT_SALVOR_SHARE_BPS,
                  DEFAULT_PROTOCOL_SHARE_BPS, DEFAULT_MAX_SLIPPAGE_BPS,
                  DEFAULT_JUPITER_DUST_THRESHOLD_LAMPORTS
  <2> QED
      BY <1>1, <2>2 DEF Initialize, envVars
<1>2. ASSUME NEW u \in ConfigUpdates, UpdateProtocolConfig(u) PROVE TypeOK'
  <2>1. u \in UpdateProtocolConfigParams
      BY ParameterAssumption
  <2>2. config \in ProtocolConfig
      BY <1>2 DEF UpdateProtocolConfig
  <2>3. UpdatedConfig(u) \in ProtocolConfig
      BY <2>1, <2>2 DEF UpdatedConfig, Given, UpdateProtocolConfigParams,
                        ShareOptions, ProtocolConfig
  <2> QED
      BY <1>2, <2>3 DEF UpdateProtocolConfig, envVars
<1>3. ASSUME NEW b \in BOOLEAN, EmergencyPause(b) PROVE TypeOK'
  <2>1. config \in ProtocolConfig
      BY <1>3 DEF EmergencyPause
  <2>2. [config EXCEPT !.emergency_paused = b] \in ProtocolConfig
      BY <2>1 DEF ProtocolConfig
  <2> QED
      BY <1>3, <2>2 DEF EmergencyPause, envVars
<1> QED
    BY <1>1, <1>2, <1>3

LEMMA SweepType ==
    ASSUME TypeOK, NEW p \in Pools, SweepDust(p)
    PROVE  TypeOK'
<1> USE DEF TypeOK
<1>1. receipt[p] \in SalvageReceipt
    BY DEF SweepDust, SweepAccepted
<1>2. receipt[p].memecoin_mint \in Mints
    BY <1>1 DEF SalvageReceipt
<1>3. [receipt[p] EXCEPT !.dust_swept_at_ts = now] \in SalvageReceipt
    BY <1>1 DEF SalvageReceipt
<1>4. receipt' \in [Pools -> SalvageReceipt \cup {None}]
    BY <1>3 DEF SweepDust, SweepAccepted
<1>5. memeAta' \in [Mints -> Nat] /\ treasuryMeme' \in [Mints -> Nat]
    BY <1>2 DEF SweepDust, SweepAccepted
<1> QED
    BY <1>4, <1>5 DEF SweepDust, envVars

\* Time, the scanner, other LP holders and donors keep the types.
LEMMA EnvironmentType ==
    ASSUME TypeOK, GiftNext \/ EnvNext
    PROVE  TypeOK'
<1> USE DEF TypeOK
<1>1. CASE Tick
  <2>1. now' \in Nat \ {0}
      BY <1>1, BoundAssumption DEF Tick
  <2> QED
      BY <1>1, <2>1 DEF Tick, programVars
<1>2. ASSUME NEW p \in Pools, ScannerIssuesCert(p) PROVE TypeOK'
  <2>1. PICK ttl \in CertTtls : cert' = [cert EXCEPT ![p] =
            [criteria_bitmap |-> ALL_CRITERIA_MASK, expires_at |-> now + ttl]]
      BY <1>2 DEF ScannerIssuesCert
  <2>2. [criteria_bitmap |-> ALL_CRITERIA_MASK, expires_at |-> now + ttl]
            \in EligibilityCert
      BY BoundAssumption DEF EligibilityCert, ALL_CRITERIA_MASK
  <2> QED
      BY <1>2, <2>1, <2>2 DEF ScannerIssuesCert, programVars
<1>3. ASSUME NEW p \in Pools, LpSupplyMoves(p) PROVE TypeOK'
    BY <1>3, ParameterAssumption DEF LpSupplyMoves, programVars
<1>4. ASSUME NEW p \in Pools, NEW n \in GiftAmounts, GiftToLpVault(p, n)
      PROVE  TypeOK'
    BY <1>4, ParameterAssumption DEF GiftToLpVault
<1>5. ASSUME NEW p \in Pools, NEW n \in GiftAmounts, GiftToSolHolding(p, n)
      PROVE  TypeOK'
    BY <1>5, ParameterAssumption DEF GiftToSolHolding
<1>6. ASSUME NEW n \in GiftAmounts, GiftToTreasury(n) PROVE TypeOK'
    BY <1>6, ParameterAssumption DEF GiftToTreasury, envVars
<1>7. ASSUME NEW n \in GiftAmounts, GiftWsol(n) PROVE TypeOK'
    BY <1>7, ParameterAssumption DEF GiftWsol, envVars
<1> QED
    BY <1>1, <1>2, <1>3, <1>4, <1>5, <1>6, <1>7 DEF GiftNext, EnvNext

LEMMA InitType == Init => TypeOK
<1> SUFFICES ASSUME Init PROVE TypeOK
    OBVIOUS
<1>1. lpSupply \in [Pools -> Nat]
    BY ParameterAssumption DEF Init
<1> QED
    BY <1>1 DEF Init, TypeOK

LEMMA NextType == TypeOK /\ [Next]_vars => TypeOK'
<1> SUFFICES ASSUME TypeOK, [Next]_vars PROVE TypeOK'
    OBVIOUS
<1>1. CASE Salvage
    BY <1>1, SalvageType DEF Salvage
<1>2. ASSUME NEW p \in Pools, NEW h \in Holders, Claim(p, h) PROVE TypeOK'
    BY <1>2, ClaimType
<1>3. ASSUME NEW p \in Pools, SweepDust(p) PROVE TypeOK'
    BY <1>3, SweepType
<1>4. CASE \/ \E i \in InitParams : Initialize(i)
           \/ \E u \in ConfigUpdates : UpdateProtocolConfig(u)
           \/ \E b \in BOOLEAN : EmergencyPause(b)
    BY <1>4, GovernanceType
<1>5. CASE GiftNext \/ EnvNext
    BY <1>5, EnvironmentType
<1>6. CASE UNCHANGED vars
    BY <1>6 DEF vars, programVars, envVars, TypeOK
<1> QED
    BY <1>1, <1>2, <1>3, <1>4, <1>5, <1>6 DEF Next, ProgramNext

(***************************************************************************)
(* Every account stays well formed: no balance of the vault, the holding   *)
(* account, the treasury or the token accounts ever becomes negative, no   *)
(* share, counter or stamp leaves its range.                               *)
(***************************************************************************)
THEOREM TypeCorrect == Spec => []TypeOK
    BY InitType, NextType, PTL DEF Spec

-----------------------------------------------------------------------------
(***************************************************************************)
(* The LP-holder bucket.                                                   *)
(***************************************************************************)

\* Steps that touch neither the registries nor the vaults keep the bucket.
LEMMA BucketFrame ==
    ASSUME LpBucketSolvent, UNCHANGED <<registry, lpVault>>
    PROVE  LpBucketSolvent'
BY DEF LpBucketSolvent, Salvaged, RemainingLamports

\* A salvage funds the vault with its rent and the whole LP share.
LEMMA SalvageBucket ==
    ASSUME TypeOK, LpBucketSolvent,
           NEW p \in Pools, NEW s \in Submissions, NEW a \in AmmOutcomes,
           SalvagePool(p, s, a)
    PROVE  LpBucketSolvent'
<1>1. PICK r \in SwapLeg(p, s, a) : Settle(p, s, a, r)
    BY DEF SalvagePool
<1> DEFINE split == SettlementSplit(TotalRecovered(p, a, r))
<1>2. config # None /\ registry[p] = None
    BY DEF SalvagePool, Preflight
<1>3. split.lp \in Nat
    BY <1>1, <1>2, SettleAmounts DEF Settle
<1>4. /\ lpVault' = [lpVault EXCEPT ![p] = LazyInit(lpVault[p]) + split.lp]
      /\ registry' = [registry EXCEPT ![p] = SealedRegistry(s, split)]
    BY <1>1 DEF Settle
<1> HIDE DEF split
<1>5. LazyInit(lpVault[p]) \in Nat /\ LazyInit(lpVault[p]) >= RENT
  <2>1. lpVault[p] \in Nat /\ RentExempt(lpVault[p])
      BY <1>2 DEF TypeOK, LpBucketSolvent, Salvaged
  <2> QED
      BY <2>1, BoundAssumption DEF LazyInit, RentExempt
<1>6. ASSUME NEW q \in Pools
      PROVE  /\ Salvaged(q)' => /\ RemainingLamports(q)' >= 0
                                /\ lpVault'[q] >= RENT + RemainingLamports(q)'
             /\ ~Salvaged(q)' => RentExempt(lpVault'[q])
  <2>1. CASE q = p
    <3>1. registry'[p] = SealedRegistry(s, split)
        BY <1>4 DEF TypeOK
    <3>2. RemainingLamports(p)' = split.lp
        BY <1>3, <3>1 DEF RemainingLamports, SealedRegistry
    <3>3. lpVault'[p] = LazyInit(lpVault[p]) + split.lp
        BY <1>4 DEF TypeOK
    <3>4. Salvaged(p)'
      <4>1. SealedRegistry(s, split) \in PoolRegistry
          BY <1>3, ParameterAssumption
             DEF SealedRegistry, PoolRegistry, SalvagePoolParams
      <4> QED
          BY <3>1, <4>1, NoneAssumption DEF Salvaged
    <3> QED
        BY <1>3, <1>5, <2>1, <3>2, <3>3, <3>4, BoundAssumption
  <2>2. CASE q # p
    <3>1. registry'[q] = registry[q] /\ lpVault'[q] = lpVault[q]
        BY <1>4, <2>2 DEF TypeOK
    <3> QED
        BY <3>1 DEF LpBucketSolvent, Salvaged, RemainingLamports
  <2> QED
      BY <2>1, <2>2
<1> QED
    BY <1>6 DEF LpBucketSolvent

\* A claim lowers vault and remainder by the same amount, never below zero.
LEMMA ClaimBucket ==
    ASSUME TypeOK, LpBucketSolvent,
           NEW p \in Pools, NEW h \in Holders, Claim(p, h)
    PROVE  LpBucketSolvent'
<1>1. PICK balance \in Nat :
             LET amount == ClaimAmount(p, balance) IN
             /\ registry[p] \in PoolRegistry
             /\ amount \in Nat
             /\ ClaimAccepted(p, h, balance)
             /\ registry' = [registry EXCEPT ![p] =
                    [registry[p] EXCEPT !.lp_holder_pool_claimed_lamports =
                        registry[p].lp_holder_pool_claimed_lamports + amount]]
             /\ lpVault' = [lpVault EXCEPT ![p] = lpVault[p] - amount]
    BY ClaimEffect
<1> DEFINE amount == ClaimAmount(p, balance)
           total == registry[p].lp_holder_pool_total_lamports
           claimed == registry[p].lp_holder_pool_claimed_lamports
<1>2. /\ amount \in Nat
      /\ claimed + amount <= total
      /\ Salvaged(p)
      /\ lpVault' = [lpVault EXCEPT ![p] = lpVault[p] - amount]
    BY <1>1 DEF ClaimAccepted
<1>3. total \in Nat /\ claimed \in Nat /\ lpVault[p] \in Nat
    BY <1>1 DEF PoolRegistry, TypeOK
<1>4. registry'[p] = [registry[p] EXCEPT !.lp_holder_pool_claimed_lamports =
                          claimed + amount]
    BY <1>1 DEF TypeOK
<1>5. /\ registry'[p].lp_holder_pool_total_lamports = total
      /\ registry'[p].lp_holder_pool_claimed_lamports = claimed + amount
    BY <1>1, <1>4 DEF PoolRegistry
<1>6. \A q \in Pools : q # p =>
          registry'[q] = registry[q] /\ lpVault'[q] = lpVault[q]
    BY <1>1, <1>2 DEF TypeOK
<1>7. lpVault'[p] = lpVault[p] - amount
    BY <1>2 DEF TypeOK
<1>8. lpVault[p] >= RENT + (total - claimed)
    BY <1>2 DEF LpBucketSolvent, RemainingLamports
<1>9. Salvaged(p)'
  <2>1. registry'[p] \in PoolRegistry
    <3>1. claimed + amount \in Nat
        BY <1>2, <1>3
    <3>2. registry[p] \in PoolRegistry
        BY <1>1
    <3> HIDE DEF claimed, amount
    <3> QED
        BY <1>4, <3>1, <3>2 DEF PoolRegistry
  <2> QED
      BY <2>1, NoneAssumption DEF Salvaged
<1> HIDE DEF amount, total, claimed
<1>10. ASSUME NEW q \in Pools
       PROVE  /\ Salvaged(q)' => /\ RemainingLamports(q)' >= 0
                                 /\ lpVault'[q] >= RENT + RemainingLamports(q)'
              /\ ~Salvaged(q)' => RentExempt(lpVault'[q])
  <2>1. CASE q = p
    <3>1. RemainingLamports(p)' = total - (claimed + amount)
        BY <1>5 DEF RemainingLamports
    <3> QED
        BY <1>2, <1>3, <1>7, <1>8, <1>9, <2>1, <3>1, BoundAssumption
  <2>2. CASE q # p
      BY <1>6, <2>2 DEF LpBucketSolvent, Salvaged, RemainingLamports
  <2> QED
      BY <2>1, <2>2
<1> QED
    BY <1>10 DEF LpBucketSolvent

\* A gift only adds lamports.
LEMMA GiftBucket ==
    ASSUME TypeOK, LpBucketSolvent,
           NEW p \in Pools, NEW n \in GiftAmounts, GiftToLpVault(p, n)
    PROVE  LpBucketSolvent'
<1>1. n \in Nat
    BY ParameterAssumption
<1>2. /\ registry' = registry
      /\ lpVault' = [lpVault EXCEPT ![p] = lpVault[p] + n]
      /\ RentExempt(lpVault'[p])
    BY DEF GiftToLpVault
<1>3. ASSUME NEW q \in Pools
      PROVE  /\ Salvaged(q)' => /\ RemainingLamports(q)' >= 0
                                /\ lpVault'[q] >= RENT + RemainingLamports(q)'
             /\ ~Salvaged(q)' => RentExempt(lpVault'[q])
  <2>1. Salvaged(q)' = Salvaged(q)
      BY <1>2 DEF Salvaged
  <2>2. RemainingLamports(q)' = RemainingLamports(q)
      BY <1>2 DEF RemainingLamports
  <2>3. Salvaged(q) => RemainingLamports(q) \in Int
    <3>1. Salvaged(q) => registry[q] \in PoolRegistry
        BY DEF TypeOK, Salvaged
    <3> QED
        BY <3>1 DEF PoolRegistry, RemainingLamports
  <2>4. lpVault[q] \in Nat /\ lpVault'[q] = (IF q = p THEN lpVault[q] + n ELSE lpVault[q])
      BY <1>2 DEF TypeOK
  <2>5. CASE Salvaged(q)
    <3>1. /\ RemainingLamports(q) >= 0
          /\ lpVault[q] >= RENT + RemainingLamports(q)
        BY <2>5 DEF LpBucketSolvent
    <3> QED
        BY <1>1, <2>1, <2>2, <2>3, <2>4, <2>5, <3>1, BoundAssumption
  <2>6. CASE ~Salvaged(q)
    <3>1. RentExempt(lpVault[q])
        BY <2>6 DEF LpBucketSolvent
    <3> QED
        BY <1>2, <2>1, <2>4, <2>6, <3>1
  <2> QED
      BY <2>5, <2>6
<1> QED
    BY <1>3 DEF LpBucketSolvent

LEMMA NextBucket == TypeOK /\ LpBucketSolvent /\ [Next]_vars => LpBucketSolvent'
<1> SUFFICES ASSUME TypeOK, LpBucketSolvent, [Next]_vars PROVE LpBucketSolvent'
    OBVIOUS
<1>1. CASE Salvage
    BY <1>1, SalvageBucket DEF Salvage
<1>2. ASSUME NEW p \in Pools, NEW h \in Holders, Claim(p, h)
      PROVE  LpBucketSolvent'
    BY <1>2, ClaimBucket
<1>3. ASSUME NEW p \in Pools, NEW n \in GiftAmounts, GiftToLpVault(p, n)
      PROVE  LpBucketSolvent'
    BY <1>3, GiftBucket
<1>4. CASE \/ \E i \in InitParams : Initialize(i)
           \/ \E u \in ConfigUpdates : UpdateProtocolConfig(u)
           \/ \E b \in BOOLEAN : EmergencyPause(b)
    BY <1>4, BucketFrame DEF Initialize, UpdateProtocolConfig, EmergencyPause
<1>5. CASE \E p \in Pools : SweepDust(p)
    BY <1>5, BucketFrame DEF SweepDust, SweepAccepted
<1>6. CASE EnvNext
    BY <1>6, BucketFrame
       DEF EnvNext, Tick, ScannerIssuesCert, LpSupplyMoves, programVars
<1>7. CASE \/ \E p \in Pools, n \in GiftAmounts : GiftToSolHolding(p, n)
           \/ \E n \in GiftAmounts : GiftToTreasury(n)
           \/ \E n \in GiftAmounts : GiftWsol(n)
    BY <1>7, BucketFrame DEF GiftToSolHolding, GiftToTreasury, GiftWsol
<1>8. CASE UNCHANGED vars
    BY <1>8, BucketFrame DEF vars, programVars
<1> QED
    BY <1>1, <1>2, <1>3, <1>4, <1>5, <1>6, <1>7, <1>8
       DEF Next, ProgramNext, GiftNext

LEMMA InitBucket == Init => LpBucketSolvent
<1> SUFFICES ASSUME Init PROVE LpBucketSolvent
    OBVIOUS
<1>1. \A p \in Pools : registry[p] = None /\ lpVault[p] = 0
    BY DEF Init
<1> QED
    BY <1>1 DEF LpBucketSolvent, Salvaged, RentExempt

(***************************************************************************)
(* The bucket of every salvaged pool is solvent, for any number of         *)
(* holders, any snapshot and any order of claims.                          *)
(***************************************************************************)
THEOREM BucketAlwaysSolvent == Spec => []LpBucketSolvent
    BY InitType, NextType, InitBucket, NextBucket, PTL DEF Spec

-----------------------------------------------------------------------------
(***************************************************************************)
(* What the receipt of a settlement promises.                              *)
(***************************************************************************)

\* Nothing a settlement recorded has changed for any pool.
RecordsKept ==
    /\ audit' = audit
    /\ \A p \in Pools :
          /\ Salvaged(p)' = Salvaged(p)
          /\ Salvaged(p) => registry'[p].lp_total_supply_at_snapshot
                                = registry[p].lp_total_supply_at_snapshot
          /\ receipt'[p].total_proceeds_lamports = receipt[p].total_proceeds_lamports
          /\ receipt'[p].protocol_amount_lamports = receipt[p].protocol_amount_lamports

\* Only a salvage writes the records of a settlement.
LEMMA OtherStepsKeepRecords ==
    ASSUME TypeOK, [Next]_vars, ~Salvage
    PROVE  RecordsKept
<1>1. ASSUME UNCHANGED <<registry, receipt, audit>> PROVE RecordsKept
    BY <1>1 DEF RecordsKept, Salvaged
<1>2. ASSUME NEW p \in Pools, NEW h \in Holders, Claim(p, h)
      PROVE  RecordsKept
  <2>1. PICK balance \in Nat :
             LET amount == ClaimAmount(p, balance) IN
             /\ registry[p] \in PoolRegistry
             /\ amount \in Nat
             /\ registry' = [registry EXCEPT ![p] =
                    [registry[p] EXCEPT !.lp_holder_pool_claimed_lamports =
                        registry[p].lp_holder_pool_claimed_lamports + amount]]
             /\ UNCHANGED <<receipt, audit>>
      BY <1>2, ClaimEffect
  <2> DEFINE sum == registry[p].lp_holder_pool_claimed_lamports
                        + ClaimAmount(p, balance)
  <2>2. sum \in Nat
      BY <2>1 DEF PoolRegistry
  <2>3. registry' = [registry EXCEPT ![p] =
            [registry[p] EXCEPT !.lp_holder_pool_claimed_lamports = sum]]
      BY <2>1
  <2> HIDE DEF sum
  <2>4. registry'[p] \in PoolRegistry
        /\ registry'[p].lp_total_supply_at_snapshot
               = registry[p].lp_total_supply_at_snapshot
    <3>1. registry'[p] = [registry[p] EXCEPT !.lp_holder_pool_claimed_lamports = sum]
        BY <2>3 DEF TypeOK
    <3>2. registry[p] \in PoolRegistry
        BY <2>1
    <3> QED
        BY <2>2, <3>1, <3>2 DEF PoolRegistry
  <2>5. \A q \in Pools : q # p => registry'[q] = registry[q]
      BY <2>3 DEF TypeOK
  <2>6. registry[p] # None /\ registry'[p] # None
      BY <2>1, <2>4, NoneAssumption
  <2> QED
      BY <2>1, <2>4, <2>5, <2>6 DEF RecordsKept, Salvaged
<1>3. ASSUME NEW p \in Pools, SweepDust(p) PROVE RecordsKept
  <2>1. receipt[p] \in SalvageReceipt
      BY <1>3 DEF TypeOK, SweepDust, SweepAccepted
  <2>2. /\ receipt' = [receipt EXCEPT ![p] =
                [receipt[p] EXCEPT !.dust_swept_at_ts = now]]
        /\ UNCHANGED <<registry, audit>>
      BY <1>3 DEF SweepDust, SweepAccepted
  <2>3. /\ receipt'[p].total_proceeds_lamports = receipt[p].total_proceeds_lamports
        /\ receipt'[p].protocol_amount_lamports = receipt[p].protocol_amount_lamports
      BY <2>1, <2>2 DEF SalvageReceipt, TypeOK
  <2>4. \A q \in Pools : q # p => receipt'[q] = receipt[q]
      BY <2>2 DEF TypeOK
  <2> QED
      BY <2>2, <2>3, <2>4 DEF RecordsKept, Salvaged
<1>4. CASE \/ \E i \in InitParams : Initialize(i)
           \/ \E u \in ConfigUpdates : UpdateProtocolConfig(u)
           \/ \E b \in BOOLEAN : EmergencyPause(b)
    BY <1>1, <1>4 DEF Initialize, UpdateProtocolConfig, EmergencyPause
<1>5. CASE EnvNext
    BY <1>1, <1>5
       DEF EnvNext, Tick, ScannerIssuesCert, LpSupplyMoves, programVars
<1>6. CASE GiftNext
    BY <1>1, <1>6
       DEF GiftNext, GiftToLpVault, GiftToSolHolding, GiftToTreasury, GiftWsol
<1>7. CASE UNCHANGED vars
    BY <1>1, <1>7 DEF vars, programVars
<1> QED
    BY <1>2, <1>3, <1>4, <1>5, <1>6, <1>7 DEF Next, ProgramNext

(***************************************************************************)
(* What a salvage records for its pool; the other pools keep theirs.       *)
(***************************************************************************)
LEMMA SalvageRecords ==
    ASSUME TypeOK,
           NEW p \in Pools, NEW s \in Submissions, NEW a \in AmmOutcomes,
           SalvagePool(p, s, a)
    PROVE  /\ registry'[p].lp_total_supply_at_snapshot \in Nat \ {0}
           /\ receipt'[p].total_proceeds_lamports \in Nat
           /\ receipt'[p].protocol_amount_lamports \in Nat
           /\ BPS_DENOMINATOR * receipt'[p].protocol_amount_lamports
                  < PROTOCOL_SHARE_BPS_CEILING * receipt'[p].total_proceeds_lamports
                    + 2 * BPS_DENOMINATOR
           /\ audit'[p].swapped =>
                  receipt'[p].total_proceeds_lamports >=
                      audit'[p].base
                      + MinSwapFloor(audit'[p].implied, HARD_MAX_SLIPPAGE_BPS)
           /\ \A q \in Pools : q # p =>
                  /\ registry'[q] = registry[q]
                  /\ receipt'[q] = receipt[q]
                  /\ audit'[q] = audit[q]
<1>1. PICK r \in SwapLeg(p, s, a) : Settle(p, s, a, r)
    BY DEF SalvagePool
<1> DEFINE total == TotalRecovered(p, a, r)
           split == SettlementSplit(total)
<1>2. config # None /\ config \in ProtocolConfig
    BY DEF SalvagePool, Preflight, TypeOK
<1>3. /\ SharesSumToWhole(config)
      /\ config.protocol_share_bps <= PROTOCOL_SHARE_BPS_CEILING
    BY <1>1 DEF Settle
<1>4. total \in Nat /\ split.protocol \in Nat
    BY <1>2, <1>3, SettleAmounts
<1>5. /\ registry' = [registry EXCEPT ![p] = SealedRegistry(s, split)]
      /\ \E dust : receipt' = [receipt EXCEPT ![p] =
             IssuedReceipt(total, split, PoolMemecoinMint(p), dust)]
      /\ audit' = [audit EXCEPT ![p] =
               [base |-> RemovedBase(p, a),
                swapped |-> Swaps(p, a),
                implied |-> IF Swaps(p, a) THEN Implied(p, a) ELSE 0,
                out |-> r.out, donated |-> wsolAta]]
    BY <1>1 DEF Settle
<1>6. s \in SalvagePoolParams
    BY ParameterAssumption
<1>7. BPS_DENOMINATOR * split.protocol
          < PROTOCOL_SHARE_BPS_CEILING * total + 2 * BPS_DENOMINATOR
  <2>1. /\ config.salvor_share_bps \in Nat
        /\ config.lp_holder_share_bps \in Nat
        /\ config.protocol_share_bps \in Nat
      BY <1>2 DEF ProtocolConfig
  <2>2. config.salvor_share_bps + config.lp_holder_share_bps
            + config.protocol_share_bps = BPS_DENOMINATOR
      BY <1>3, <2>1 DEF SharesSumToWhole, BPS_DENOMINATOR
  <2> HIDE DEF total
  <2> QED
      BY <1>3, <1>4, <2>1, <2>2, RemainderWithinCeiling DEF SettlementSplit
<1>8. Swaps(p, a) => total >= RemovedBase(p, a)
                                  + MinSwapFloor(Implied(p, a), HARD_MAX_SLIPPAGE_BPS)
  <2> SUFFICES ASSUME Swaps(p, a)
               PROVE  total >= RemovedBase(p, a)
                               + MinSwapFloor(Implied(p, a), HARD_MAX_SLIPPAGE_BPS)
      OBVIOUS
  <2>1. JupiterSwap(p, s, a, r)
      BY <1>2, SwapLegType
  <2>2. Implied(p, a) \in Nat
    <3>1. MemecoinReserve(p, a) \in Nat \ {0}
        BY <2>1, OutcomeType DEF JupiterSwap, FloorTightEnough
    <3> QED
        BY <3>1, OutcomeType, ImpliedType DEF Implied
  <2>3. config.max_slippage_bps \in Nat /\ Override(s) \in Nat
      BY <1>2, <1>6 DEF ProtocolConfig, Override, Given, SalvagePoolParams,
                        BPS_DENOMINATOR
  <2>4. /\ MinSwapFloor(Implied(p, a), SlippageCap(s)) \in Nat
        /\ MinSwapFloor(Implied(p, a), HARD_MAX_SLIPPAGE_BPS) \in Nat
        /\ MinSwapFloor(Implied(p, a), SlippageCap(s))
               >= MinSwapFloor(Implied(p, a), HARD_MAX_SLIPPAGE_BPS)
      BY <2>2, <2>3, FloorAtLeastHardFloor DEF SlippageCap
  <2>5. /\ s.min_quote_output_lamports
               >= MinSwapFloor(Implied(p, a), SlippageCap(s))
        /\ wsolAta + r.out >= s.min_quote_output_lamports
        /\ s.min_quote_output_lamports \in Nat
      BY <1>6, <2>1 DEF JupiterSwap, FloorTightEnough, SalvagePoolParams
  <2>6. RemovedBase(p, a) \in Nat /\ wsolAta \in Nat /\ r.out \in Nat
      BY <1>2, OutcomeType, SwapLegType DEF TypeOK
  <2> QED
      BY <2>4, <2>5, <2>6 DEF TotalRecovered
<1>9. s.lp_total_supply_at_snapshot \in Nat \ {0}
  <2>1. /\ s.salvor_lp_amount \in Nat
        /\ s.lp_total_supply_at_snapshot \in Nat
      BY <1>6 DEF SalvagePoolParams
  <2>2. /\ lpSupply[p] = s.lp_total_supply_at_snapshot
        /\ s.salvor_lp_amount > 0
        /\ s.salvor_lp_amount <= lpSupply[p]
      BY DEF SalvagePool, SubmissionMatches, RemoveLiquidity
  <2> QED
      BY <2>1, <2>2
<1> HIDE DEF total, split
<1>10. /\ registry'[p] = SealedRegistry(s, split)
       /\ \E dust : receipt'[p] = IssuedReceipt(total, split, PoolMemecoinMint(p), dust)
       /\ audit'[p].base = RemovedBase(p, a)
       /\ audit'[p].swapped = Swaps(p, a)
       /\ Swaps(p, a) => audit'[p].implied = Implied(p, a)
    BY <1>5 DEF TypeOK
<1>11. \A q \in Pools : q # p =>
           /\ registry'[q] = registry[q]
           /\ receipt'[q] = receipt[q]
           /\ audit'[q] = audit[q]
    BY <1>5 DEF TypeOK
<1>12. /\ receipt'[p].total_proceeds_lamports = total
       /\ receipt'[p].protocol_amount_lamports = split.protocol
    BY <1>10 DEF IssuedReceipt
<1>13. registry'[p].lp_total_supply_at_snapshot = s.lp_total_supply_at_snapshot
    BY <1>10 DEF SealedRegistry
<1> QED
    BY <1>4, <1>7, <1>8, <1>9, <1>10, <1>11, <1>12, <1>13

\* The three promises of a settlement, together.
SettlementPromises == SealedSupplyPositive /\ ProtocolWithinCeiling /\ ProceedsFloor

LEMMA NextPromises ==
    TypeOK /\ SettlementPromises /\ [Next]_vars => SettlementPromises'
<1> SUFFICES ASSUME TypeOK, SettlementPromises, [Next]_vars
             PROVE  SettlementPromises'
    OBVIOUS
<1> USE DEF SettlementPromises, SealedSupplyPositive, ProtocolWithinCeiling,
            ProceedsFloor
<1>1. CASE ~Salvage
  <2>1. RecordsKept
      BY <1>1, OtherStepsKeepRecords
  <2> QED
      BY <2>1 DEF RecordsKept
<1>2. CASE Salvage
  <2>1. PICK p \in Pools, s \in Submissions, a \in AmmOutcomes : SalvagePool(p, s, a)
      BY <1>2 DEF Salvage
  <2> QED
      BY <2>1, SalvageRecords DEF Salvaged
<1> QED
    BY <1>1, <1>2

LEMMA InitPromises == Init => SettlementPromises
BY DEF Init, SettlementPromises, SealedSupplyPositive, ProtocolWithinCeiling,
       ProceedsFloor, Salvaged

(***************************************************************************)
(* The claim denominator of a settled pool is never zero.                  *)
(***************************************************************************)
THEOREM SupplyAlwaysPositive == Spec => []SealedSupplyPositive
<1>1. SettlementPromises => SealedSupplyPositive
    BY DEF SettlementPromises
<1> QED
    BY <1>1, InitType, NextType, InitPromises, NextPromises, PTL DEF Spec

(***************************************************************************)
(* The protocol takes at most its ceiling of every settlement, up to two   *)
(* lamports of rounding.                                                   *)
(***************************************************************************)
THEOREM CeilingHolds == Spec => []ProtocolWithinCeiling
<1>1. SettlementPromises => ProtocolWithinCeiling
    BY DEF SettlementPromises
<1> QED
    BY <1>1, InitType, NextType, InitPromises, NextPromises, PTL DEF Spec

(***************************************************************************)
(* No settlement with a swap leg loses more than the hard ceiling against  *)
(* the price of the pool's own reserves.                                   *)
(***************************************************************************)
THEOREM FloorHolds == Spec => []ProceedsFloor
<1>1. SettlementPromises => ProceedsFloor
    BY DEF SettlementPromises
<1> QED
    BY <1>1, InitType, NextType, InitPromises, NextPromises, PTL DEF Spec

-----------------------------------------------------------------------------
(***************************************************************************)
(* A settlement is final, and the LP-holder vault is unsweepable.          *)
(***************************************************************************)

\* A salvage needs fresh accounts, so it rewrites no settled pool.
LEMMA SalvageStep ==
    ASSUME TypeOK,
           NEW p \in Pools, NEW s \in Submissions, NEW a \in AmmOutcomes,
           SalvagePool(p, s, a)
    PROVE  SettlementKept /\ DebitsAreClaims
<1>1. PICK r \in SwapLeg(p, s, a) : Settle(p, s, a, r)
    BY DEF SalvagePool
<1> DEFINE split == SettlementSplit(TotalRecovered(p, a, r))
<1>2. /\ config # None
      /\ registry[p] = None
      /\ claimRecord' = claimRecord
    BY DEF SalvagePool, Preflight
<1>3. split.lp \in Nat
    BY <1>1, <1>2, SettleAmounts DEF Settle
<1>4. lpVault' = [lpVault EXCEPT ![p] = LazyInit(lpVault[p]) + split.lp]
    BY <1>1 DEF Settle
<1> HIDE DEF split
<1>5. \A q \in Pools : q # p => registry'[q] = registry[q] /\ receipt'[q] = receipt[q]
    BY SalvageRecords
<1>6. ASSUME NEW q \in Pools PROVE ~(lpVault'[q] < lpVault[q])
  <2>1. lpVault[q] \in Nat /\ lpVault[p] \in Nat
      BY DEF TypeOK
  <2>2. lpVault'[q] = IF q = p THEN LazyInit(lpVault[p]) + split.lp ELSE lpVault[q]
      BY <1>4 DEF TypeOK
  <2>3. LazyInit(lpVault[p]) \in Nat /\ LazyInit(lpVault[p]) >= lpVault[p]
      BY <2>1, BoundAssumption DEF LazyInit
  <2> QED
      BY <1>3, <2>1, <2>2, <2>3
<1>7. ASSUME NEW q \in Pools, Salvaged(q)
      PROVE  /\ registry'[q] = registry[q]
             /\ receipt'[q] = receipt[q]
             /\ registry[q].lp_holder_pool_claimed_lamports \in Nat
  <2>1. registry[q] \in PoolRegistry /\ q # p
      BY <1>2, <1>7 DEF Salvaged, TypeOK
  <2> QED
      BY <1>5, <2>1 DEF PoolRegistry
<1> QED
    BY <1>2, <1>6, <1>7 DEF SettlementKept, DebitsAreClaims, Salvaged

\* A claim keeps the sealed fields and pays a leaf that had no record.
LEMMA ClaimStep ==
    ASSUME TypeOK, NEW p \in Pools, NEW h \in Holders, Claim(p, h)
    PROVE  SettlementKept /\ DebitsAreClaims
<1>1. PICK balance \in Nat :
             LET amount == ClaimAmount(p, balance) IN
             /\ registry[p] \in PoolRegistry
             /\ amount \in Nat
             /\ ClaimAccepted(p, h, balance)
             /\ registry' = [registry EXCEPT ![p] =
                    [registry[p] EXCEPT !.lp_holder_pool_claimed_lamports =
                        registry[p].lp_holder_pool_claimed_lamports + amount]]
             /\ lpVault' = [lpVault EXCEPT ![p] = lpVault[p] - amount]
             /\ claimRecord' = [claimRecord EXCEPT ![p] =
                    [claimRecord[p] EXCEPT ![h] =
                        [amount_lamports |-> amount,
                         lp_balance_at_snapshot |-> balance]]]
             /\ UNCHANGED receipt
    BY ClaimEffect
<1> DEFINE amount == ClaimAmount(p, balance)
           claimed == registry[p].lp_holder_pool_claimed_lamports
           record == [amount_lamports |-> amount, lp_balance_at_snapshot |-> balance]
<1>2. /\ registry[p] \in PoolRegistry
      /\ amount \in Nat
      /\ claimed \in Nat
      /\ claimed + amount \in Nat
    BY <1>1 DEF PoolRegistry
<1>3. /\ claimRecord[p][h] = None
      /\ <<h, balance>> \in registry[p].lp_snapshot_merkle_root
    BY <1>1 DEF ClaimAccepted, VerifyProof
<1>4. registry' = [registry EXCEPT ![p] =
          [registry[p] EXCEPT !.lp_holder_pool_claimed_lamports = claimed + amount]]
    BY <1>1
<1>5. lpVault' = [lpVault EXCEPT ![p] = lpVault[p] - amount] /\ receipt' = receipt
    BY <1>1
<1>6. claimRecord' = [claimRecord EXCEPT ![p] = [claimRecord[p] EXCEPT ![h] = record]]
    BY <1>1
<1> HIDE DEF amount, claimed, record
<1>7. ASSUME NEW q \in Pools, Salvaged(q)
      PROVE  /\ Salvaged(q)'
             /\ Sealed(registry'[q]) = Sealed(registry[q])
             /\ registry'[q].lp_holder_pool_claimed_lamports
                    >= registry[q].lp_holder_pool_claimed_lamports
  <2>1. registry[q] \in PoolRegistry
      BY <1>7 DEF Salvaged, TypeOK
  <2>2. CASE q = p
    <3>1. registry'[p] = [registry[p] EXCEPT
              !.lp_holder_pool_claimed_lamports = claimed + amount]
        BY <1>4 DEF TypeOK
    <3>2. /\ registry'[p] \in PoolRegistry
          /\ registry'[p].lp_snapshot_merkle_root
                 = registry[p].lp_snapshot_merkle_root
          /\ registry'[p].lp_total_supply_at_snapshot
                 = registry[p].lp_total_supply_at_snapshot
          /\ registry'[p].lp_holder_pool_total_lamports
                 = registry[p].lp_holder_pool_total_lamports
          /\ registry'[p].lp_holder_pool_claimed_lamports = claimed + amount
        BY <1>2, <3>1 DEF PoolRegistry
    <3>3. registry'[p].lp_holder_pool_claimed_lamports
              >= registry[p].lp_holder_pool_claimed_lamports
        BY <1>2, <3>2 DEF claimed
    <3> QED
        BY <2>2, <3>2, <3>3, NoneAssumption DEF Salvaged, Sealed
  <2>3. CASE q # p
    <3>1. registry'[q] = registry[q]
        BY <1>4, <2>3 DEF TypeOK
    <3>2. registry[q].lp_holder_pool_claimed_lamports \in Nat
        BY <2>1 DEF PoolRegistry
    <3> QED
        BY <1>7, <3>1, <3>2 DEF Salvaged
  <2> QED
      BY <2>2, <2>3
<1>8. \A q \in Pools, k \in Holders :
          claimRecord[q][k] # None => claimRecord'[q][k] = claimRecord[q][k]
    BY <1>3, <1>6 DEF TypeOK
<1>9. SettlementKept
    BY <1>5, <1>7, <1>8 DEF SettlementKept
<1>10. ASSUME NEW q \in Pools, lpVault'[q] < lpVault[q]
       PROVE  \E l \in registry[q].lp_snapshot_merkle_root :
                  /\ claimRecord[q][l[1]] = None
                  /\ claimRecord'[q][l[1]] =
                         [amount_lamports |-> lpVault[q] - lpVault'[q],
                          lp_balance_at_snapshot |-> l[2]]
  <2>1. q = p
    <3>1. lpVault[q] \in Nat
        BY DEF TypeOK
    <3> SUFFICES ASSUME q # p PROVE FALSE
        OBVIOUS
    <3>2. lpVault'[q] = lpVault[q]
        BY <1>5 DEF TypeOK
    <3> QED
        BY <1>10, <3>1, <3>2
  <2>2. lpVault[p] - lpVault'[p] = amount
    <3>1. lpVault[p] \in Nat /\ lpVault'[p] = lpVault[p] - amount
        BY <1>5 DEF TypeOK
    <3> QED
        BY <1>2, <3>1
  <2>3. claimRecord'[p][h] = record
      BY <1>6 DEF TypeOK
  <2>4. <<h, balance>>[1] = h /\ <<h, balance>>[2] = balance
      OBVIOUS
  <2>5. <<h, balance>> \in registry[q].lp_snapshot_merkle_root
      BY <1>3, <2>1
  <2> QED
      BY <1>3, <2>1, <2>2, <2>3, <2>4, <2>5 DEF record
<1> QED
    BY <1>9, <1>10 DEF DebitsAreClaims

\* Every step keeps the settlements and debits the vaults for claims only.
LEMMA NextStep == TypeOK /\ [Next]_vars => SettlementKept /\ DebitsAreClaims
<1> SUFFICES ASSUME TypeOK, [Next]_vars PROVE SettlementKept /\ DebitsAreClaims
    OBVIOUS
<1>1. ASSUME UNCHANGED <<registry, receipt, claimRecord>>,
             \A p \in Pools : lpVault'[p] >= lpVault[p]
      PROVE  SettlementKept /\ DebitsAreClaims
  <2>1. ASSUME NEW p \in Pools, Salvaged(p)
        PROVE  registry[p].lp_holder_pool_claimed_lamports \in Nat
    <3>1. registry[p] \in PoolRegistry
        BY <2>1 DEF Salvaged, TypeOK
    <3> QED
        BY <3>1 DEF PoolRegistry
  <2>2. SettlementKept
      BY <1>1, <2>1 DEF SettlementKept, Salvaged
  <2>3. ASSUME NEW p \in Pools PROVE ~(lpVault'[p] < lpVault[p])
    <3>1. lpVault[p] \in Nat /\ lpVault'[p] \in Nat
        BY NextType DEF TypeOK
    <3> QED
        BY <1>1, <3>1
  <2> QED
      BY <2>2, <2>3 DEF DebitsAreClaims
<1>2. ASSUME UNCHANGED lpVault PROVE \A p \in Pools : lpVault'[p] >= lpVault[p]
    BY <1>2 DEF TypeOK
<1>3. CASE Salvage
    BY <1>3, SalvageStep DEF Salvage
<1>4. ASSUME NEW p \in Pools, NEW h \in Holders, Claim(p, h)
      PROVE  SettlementKept /\ DebitsAreClaims
    BY <1>4, ClaimStep
<1>5. ASSUME NEW p \in Pools, SweepDust(p)
      PROVE  SettlementKept /\ DebitsAreClaims
  <2>1. /\ UNCHANGED <<registry, claimRecord, lpVault>>
        /\ receipt[p].dust_swept_at_ts = 0
        /\ receipt' = [receipt EXCEPT ![p] =
               [receipt[p] EXCEPT !.dust_swept_at_ts = now]]
      BY <1>5 DEF SweepDust, SweepAccepted
  <2>2. \A q \in Pools :
            \/ receipt'[q] = receipt[q]
            \/ /\ receipt[q].dust_swept_at_ts = 0
               /\ receipt'[q] = [receipt[q] EXCEPT !.dust_swept_at_ts = now]
      BY <2>1 DEF TypeOK
  <2>3. ASSUME NEW q \in Pools, Salvaged(q)
        PROVE  registry[q].lp_holder_pool_claimed_lamports \in Nat
    <3>1. registry[q] \in PoolRegistry
        BY <2>3 DEF Salvaged, TypeOK
    <3> QED
        BY <3>1 DEF PoolRegistry
  <2>4. SettlementKept
      BY <2>1, <2>2, <2>3 DEF SettlementKept, Salvaged
  <2>5. \A q \in Pools : lpVault[q] \in Nat
      BY DEF TypeOK
  <2> QED
      BY <2>1, <2>4, <2>5 DEF DebitsAreClaims
<1>6. CASE \/ \E i \in InitParams : Initialize(i)
           \/ \E u \in ConfigUpdates : UpdateProtocolConfig(u)
           \/ \E b \in BOOLEAN : EmergencyPause(b)
    BY <1>1, <1>2, <1>6 DEF Initialize, UpdateProtocolConfig, EmergencyPause
<1>7. CASE EnvNext
    BY <1>1, <1>2, <1>7
       DEF EnvNext, Tick, ScannerIssuesCert, LpSupplyMoves, programVars
<1>8. CASE \/ \E p \in Pools, n \in GiftAmounts : GiftToSolHolding(p, n)
           \/ \E n \in GiftAmounts : GiftToTreasury(n)
           \/ \E n \in GiftAmounts : GiftWsol(n)
    BY <1>1, <1>2, <1>8 DEF GiftToSolHolding, GiftToTreasury, GiftWsol
<1>9. ASSUME NEW p \in Pools, NEW n \in GiftAmounts, GiftToLpVault(p, n)
      PROVE  SettlementKept /\ DebitsAreClaims
  <2>1. n \in Nat
      BY ParameterAssumption
  <2>2. /\ UNCHANGED <<registry, receipt, claimRecord>>
        /\ lpVault' = [lpVault EXCEPT ![p] = lpVault[p] + n]
      BY <1>9 DEF GiftToLpVault
  <2>3. \A q \in Pools : lpVault'[q] >= lpVault[q]
      BY <2>1, <2>2 DEF TypeOK
  <2> QED
      BY <1>1, <2>2, <2>3
<1>10. CASE UNCHANGED vars
    BY <1>1, <1>2, <1>10 DEF vars, programVars
<1> QED
    BY <1>3, <1>4, <1>5, <1>6, <1>7, <1>8, <1>9, <1>10
       DEF Next, ProgramNext, GiftNext

(***************************************************************************)
(* Settlements are final: the seal, the receipt's amounts and the claim    *)
(* records survive every later step of anybody.                            *)
(***************************************************************************)
THEOREM SettlementsAreFinal == Spec => SettlementFinal
<1>1. TypeOK /\ [Next]_vars => [SettlementKept]_vars
    BY NextStep
<1> QED
    BY <1>1, TypeCorrect, PTL DEF Spec, SettlementFinal

(***************************************************************************)
(* No step but a fresh claim of a sealed leaf takes lamports out of an     *)
(* LP-holder vault.                                                        *)
(***************************************************************************)
THEOREM VaultsAreUnsweepable == Spec => LpVaultUnsweepable
<1>1. TypeOK /\ [Next]_vars => [DebitsAreClaims]_vars
    BY NextStep
<1> QED
    BY <1>1, TypeCorrect, PTL DEF Spec, LpVaultUnsweepable


-----------------------------------------------------------------------------
(***************************************************************************)
(* The observer's share check.                                             *)
(***************************************************************************)

\* 40 and 20 per cent, rounded down, of an amount of five times q and r more.
LEMMA FifthsOf ==
    ASSUME NEW total \in Nat, NEW q \in Nat, NEW r \in 0..4, total = 5 * q + r
    PROVE  /\ BpsOf(total, 4000) = 2 * q + (IF r >= 3 THEN 1 ELSE 0)
           /\ BpsOf(total, 2000) = q
<1>1. /\ total * 4000 = 10000 * (2 * q) + 4000 * r
      /\ total * 2000 = 10000 * q + 2000 * r
    OBVIOUS
<1>2. (10000 * q + 2000 * r) \div 10000 = q
    OBVIOUS
<1>3. (10000 * (2 * q) + 4000 * r) \div 10000 = 2 * q + (IF r >= 3 THEN 1 ELSE 0)
    OBVIOUS
<1> QED
    BY <1>1, <1>2, <1>3 DEF BpsOf, BPS_DENOMINATOR

\* The protocol's leg is over by the two fifths that were rounded away.
LEMMA DefaultSplitChecked ==
    ASSUME NEW total \in Nat
    PROVE  LET split == SplitProceeds(total, 4000, 4000) IN
           (/\ Observer!shareMatches(split.lp, total, 4000)
            /\ Observer!shareMatches(split.salvor, total, 4000)
            /\ Observer!shareMatches(split.protocol, total, 2000))
                <=> total % 5 \notin {2, 4}
<1> DEFINE q == total \div 5
           r == total % 5
           most == BpsOf(total, 4000)
           least == BpsOf(total, 2000)
<1>1. q \in Nat /\ r \in 0..4 /\ total = 5 * q + r
    OBVIOUS
<1> HIDE DEF q, r
<1>2. most = 2 * q + (IF r >= 3 THEN 1 ELSE 0) /\ least = q
    BY <1>1, FifthsOf
<1>3. SplitProceeds(total, 4000, 4000)
          = [salvor |-> most, lp |-> most, protocol |-> total - most - most]
    BY DEF SplitProceeds
<1>4. \A amount \in Int :
          /\ Observer!shareMatches(amount, total, 4000) <=> amount - most \in -1 .. 1
          /\ Observer!shareMatches(amount, total, 2000) <=> amount - least \in -1 .. 1
    BY DEF Observer!shareMatches, BpsOf, BPS_DENOMINATOR
<1> HIDE DEF most, least
<1>5. most \in Nat /\ least \in Nat
    BY <1>1, <1>2
<1>6. /\ most - most \in -1 .. 1
      /\ total - most - most - least \in -1 .. 1 <=> r \notin {2, 4}
    BY <1>1, <1>2, <1>5
<1>7. total - most - most \in Int
    BY <1>5
<1>8. /\ Observer!shareMatches(most, total, 4000)
      /\ Observer!shareMatches(total - most - most, total, 2000) <=> r \notin {2, 4}
    BY <1>4, <1>5, <1>6, <1>7
<1> QED
    BY <1>3, <1>8 DEF r

\* A step issues no receipt or is a salvage under the shares of this moment.
LEMMA NextAlarm == TypeOK /\ [Next]_vars => AlarmExplained
<1> SUFFICES ASSUME TypeOK, [Next]_vars, NEW p \in Pools,
                    receipt[p] = None, receipt'[p] # None,
                    config.lp_holder_share_bps = DEFAULT_LP_HOLDER_SHARE_BPS,
                    config.salvor_share_bps = DEFAULT_SALVOR_SHARE_BPS
             PROVE  Observer!r2Shares(receipt'[p])
                        <=> receipt'[p].total_proceeds_lamports % 5 \notin {2, 4}
    BY DEF AlarmExplained
<1>1. PICK q \in Pools, s \in Submissions, a \in AmmOutcomes : SalvagePool(q, s, a)
  <2>1. CASE Salvage
      BY <2>1 DEF Salvage
  <2>2. ~UNCHANGED receipt
      OBVIOUS
  <2>3. ASSUME NEW q \in Pools, SweepDust(q) PROVE FALSE
    <3>1. receipt[q] # None /\ receipt' = [receipt EXCEPT ![q].dust_swept_at_ts = now]
        BY <2>3 DEF SweepDust, SweepAccepted
    <3> QED
        BY <3>1 DEF TypeOK
  <2>4. ASSUME NEW q \in Pools, NEW h \in Holders, Claim(q, h) PROVE FALSE
      BY <2>2, <2>4, ClaimEffect
  <2>5. CASE \/ \E i \in InitParams : Initialize(i)
             \/ \E u \in ConfigUpdates : UpdateProtocolConfig(u)
             \/ \E b \in BOOLEAN : EmergencyPause(b)
      BY <2>2, <2>5 DEF Initialize, UpdateProtocolConfig, EmergencyPause
  <2>6. CASE EnvNext
      BY <2>2, <2>6 DEF EnvNext, Tick, ScannerIssuesCert, LpSupplyMoves, programVars
  <2>7. CASE GiftNext
      BY <2>2, <2>7 DEF GiftNext, GiftToLpVault, GiftToSolHolding, GiftToTreasury, GiftWsol
  <2>8. CASE UNCHANGED vars
      BY <2>2, <2>8 DEF vars, programVars
  <2> QED
      BY <2>1, <2>3, <2>4, <2>5, <2>6, <2>7, <2>8 DEF Next, ProgramNext
<1>2. PICK r \in SwapLeg(q, s, a) : Settle(q, s, a, r)
    BY <1>1 DEF SalvagePool
<1> DEFINE total == TotalRecovered(q, a, r)
           split == SettlementSplit(total)
<1>3. config \in ProtocolConfig
    BY <1>1 DEF SalvagePool, Preflight, TypeOK
<1>4. total \in Nat
  <2>1. SharesSumToWhole(config)
      BY <1>2 DEF Settle
  <2> QED
      BY <1>1, <1>2, <1>3, <2>1, NoneAssumption, SettleAmounts
<1>5. PICK dust : receipt' = [receipt EXCEPT ![q] =
                      IssuedReceipt(total, split, PoolMemecoinMint(q), dust)]
    BY <1>2 DEF Settle
<1>6. split = SplitProceeds(total, 4000, 4000)
    BY DEF SettlementSplit, DEFAULT_LP_HOLDER_SHARE_BPS, DEFAULT_SALVOR_SHARE_BPS
<1> HIDE DEF total, split
<1>7. receipt'[p] = IssuedReceipt(total, split, PoolMemecoinMint(q), dust)
    BY <1>5 DEF TypeOK
<1>8. Observer!r2Shares(receipt'[p]) <=>
          /\ Observer!shareMatches(split.lp, total, 4000)
          /\ Observer!shareMatches(split.salvor, total, 4000)
          /\ Observer!shareMatches(split.protocol, total, 2000)
    BY <1>7 DEF IssuedReceipt, Observer!r2Shares, Observer!LP_HOLDER_SHARE_BPS,
                Observer!SALVOR_SHARE_BPS, Observer!PROTOCOL_SHARE_BPS
<1>9. receipt'[p].total_proceeds_lamports = total
    BY <1>7 DEF IssuedReceipt
<1> QED
    BY <1>4, <1>6, <1>8, <1>9, DefaultSplitChecked

(***************************************************************************)
(* For every total and whatever else has happened: a receipt settled under *)
(* the default shares fails the observer's R2 exactly when its total is 2  *)
(* or 4 modulo 5.                                                          *)
(***************************************************************************)
THEOREM AlarmsAlwaysExplained == Spec => ReceiptAlarmsExplained
<1>1. TypeOK /\ [Next]_vars => [AlarmExplained]_vars
    BY NextAlarm
<1> QED
    BY <1>1, TypeCorrect, PTL DEF Spec, ReceiptAlarmsExplained
=============================================================================
