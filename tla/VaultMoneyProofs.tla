-------------------------- MODULE VaultMoneyProofs --------------------------
(***************************************************************************)
(* Proofs about the money of GraveVault, for any number of pools, holders  *)
(* and mints, any snapshot and any order of instructions.  The books: a    *)
(* registry's claimed counter is the sum of the claim records, and the     *)
(* pro-rata shares of an honest snapshot fit in the bucket.  Conservation: *)
(* no lamport and no memecoin is made or lost across pools.  Refinement:   *)
(* the vault implements LpEscrow.                                          *)
(***************************************************************************)
EXTENDS GraveVaultProofs, SetSums

-----------------------------------------------------------------------------
(***************************************************************************)
(* What a step does to the accounts, in one place.                         *)
(***************************************************************************)

\* Everything a salvage of p by submission s reads and writes: base, out and
\* donated WSOL came in and were split in three; meme came, spent went.
Settled(p, s, base, out, meme, spent, salvor, lp, protocol) ==
    LET mint == PoolMemecoinMint(p) IN
    /\ registry[p] = None
    /\ receipt[p] = None
    /\ mint \in Mints
    /\ spent <= memeAta[mint] + meme
    /\ salvor + lp + protocol = wsolAta + base + out
    /\ wsolAta + base + out <= U64_MAX
    /\ memeAta' = [memeAta EXCEPT ![mint] = memeAta[mint] + meme - spent]
    /\ lpVault' = [lpVault EXCEPT ![p] = LazyInit(lpVault[p]) + lp]
    /\ solHolding' = [solHolding EXCEPT ![p] = LazyInit(solHolding[p]) + ATA_RENT]
    /\ treasury' = treasury + protocol
    /\ registry' = [registry EXCEPT ![p] =
           [lp_snapshot_merkle_root |-> s.lp_snapshot_merkle_root,
            lp_total_supply_at_snapshot |-> s.lp_total_supply_at_snapshot,
            lp_holder_pool_total_lamports |-> lp,
            lp_holder_pool_claimed_lamports |-> 0]]
    /\ receipt' = [receipt EXCEPT ![p] =
           IssuedReceipt(wsolAta + base + out,
                         [salvor |-> salvor, lp |-> lp, protocol |-> protocol],
                         mint, memeAta[mint] + meme - spent)]
    /\ \E seen \in Audit :
          /\ audit' = [audit EXCEPT ![p] = seen]
          /\ seen.base = base /\ seen.out = out /\ seen.donated = wsolAta
    /\ UNCHANGED <<config, claimRecord, treasuryMeme, cert, now, gifts>>

LEMMA SalvageEffect ==
    ASSUME TypeOK,
           NEW p \in Pools, NEW s \in Submissions, NEW a \in AmmOutcomes,
           SalvagePool(p, s, a)
    PROVE  \E base, out, meme, spent, salvor, lp, protocol \in Nat :
               Settled(p, s, base, out, meme, spent, salvor, lp, protocol)
<1>1. PICK r \in SwapLeg(p, s, a) : Settle(p, s, a, r)
    BY DEF SalvagePool
<1> DEFINE mint == PoolMemecoinMint(p)
           base == RemovedBase(p, a)
           meme == RemovedMemecoin(p, a)
           total == TotalRecovered(p, a, r)
           split == SettlementSplit(total)
           dust == memeAta[mint] + meme - r.spent
           seen == [base |-> base, swapped |-> Swaps(p, a),
                    implied |-> IF Swaps(p, a) THEN Implied(p, a) ELSE 0,
                    out |-> r.out, donated |-> wsolAta]
<1>2. /\ config # None
      /\ registry[p] = None
      /\ receipt[p] = None
      /\ UNCHANGED <<config, claimRecord, treasuryMeme, cert, now, gifts>>
    BY DEF SalvagePool, Preflight
<1>3. /\ total \in Nat
      /\ split.salvor \in Nat
      /\ split.lp \in Nat
      /\ split.protocol \in Nat
      /\ split.salvor + split.lp + split.protocol = total
      /\ dust \in Nat
    BY <1>1, <1>2, SettleAmounts DEF Settle
<1>4. /\ base \in Nat
      /\ meme \in Nat
      /\ mint \in Mints
      /\ r.out \in Nat
      /\ r.spent \in Nat
      /\ r.spent <= memeAta[mint] + meme
    BY <1>2, OutcomeType, SwapLegType
<1>5. total = wsolAta + base + r.out
    BY DEF TotalRecovered
<1>6. /\ total <= U64_MAX
      /\ memeAta' = [memeAta EXCEPT ![mint] = dust]
      /\ lpVault' = [lpVault EXCEPT ![p] = LazyInit(lpVault[p]) + split.lp]
      /\ solHolding' = [solHolding EXCEPT ![p] =
             LazyInit(solHolding[p]) + total + ATA_RENT
                 - split.salvor - split.lp - split.protocol]
      /\ treasury' = treasury + split.protocol
      /\ registry' = [registry EXCEPT ![p] = SealedRegistry(s, split)]
      /\ receipt' = [receipt EXCEPT ![p] = IssuedReceipt(total, split, mint, dust)]
      /\ audit' = [audit EXCEPT ![p] = seen]
    BY <1>1 DEF Settle
<1>7. seen \in Audit
  <2>1. (IF Swaps(p, a) THEN Implied(p, a) ELSE 0) \in Nat
    <3>1. CASE Swaps(p, a)
      <4>1. MemecoinReserve(p, a) \in Nat \ {0}
          BY <1>2, <3>1, OutcomeType, SwapLegType DEF JupiterSwap, FloorTightEnough
      <4> QED
          BY <3>1, <4>1, OutcomeType, ImpliedType DEF Implied
    <3> QED
        BY <3>1
  <2>2. s.min_quote_output_lamports \in Nat
      BY ParameterAssumption DEF SalvagePoolParams
  <2>3. Swaps(p, a) \in BOOLEAN /\ wsolAta \in Nat
      BY DEF Swaps, TypeOK
  <2> QED
      BY <1>4, <2>1, <2>2, <2>3 DEF Audit
<1>8. /\ seen.base = base /\ seen.out = r.out /\ seen.donated = wsolAta
    OBVIOUS
<1>9. LazyInit(solHolding[p]) + total + ATA_RENT
          - split.salvor - split.lp - split.protocol
          = LazyInit(solHolding[p]) + ATA_RENT
  <2>1. LazyInit(solHolding[p]) \in Nat
      BY BoundAssumption DEF LazyInit, TypeOK
  <2> HIDE DEF total, split
  <2> QED
      BY <1>3, <2>1, BoundAssumption
<1>10. /\ SealedRegistry(s, split) =
             [lp_snapshot_merkle_root |-> s.lp_snapshot_merkle_root,
              lp_total_supply_at_snapshot |-> s.lp_total_supply_at_snapshot,
              lp_holder_pool_total_lamports |-> split.lp,
              lp_holder_pool_claimed_lamports |-> 0]
       /\ IssuedReceipt(total, split, mint, dust) =
             IssuedReceipt(total, [salvor |-> split.salvor, lp |-> split.lp,
                                   protocol |-> split.protocol], mint, dust)
    BY DEF SealedRegistry, IssuedReceipt
<1> DEFINE salvor == split.salvor
           lp == split.lp
           protocol == split.protocol
           spent == r.spent
           out == r.out
<1>11. /\ base \in Nat /\ out \in Nat /\ meme \in Nat /\ spent \in Nat
       /\ salvor \in Nat /\ lp \in Nat /\ protocol \in Nat
    BY <1>3, <1>4
<1>12. Settled(p, s, base, out, meme, spent, salvor, lp, protocol)
  <2>1. /\ spent <= memeAta[mint] + meme
        /\ salvor + lp + protocol = wsolAta + base + out
        /\ wsolAta + base + out <= U64_MAX
      BY <1>3, <1>4, <1>5, <1>6
  <2>2. /\ memeAta' = [memeAta EXCEPT ![mint] = memeAta[mint] + meme - spent]
        /\ lpVault' = [lpVault EXCEPT ![p] = LazyInit(lpVault[p]) + lp]
        /\ solHolding' = [solHolding EXCEPT ![p] = LazyInit(solHolding[p]) + ATA_RENT]
        /\ treasury' = treasury + protocol
      BY <1>6, <1>9
  <2>3. /\ registry' = [registry EXCEPT ![p] =
             [lp_snapshot_merkle_root |-> s.lp_snapshot_merkle_root,
              lp_total_supply_at_snapshot |-> s.lp_total_supply_at_snapshot,
              lp_holder_pool_total_lamports |-> lp,
              lp_holder_pool_claimed_lamports |-> 0]]
        /\ receipt' = [receipt EXCEPT ![p] =
             IssuedReceipt(wsolAta + base + out,
                           [salvor |-> salvor, lp |-> lp, protocol |-> protocol],
                           mint, memeAta[mint] + meme - spent)]
      BY <1>5, <1>6, <1>10
  <2>4. \E x \in Audit :
          /\ audit' = [audit EXCEPT ![p] = x]
          /\ x.base = base /\ x.out = out /\ x.donated = wsolAta
      BY <1>6, <1>7, <1>8
  <2> HIDE DEF base, out, meme, spent, salvor, lp, protocol
  <2> QED
      BY <1>2, <1>4, <2>1, <2>2, <2>3, <2>4 DEF Settled
<1> HIDE DEF base, out, meme, spent, salvor, lp, protocol
<1> QED
    BY <1>11, <1>12

\* Steps that are neither a salvage nor a claim keep registries, claim records
\* and everything of a receipt but its sweep stamp.
ReceiptKept(p) ==
    /\ receipt'[p] = None <=> receipt[p] = None
    /\ receipt[p] # None =>
          /\ receipt'[p].lp_holder_amount_lamports
                 = receipt[p].lp_holder_amount_lamports
          /\ receipt'[p].salvor_amount_lamports = receipt[p].salvor_amount_lamports
          /\ receipt'[p].protocol_amount_lamports
                 = receipt[p].protocol_amount_lamports
          /\ receipt'[p].total_proceeds_lamports
                 = receipt[p].total_proceeds_lamports
          /\ receipt'[p].memecoin_mint = receipt[p].memecoin_mint

BooksKept ==
    /\ UNCHANGED <<registry, claimRecord, audit>>
    /\ \A p \in Pools : ReceiptKept(p)

LEMMA SweepKeepsBooks ==
    ASSUME TypeOK, NEW p \in Pools, SweepDust(p)
    PROVE  BooksKept
<1>1. receipt[p] \in SalvageReceipt /\ now \in Nat
    BY DEF TypeOK, SweepDust, SweepAccepted
<1>2. /\ receipt' = [receipt EXCEPT ![p] =
              [receipt[p] EXCEPT !.dust_swept_at_ts = now]]
      /\ UNCHANGED <<registry, claimRecord, audit>>
    BY DEF SweepDust
<1>3. receipt'[p] = [receipt[p] EXCEPT !.dust_swept_at_ts = now]
    BY <1>2 DEF TypeOK
<1>4. receipt'[p] \in SalvageReceipt /\ ReceiptKept(p)
  <2>1. receipt'[p] \in SalvageReceipt
      BY <1>1, <1>3 DEF SalvageReceipt
  <2> QED
      BY <1>1, <1>3, <2>1, NoneAssumption DEF SalvageReceipt, ReceiptKept
<1>5. \A q \in Pools : q # p => receipt'[q] = receipt[q]
    BY <1>2 DEF TypeOK
<1> QED
    BY <1>2, <1>4, <1>5 DEF BooksKept, ReceiptKept

LEMMA OtherStepsKeepBooks ==
    ASSUME TypeOK, [Next]_vars, ~Salvage,
           ~ \E p \in Pools, h \in Holders : Claim(p, h)
    PROVE  BooksKept
<1>1. ASSUME UNCHANGED <<registry, receipt, claimRecord, audit>> PROVE BooksKept
    BY <1>1 DEF BooksKept, ReceiptKept
<1>2. ASSUME NEW p \in Pools, SweepDust(p) PROVE BooksKept
    BY <1>2, SweepKeepsBooks
<1>3. CASE \/ \E i \in InitParams : Initialize(i)
           \/ \E u \in ConfigUpdates : UpdateProtocolConfig(u)
           \/ \E b \in BOOLEAN : EmergencyPause(b)
    BY <1>1, <1>3 DEF Initialize, UpdateProtocolConfig, EmergencyPause
<1>4. CASE EnvNext
    BY <1>1, <1>4
       DEF EnvNext, Tick, ScannerIssuesCert, LpSupplyMoves, programVars
<1>5. CASE GiftNext
    BY <1>1, <1>5
       DEF GiftNext, GiftToLpVault, GiftToSolHolding, GiftToTreasury, GiftWsol
<1>6. CASE UNCHANGED vars
    BY <1>1, <1>6 DEF vars, programVars
<1> QED
    BY <1>2, <1>3, <1>4, <1>5, <1>6 DEF Next, ProgramNext

-----------------------------------------------------------------------------
(***************************************************************************)
(* The claim records.                                                      *)
(***************************************************************************)

\* What each holder of p who claimed got.
Amounts(p) == [h \in ClaimedHolders(p) |-> claimRecord[p][h].amount_lamports]

\* A record stands for a leaf of the sealed snapshot, and pays its share.
RecordSound(p, h) ==
    LET balance == claimRecord[p][h].lp_balance_at_snapshot IN
    /\ <<h, balance>> \in registry[p].lp_snapshot_merkle_root
    /\ balance > 0
    /\ claimRecord[p][h].amount_lamports = ClaimAmount(p, balance)

\* Registry, receipt and claim records of a settled pool agree.
SettledBooked(p) ==
    /\ IsFiniteSet(registry[p].lp_snapshot_merkle_root)
    /\ registry[p].lp_holder_pool_total_lamports <= U64_MAX
    /\ registry[p].lp_holder_pool_total_lamports
           = receipt[p].lp_holder_amount_lamports
    /\ Observer!r1Sum(receipt[p])
    /\ registry[p].lp_holder_pool_claimed_lamports = SumFunction(Amounts(p))
    /\ \A h \in ClaimedHolders(p) : RecordSound(p, h)

Booked(p) ==
    /\ IsFiniteSet(ClaimedHolders(p))
    /\ Salvaged(p) <=> receipt[p] # None
    /\ ~Salvaged(p) => ClaimedHolders(p) = {}
    /\ Salvaged(p) => SettledBooked(p)

(***************************************************************************)
(* The inductive invariant of the books.  ClaimsAccounted alone is not     *)
(* inductive: that a claim raises the sum by its amount needs the set of   *)
(* records to be finite, and what the records mean is needed to bound the  *)
(* sum.                                                                    *)
(***************************************************************************)
ClaimsBooked == \A p \in Pools : Booked(p)

LEMMA InitBooked == Init => ClaimsBooked
<1> SUFFICES ASSUME Init, NEW p \in Pools PROVE Booked(p)
    BY DEF ClaimsBooked
<1>1. registry[p] = None /\ receipt[p] = None /\ ClaimedHolders(p) = {}
    BY DEF Init, ClaimedHolders
<1> QED
    BY <1>1, FS_EmptySet DEF Booked, Salvaged

\* A pool whose registry and records did not change stays booked.
LEMMA BookedFrame ==
    ASSUME NEW p \in Pools, Booked(p), ReceiptKept(p),
           registry'[p] = registry[p], claimRecord'[p] = claimRecord[p]
    PROVE  Booked(p)'
<1>1. /\ ClaimedHolders(p)' = ClaimedHolders(p)
      /\ Amounts(p)' = Amounts(p)
      /\ Salvaged(p)' = Salvaged(p)
    BY DEF ClaimedHolders, Amounts, Salvaged
<1>2. (receipt[p] # None)' = (receipt[p] # None)
    BY DEF ReceiptKept
<1>3. ASSUME Salvaged(p) PROVE SettledBooked(p)'
  <2>1. SettledBooked(p) /\ receipt[p] # None
      BY <1>3 DEF Booked
  <2>2. Observer!r1Sum(receipt[p])'
      BY <2>1 DEF Observer!r1Sum, ReceiptKept, SettledBooked
  <2>3. \A h \in ClaimedHolders(p) : RecordSound(p, h)'
      BY <2>1 DEF RecordSound, ClaimAmount, SettledBooked
  <2> QED
      BY <1>1, <2>1, <2>2, <2>3 DEF SettledBooked, ReceiptKept
<1> QED
    BY <1>1, <1>2, <1>3 DEF Booked

\* A salvage opens the books of its pool.
LEMMA SalvageBooked ==
    ASSUME TypeOK, ClaimsBooked,
           NEW p \in Pools, NEW s \in Submissions, NEW a \in AmmOutcomes,
           SalvagePool(p, s, a)
    PROVE  ClaimsBooked'
<1>1. PICK base, out, meme, spent, salvor, lp, protocol \in Nat :
          Settled(p, s, base, out, meme, spent, salvor, lp, protocol)
    BY SalvageEffect
<1>2. ASSUME NEW q \in Pools, q # p PROVE Booked(q)'
  <2>1. /\ registry'[q] = registry[q]
        /\ receipt'[q] = receipt[q]
        /\ claimRecord'[q] = claimRecord[q]
      BY <1>1, <1>2 DEF Settled, TypeOK
  <2> QED
      BY <2>1, BookedFrame DEF ReceiptKept, ClaimsBooked
<1> DEFINE total == wsolAta + base + out
<1>3. total \in Nat
    BY DEF TypeOK
<1>4. /\ registry'[p] =
             [lp_snapshot_merkle_root |-> s.lp_snapshot_merkle_root,
              lp_total_supply_at_snapshot |-> s.lp_total_supply_at_snapshot,
              lp_holder_pool_total_lamports |-> lp,
              lp_holder_pool_claimed_lamports |-> 0]
      /\ claimRecord' = claimRecord
      /\ salvor + lp + protocol = total
      /\ total <= U64_MAX
      /\ \E dust : receipt'[p] =
             IssuedReceipt(total, [salvor |-> salvor, lp |-> lp, protocol |-> protocol],
                           PoolMemecoinMint(p), dust)
    BY <1>1 DEF Settled, TypeOK
<1>5. registry'[p] # None /\ receipt'[p] # None
  <2>1. registry'[p] \in PoolRegistry
      BY <1>4, ParameterAssumption DEF PoolRegistry, SalvagePoolParams
  <2> DEFINE mint == PoolMemecoinMint(p)
             dust == memeAta[mint] + meme - spent
  <2>2. receipt'[p] = IssuedReceipt(total,
            [salvor |-> salvor, lp |-> lp, protocol |-> protocol], mint, dust)
      BY <1>1 DEF Settled, TypeOK
  <2>3. mint \in Mints /\ dust \in Nat
      BY <1>1 DEF Settled, TypeOK
  <2> HIDE DEF mint, dust, total
  <2>4. receipt'[p] \in SalvageReceipt
      BY <1>3, <2>2, <2>3 DEF IssuedReceipt, SalvageReceipt
  <2> QED
      BY <2>1, <2>4, NoneAssumption
<1>6. ClaimedHolders(p)' = {}
  <2>1. ClaimedHolders(p) = {}
      BY <1>1 DEF Settled, ClaimsBooked, Booked, Salvaged
  <2> QED
      BY <1>4, <2>1 DEF ClaimedHolders
<1>7. Booked(p)'
  <2>1. IsFiniteSet(s.lp_snapshot_merkle_root)
      BY SnapshotAssumption
  <2>2. SumFunction(Amounts(p)') = 0
    <3>1. DOMAIN Amounts(p)' = {}
        BY <1>6 DEF Amounts
    <3> QED
        BY <3>1, SumFunctionIs, SumEmpty
  <2>3. lp <= U64_MAX
      BY <1>3, <1>4, BoundAssumption
  <2>4. /\ receipt'[p].lp_holder_amount_lamports = lp
        /\ Observer!r1Sum(receipt'[p])
    <3> HIDE DEF total
    <3> QED
        BY <1>3, <1>4 DEF IssuedReceipt, Observer!r1Sum
  <2>5. SettledBooked(p)'
      BY <1>4, <1>6, <2>1, <2>2, <2>3, <2>4 DEF SettledBooked
  <2> QED
      BY <1>5, <1>6, <2>5, FS_EmptySet DEF Booked, Salvaged
<1> QED
    BY <1>2, <1>7 DEF ClaimsBooked

\* A claim adds its amount to the counter and a sound record to the set.
LEMMA ClaimBooked ==
    ASSUME TypeOK, ClaimsBooked, NEW p \in Pools, NEW h \in Holders, Claim(p, h)
    PROVE  ClaimsBooked'
<1>1. PICK balance \in Nat :
             LET amount == ClaimAmount(p, balance) IN
             /\ registry[p] \in PoolRegistry
             /\ amount \in Nat
             /\ ClaimAccepted(p, h, balance)
             /\ registry' = [registry EXCEPT ![p] =
                    [registry[p] EXCEPT !.lp_holder_pool_claimed_lamports =
                        registry[p].lp_holder_pool_claimed_lamports + amount]]
             /\ claimRecord' = [claimRecord EXCEPT ![p] =
                    [claimRecord[p] EXCEPT ![h] =
                        [amount_lamports |-> amount,
                         lp_balance_at_snapshot |-> balance]]]
             /\ UNCHANGED receipt
    BY ClaimEffect
<1>2. ASSUME NEW q \in Pools, q # p PROVE Booked(q)'
  <2>1. /\ registry'[q] = registry[q]
        /\ receipt'[q] = receipt[q]
        /\ claimRecord'[q] = claimRecord[q]
      BY <1>1, <1>2 DEF TypeOK
  <2> QED
      BY <2>1, BookedFrame DEF ReceiptKept, ClaimsBooked
<1> DEFINE amount == ClaimAmount(p, balance)
           claimed == registry[p].lp_holder_pool_claimed_lamports
           record == [amount_lamports |-> amount, lp_balance_at_snapshot |-> balance]
<1>3. /\ amount \in Nat
      /\ claimed \in Nat
      /\ registry[p] \in PoolRegistry
      /\ Salvaged(p)
      /\ claimRecord[p][h] = None
      /\ balance > 0
      /\ <<h, balance>> \in registry[p].lp_snapshot_merkle_root
      /\ receipt' = receipt
    BY <1>1 DEF ClaimAccepted, VerifyProof, PoolRegistry
<1>4. registry'[p] = [registry[p] EXCEPT !.lp_holder_pool_claimed_lamports =
                          claimed + amount]
    BY <1>1 DEF TypeOK
<1>5. claimRecord'[p] = [claimRecord[p] EXCEPT ![h] = record]
    BY <1>1 DEF TypeOK
<1> HIDE DEF amount, claimed
<1>6. /\ registry'[p].lp_snapshot_merkle_root = registry[p].lp_snapshot_merkle_root
      /\ registry'[p].lp_total_supply_at_snapshot
             = registry[p].lp_total_supply_at_snapshot
      /\ registry'[p].lp_holder_pool_total_lamports
             = registry[p].lp_holder_pool_total_lamports
      /\ registry'[p].lp_holder_pool_claimed_lamports = claimed + amount
      /\ registry'[p] \in PoolRegistry
    BY <1>3, <1>4 DEF PoolRegistry
<1>7. record \in ClaimRecord /\ record # None
    BY <1>3, NoneAssumption DEF ClaimRecord
<1>8. /\ claimRecord'[p][h] = record
      /\ \A k \in Holders : k # h => claimRecord'[p][k] = claimRecord[p][k]
    BY <1>5 DEF TypeOK
<1>9. ClaimedHolders(p)' = ClaimedHolders(p) \cup {h} /\ h \notin ClaimedHolders(p)
  <2> HIDE DEF record
  <2> QED
      BY <1>3, <1>7, <1>8 DEF ClaimedHolders
<1>10. Booked(p) /\ SettledBooked(p)
    BY <1>3 DEF ClaimsBooked, Booked
<1>11. SumFunction(Amounts(p)') = SumFunction(Amounts(p)) + amount
  <2>1. /\ IsFiniteSet(ClaimedHolders(p))
        /\ DOMAIN Amounts(p) = ClaimedHolders(p)
        /\ DOMAIN Amounts(p)' = ClaimedHolders(p) \cup {h}
      BY <1>9, <1>10 DEF Booked, Amounts
  <2>2. \A k \in ClaimedHolders(p) :
            Amounts(p)[k] \in Int /\ (Amounts(p)')[k] = Amounts(p)[k]
    <3> SUFFICES ASSUME NEW k \in ClaimedHolders(p)
                 PROVE  Amounts(p)[k] \in Int /\ (Amounts(p)')[k] = Amounts(p)[k]
        OBVIOUS
    <3>1. k \in Holders /\ claimRecord[p][k] \in ClaimRecord /\ k # h
        BY <1>9 DEF ClaimedHolders, TypeOK
    <3>2. claimRecord'[p][k] = claimRecord[p][k]
        BY <1>8, <3>1
    <3>3. claimRecord[p][k].amount_lamports \in Nat
        BY <3>1 DEF ClaimRecord
    <3> QED
        BY <1>9, <3>2, <3>3 DEF Amounts
  <2>3. (Amounts(p)')[h] = amount
      BY <1>8, <1>9 DEF Amounts
  <2> QED
      BY <1>3, <1>9, <2>1, <2>2, <2>3, SumExtended
<1>12. \A k \in ClaimedHolders(p)' : RecordSound(p, k)'
  <2> SUFFICES ASSUME NEW k \in ClaimedHolders(p)' PROVE RecordSound(p, k)'
      OBVIOUS
  <2>1. \A b : ClaimAmount(p, b)' = ClaimAmount(p, b)
      BY <1>6 DEF ClaimAmount
  <2>2. CASE k = h
      BY <1>3, <1>6, <1>8, <2>1, <2>2 DEF RecordSound, amount
  <2>3. CASE k # h
    <3>1. k \in ClaimedHolders(p) /\ claimRecord'[p][k] = claimRecord[p][k]
        BY <1>8, <1>9, <2>3 DEF ClaimedHolders
    <3>2. RecordSound(p, k)
        BY <1>10, <3>1 DEF SettledBooked
    <3> QED
        BY <1>6, <2>1, <3>1, <3>2 DEF RecordSound
  <2> QED
      BY <2>2, <2>3
<1>13. Booked(p)'
  <2>1. IsFiniteSet(ClaimedHolders(p)')
      BY <1>9, <1>10, FS_AddElement DEF Booked
  <2>2. Salvaged(p)' /\ receipt'[p] # None
      BY <1>3, <1>6, <1>10, NoneAssumption DEF Salvaged, Booked
  <2>3. registry'[p].lp_holder_pool_claimed_lamports = SumFunction(Amounts(p)')
      BY <1>6, <1>10, <1>11 DEF SettledBooked, claimed
  <2>4. SettledBooked(p)'
    <3>1. Observer!r1Sum(receipt'[p])
        BY <1>3, <1>10 DEF SettledBooked
    <3> QED
        BY <1>3, <1>6, <1>10, <1>12, <2>3, <3>1 DEF SettledBooked
  <2> QED
      BY <2>1, <2>2, <2>4 DEF Booked
<1> QED
    BY <1>2, <1>13 DEF ClaimsBooked

LEMMA NextBooked == TypeOK /\ ClaimsBooked /\ [Next]_vars => ClaimsBooked'
<1> SUFFICES ASSUME TypeOK, ClaimsBooked, [Next]_vars PROVE ClaimsBooked'
    OBVIOUS
<1>1. CASE Salvage
    BY <1>1, SalvageBooked DEF Salvage
<1>2. CASE \E p \in Pools, h \in Holders : Claim(p, h)
    BY <1>2, ClaimBooked
<1>3. CASE ~Salvage /\ ~ \E p \in Pools, h \in Holders : Claim(p, h)
  <2>1. BooksKept
      BY <1>3, OtherStepsKeepBooks
  <2> QED
      BY <2>1, BookedFrame DEF BooksKept, ClaimsBooked
<1> QED
    BY <1>1, <1>2, <1>3

\* What the holders who claimed got are amounts.
LEMMA AmountsType ==
    ASSUME TypeOK, NEW p \in Pools
    PROVE  /\ DOMAIN Amounts(p) = ClaimedHolders(p)
           /\ \A h \in ClaimedHolders(p) :
                 /\ h \in Holders
                 /\ claimRecord[p][h] \in ClaimRecord
                 /\ Amounts(p)[h] = claimRecord[p][h].amount_lamports
                 /\ Amounts(p)[h] \in Nat
                 /\ claimRecord[p][h].lp_balance_at_snapshot \in Nat
<1>1. \A h \in ClaimedHolders(p) : h \in Holders /\ claimRecord[p][h] \in ClaimRecord
    BY DEF ClaimedHolders, TypeOK
<1>2. \A r \in ClaimRecord : r.amount_lamports \in Nat /\ r.lp_balance_at_snapshot \in Nat
    BY DEF ClaimRecord
<1> QED
    BY <1>1, <1>2 DEF Amounts

\* The observer sums with the same definition.
LEMMA ObserverSum ==
    ASSUME NEW f
    PROVE  Observer!SumFunction(f) = SumFunction(f)
BY DEF Observer!SumFunction, Observer!SumFunctionOnSet, Observer!FoldFunctionOnSet,
       Observer!MapThenFoldSet, SumFunction, SumFunctionOnSet, FoldFunctionOnSet,
       MapThenFoldSet

\* The observer's sum over the set of claim records is the sum of the amounts.
LEMMA ClaimedIs ==
    ASSUME TypeOK, NEW p \in Pools, IsFiniteSet(ClaimedHolders(p))
    PROVE  Observer!claimedLamports(PoolClaims(p)) = SumFunction(Amounts(p))
<1> DEFINE S == ClaimedHolders(p)
           a == Amounts(p)
           pairs == {<<h, a[h]>> : h \in S}
<1>1. DOMAIN a = S /\ \A h \in S : a[h] \in Nat /\ a[h] = claimRecord[p][h].amount_lamports
    BY AmountsType
<1>2. PoolClaims(p) = pairs
    BY <1>1 DEF PoolClaims
<1> HIDE DEF a, S
<1>3. SumFunction([c \in pairs |-> c[2]]) = SumFunctionOnSet(a, S)
  <2>1. IsFiniteSet(S)
      BY DEF S
  <2> QED
      BY <1>1, <2>1, SumOfPairs
<1>4. SumFunction(a) = SumFunctionOnSet(a, S)
    BY <1>1, SumFunctionIs
<1>5. Observer!claimedLamports(PoolClaims(p)) = SumFunction([c \in pairs |-> c[2]])
    BY <1>2, ObserverSum, Zenon DEF Observer!claimedLamports
<1> QED
    BY <1>3, <1>4, <1>5, Zenon DEF a

LEMMA BooksAccount == TypeOK /\ LpBucketSolvent /\ ClaimsBooked => ClaimsAccounted
<1> SUFFICES ASSUME TypeOK, LpBucketSolvent, ClaimsBooked, NEW p \in Pools
             PROVE  /\ Salvaged(p) <=> receipt[p] # None
                    /\ receipt[p] # None => Observer!r1Sum(receipt[p])
                    /\ Observer!c1Accounted(registry[p], PoolClaims(p))
                    /\ Observer!c2WithinCeiling(receipt[p], PoolClaims(p))
                    /\ Observer!c3Agrees(receipt[p], registry[p])
    BY DEF ClaimsAccounted
<1> USE DEF Observer!c1Accounted, Observer!c2WithinCeiling, Observer!c3Agrees
<1>1. Booked(p)
    BY DEF ClaimsBooked
<1>2. CASE ~Salvaged(p)
  <2>1. registry[p] = None /\ receipt[p] = None /\ ClaimedHolders(p) = {}
      BY <1>1, <1>2 DEF Booked, Salvaged
  <2>2. PoolClaims(p) = {}
      BY <2>1 DEF PoolClaims
  <2> QED
      BY <1>2, <2>1, <2>2
<1>3. CASE Salvaged(p)
  <2>1. registry[p] # None /\ receipt[p] # None /\ SettledBooked(p)
      BY <1>1, <1>3 DEF Booked, Salvaged
  <2>2. Observer!claimedLamports(PoolClaims(p))
            = registry[p].lp_holder_pool_claimed_lamports
      BY <1>1, <2>1, ClaimedIs DEF Booked, SettledBooked
  <2>3. registry[p].lp_holder_pool_claimed_lamports
            <= registry[p].lp_holder_pool_total_lamports
    <3>1. RemainingLamports(p) >= 0
        BY <1>3 DEF LpBucketSolvent
    <3>2. registry[p] \in PoolRegistry
        BY <2>1 DEF TypeOK
    <3> QED
        BY <3>1, <3>2 DEF RemainingLamports, PoolRegistry
  <2> QED
      BY <1>3, <2>1, <2>2, <2>3 DEF SettledBooked
<1> QED
    BY <1>2, <1>3

(***************************************************************************)
(* The accounts of every pool reconcile between any two transactions: the  *)
(* claimed counter is the sum of the claim records, which stay within the  *)
(* receipt's LP amount - for any number of holders, with no bound on the   *)
(* claims.                                                                 *)
(***************************************************************************)
THEOREM ClaimsAlwaysAccounted == Spec => []ClaimsAccounted
    BY InitType, NextType, InitBucket, NextBucket, InitBooked, NextBooked,
       BooksAccount, PTL DEF Spec

-----------------------------------------------------------------------------
(***************************************************************************)
(* The shares of a snapshot.                                               *)
(***************************************************************************)

\* The snapshot balance of each holder of p who claimed, and those leaves.
Balances(p) ==
    [h \in ClaimedHolders(p) |-> claimRecord[p][h].lp_balance_at_snapshot]

ClaimedLeaves(p) == {<<h, Balances(p)[h]>> : h \in ClaimedHolders(p)}

\* The accounts of a settled pool.
LEMMA SettledType ==
    ASSUME TypeOK, SealedSupplyPositive, ClaimsBooked, NEW p \in Pools, Salvaged(p)
    PROVE  /\ registry[p].lp_total_supply_at_snapshot \in Nat \ {0}
           /\ registry[p].lp_holder_pool_total_lamports \in Nat
           /\ registry[p].lp_holder_pool_claimed_lamports \in Nat
           /\ registry[p].lp_snapshot_merkle_root \in SUBSET (Holders \X Nat)
           /\ IsFiniteSet(registry[p].lp_snapshot_merkle_root)
           /\ IsFiniteSet(ClaimedHolders(p))
           /\ Booked(p)
           /\ SettledBooked(p)
<1>1. Booked(p) /\ SettledBooked(p)
    BY DEF ClaimsBooked, Booked
<1>2. registry[p] \in PoolRegistry
    BY DEF TypeOK, Salvaged
<1>3. registry[p].lp_total_supply_at_snapshot > 0
    BY DEF SealedSupplyPositive
<1> QED
    BY <1>1, <1>2, <1>3 DEF PoolRegistry, Snapshot, Booked, SettledBooked

(***************************************************************************)
(* What was paid against the balances it was paid for: at most the exact   *)
(* quotient, and less by under one lamport a claim.                        *)
(***************************************************************************)
LEMMA PaidForBalances ==
    ASSUME TypeOK, SealedSupplyPositive, ClaimsBooked, NEW p \in Pools, Salvaged(p)
    PROVE  LET whole == registry[p].lp_total_supply_at_snapshot
               bucket == registry[p].lp_holder_pool_total_lamports
               paid == registry[p].lp_holder_pool_claimed_lamports
               parts == SumFunctionOnSet(Balances(p), ClaimedHolders(p))
               n == Cardinality(ClaimedHolders(p))
           IN  /\ parts \in Nat
               /\ n \in Nat
               /\ whole * paid <= bucket * parts
               /\ bucket * parts + n <= whole * paid + whole * n
<1> DEFINE whole == registry[p].lp_total_supply_at_snapshot
           bucket == registry[p].lp_holder_pool_total_lamports
           S == ClaimedHolders(p)
           a == Amounts(p)
           b == Balances(p)
<1>1. whole \in Nat \ {0} /\ bucket \in Nat /\ IsFiniteSet(S) /\ SettledBooked(p)
    BY SettledType
<1>2. DOMAIN a = S /\ \A h \in S : b[h] \in Nat /\ a[h] = ProRata(bucket, b[h], whole)
  <2>1. \A h \in S : RecordSound(p, h)
      BY <1>1 DEF SettledBooked
  <2>2. \A h \in S : b[h] = claimRecord[p][h].lp_balance_at_snapshot
      BY DEF Balances
  <2> QED
      BY <2>1, <2>2, AmountsType DEF RecordSound, ClaimAmount
<1>3. registry[p].lp_holder_pool_claimed_lamports = SumFunctionOnSet(a, S)
    BY <1>1, <1>2, SumFunctionIs DEF SettledBooked
<1> HIDE DEF whole, bucket, S, a, b
<1>4. \A h \in S : /\ a[h] \in Nat
                   /\ b[h] \in Nat
                   /\ whole * a[h] <= bucket * b[h]
                   /\ bucket * b[h] + 1 <= whole * a[h] + whole
    BY <1>1, <1>2, ProRataFloor
<1>5. /\ whole * SumFunctionOnSet(a, S) <= bucket * SumFunctionOnSet(b, S)
      /\ bucket * SumFunctionOnSet(b, S) + Cardinality(S)
             <= whole * SumFunctionOnSet(a, S) + whole * Cardinality(S)
    BY <1>1, <1>4, SumOfFloors
<1>6. SumFunctionOnSet(b, S) \in Nat /\ Cardinality(S) \in Nat
    BY <1>1, <1>4, SumNat, FS_CardinalityType
<1> QED
    BY <1>3, <1>5, <1>6 DEF whole, bucket, S, b

\* The claimed leaves are leaves, and weigh what the balances add up to.
LEMMA ClaimedLeavesSum ==
    ASSUME TypeOK, SealedSupplyPositive, ClaimsBooked, NEW p \in Pools, Salvaged(p)
    PROVE  LET root == registry[p].lp_snapshot_merkle_root
               f == [l \in root |-> l[2]]
           IN  /\ ClaimedLeaves(p) \in SUBSET root
               /\ IsFiniteSet(ClaimedLeaves(p))
               /\ Cardinality(ClaimedLeaves(p)) = Cardinality(ClaimedHolders(p))
               /\ SumFunctionOnSet(f, ClaimedLeaves(p))
                      = SumFunctionOnSet(Balances(p), ClaimedHolders(p))
               /\ \A l \in root : f[l] \in Nat /\ f[l] = l[2]
               /\ LeafTotal(root) = SumFunctionOnSet(f, root)
<1> DEFINE root == registry[p].lp_snapshot_merkle_root
           S == ClaimedHolders(p)
           b == Balances(p)
           pairs == {<<h, b[h]>> : h \in S}
           f == [l \in root |-> l[2]]
           g == [l \in pairs |-> l[2]]
<1>1. IsFiniteSet(S) /\ SettledBooked(p) /\ root \in SUBSET (Holders \X Nat)
    BY SettledType
<1>2. \A h \in S : b[h] \in Nat /\ <<h, b[h]>> \in root
  <2>1. \A h \in S : RecordSound(p, h)
      BY <1>1 DEF SettledBooked
  <2>2. \A h \in S : b[h] = claimRecord[p][h].lp_balance_at_snapshot
      BY DEF Balances
  <2> QED
      BY <2>1, <2>2, AmountsType DEF RecordSound
<1>3. \A l \in root : f[l] = l[2] /\ l[2] \in Nat
    BY <1>1
<1>4. LeafTotal(root) = SumFunctionOnSet(f, root)
    BY SumFunctionIs DEF LeafTotal
<1>5. ClaimedLeaves(p) = pairs
    BY DEF ClaimedLeaves
<1> HIDE DEF root, S, b
<1>6. /\ IsFiniteSet(pairs)
      /\ Cardinality(pairs) = Cardinality(S)
      /\ SumFunction(g) = SumFunctionOnSet(b, S)
    BY <1>1, <1>2, SumOfPairs
<1>7. pairs \in SUBSET root
    BY <1>2
<1>8. SumFunctionOnSet(f, pairs) = SumFunctionOnSet(g, pairs)
  <2>1. \A l \in pairs : f[l] \in Int /\ f[l] = g[l]
      BY <1>3, <1>7
  <2> HIDE DEF pairs, f, g
  <2> QED
      BY <1>6, <2>1, SumCongruent
<1>9. SumFunction(g) = SumFunctionOnSet(g, pairs)
    BY SumFunctionIs
<1> HIDE DEF pairs, f, g
<1> QED
    BY <1>3, <1>4, <1>5, <1>6, <1>7, <1>8, <1>9 DEF root, S, b, f

\* An open leaf and the claimed ones together stay within the supply.
LEMMA OpenLeafFits ==
    ASSUME TypeOK, SealedSupplyPositive, ClaimsBooked,
           NEW p \in Pools, Honest(p), NEW l \in OpenLeaves(p)
    PROVE  /\ l[2] \in Nat
           /\ SumFunctionOnSet(Balances(p), ClaimedHolders(p)) + l[2]
                  <= registry[p].lp_total_supply_at_snapshot
<1> DEFINE root == registry[p].lp_snapshot_merkle_root
           whole == registry[p].lp_total_supply_at_snapshot
           f == [k \in root |-> k[2]]
           Q == ClaimedLeaves(p)
           parts == SumFunctionOnSet(Balances(p), ClaimedHolders(p))
<1>1. Salvaged(p) /\ LeafTotal(root) <= whole
    BY DEF Honest, HonestSnapshot
<1>2. l \in root /\ claimRecord[p][l[1]] = None
    BY DEF OpenLeaves
<1>3. l \notin Q
  <2> SUFFICES ASSUME l \in Q PROVE FALSE
      OBVIOUS
  <2>1. PICK h \in ClaimedHolders(p) : l = <<h, Balances(p)[h]>>
      BY DEF ClaimedLeaves
  <2>2. l[1] = h
      BY <2>1
  <2> QED
      BY <1>2, <2>2 DEF ClaimedHolders
<1>4. /\ Q \in SUBSET root
      /\ IsFiniteSet(Q)
      /\ SumFunctionOnSet(f, Q) = parts
      /\ \A k \in root : f[k] \in Nat /\ f[k] = k[2]
      /\ LeafTotal(root) = SumFunctionOnSet(f, root)
    BY <1>1, ClaimedLeavesSum
<1>5. IsFiniteSet(root) /\ whole \in Nat /\ parts \in Nat
    BY <1>1, SettledType, PaidForBalances
<1> HIDE DEF root, whole, f, Q, parts
<1>6. SumFunctionOnSet(f, Q \cup {l}) = SumFunctionOnSet(f, Q) + f[l]
  <2>1. \A k \in Q \cup {l} : f[k] \in Int
      BY <1>2, <1>4
  <2>2. IsFiniteSet(Q)
      BY <1>4
  <2> QED
      BY <1>3, <2>1, <2>2, SumAdd
<1>7. SumFunctionOnSet(f, Q \cup {l}) <= SumFunctionOnSet(f, root)
  <2>1. Q \cup {l} \in SUBSET root
      BY <1>2, <1>4
  <2> QED
      BY <1>4, <1>5, <2>1, SumSubset
<1>8. f[l] \in Nat /\ f[l] = l[2] /\ SumFunctionOnSet(f, root) \in Nat
    BY <1>2, <1>4, <1>5, SumNat
<1> QED
    BY <1>1, <1>4, <1>5, <1>6, <1>7, <1>8 DEF parts, whole

LEMMA BooksAcceptHonest ==
    TypeOK /\ LpBucketSolvent /\ SealedSupplyPositive /\ ClaimsBooked
        => HonestHolderCanAlwaysClaim
<1> SUFFICES ASSUME TypeOK, LpBucketSolvent, SealedSupplyPositive, ClaimsBooked,
                    NEW p \in Pools, Honest(p), NEW l \in OpenLeaves(p)
             PROVE  ClaimAccepted(p, l[1], l[2])
    BY DEF HonestHolderCanAlwaysClaim
<1> DEFINE whole == registry[p].lp_total_supply_at_snapshot
           bucket == registry[p].lp_holder_pool_total_lamports
           paid == registry[p].lp_holder_pool_claimed_lamports
           parts == SumFunctionOnSet(Balances(p), ClaimedHolders(p))
           amount == ClaimAmount(p, l[2])
           vault == lpVault[p]
<1>1. Salvaged(p)
    BY DEF Honest
<1>2. /\ l \in registry[p].lp_snapshot_merkle_root
      /\ l[2] > 0
      /\ claimRecord[p][l[1]] = None
      /\ l = <<l[1], l[2]>>
    BY <1>1, LeafType DEF OpenLeaves
<1>3. /\ whole \in Nat \ {0}
      /\ bucket \in Nat
      /\ paid \in Nat
      /\ bucket <= U64_MAX
    BY <1>1, SettledType DEF SettledBooked
<1>4. l[2] \in Nat /\ parts + l[2] <= whole
    BY OpenLeafFits
<1>5. parts \in Nat /\ whole * paid <= bucket * parts
    BY <1>1, PaidForBalances
<1>6. vault \in Nat /\ vault >= RENT + (bucket - paid)
    BY <1>1 DEF TypeOK, LpBucketSolvent, RemainingLamports
<1> HIDE DEF whole, bucket, paid, parts, vault
<1>7. amount \in Nat /\ whole * amount <= bucket * l[2]
  <2>1. amount = ProRata(bucket, l[2], whole)
      BY DEF ClaimAmount, bucket, whole
  <2> HIDE DEF amount
  <2> QED
      BY <1>3, <1>4, <2>1, ProRataFloor
<1> HIDE DEF amount
<1>8. paid + amount <= bucket
  <2> DEFINE weight == l[2]
  <2> HIDE DEF weight
  <2>1. weight \in Nat /\ parts + weight \in Nat /\ paid + amount \in Nat
      BY <1>3, <1>4, <1>5, <1>7 DEF weight
  <2>2. /\ whole * (paid + amount) = whole * paid + whole * amount
        /\ bucket * (parts + weight) = bucket * parts + bucket * weight
      BY <1>3, <1>5, <1>7, <2>1, Distributes
  <2>3. /\ whole * paid \in Nat /\ whole * amount \in Nat
        /\ bucket * parts \in Nat /\ bucket * weight \in Nat
      BY <1>3, <1>5, <1>7, <2>1, Distributes
  <2>4. whole * amount <= bucket * weight
      BY <1>7 DEF weight
  <2>5. whole * (paid + amount) <= bucket * (parts + weight)
      BY <1>5, <2>2, <2>3, <2>4
  <2>6. parts + weight <= whole
      BY <1>4 DEF weight
  <2> QED
      BY <1>3, <2>1, <2>5, <2>6, PartWithinWhole
<1>9. /\ amount <= U64_MAX
      /\ amount <= vault
      /\ vault - amount >= RENT
    BY <1>3, <1>6, <1>7, <1>8, BoundAssumption
<1>10. whole > 0
    BY <1>3
<1> QED
    BY <1>1, <1>2, <1>8, <1>9, <1>10
       DEF ClaimAccepted, VerifyProof, RentExempt, whole, bucket, paid, amount, vault

LEMMA SealedInv ==
    Spec => [](TypeOK /\ LpBucketSolvent /\ SealedSupplyPositive /\ ClaimsBooked)
<1>1. SettlementPromises => SealedSupplyPositive
    BY DEF SettlementPromises
<1> QED
    BY <1>1, InitType, NextType, InitBucket, NextBucket, InitPromises, NextPromises,
       InitBooked, NextBooked, PTL DEF Spec

(***************************************************************************)
(* Charter: with an honest snapshot, of any number of holders, the next    *)
(* claim of any holder who has not claimed would be accepted in every      *)
(* reachable state, whoever claimed before it.                             *)
(***************************************************************************)
THEOREM HonestHoldersNeverLockedOut == Spec => []HonestHolderCanAlwaysClaim
    BY SealedInv, BooksAcceptHonest, PTL

(***************************************************************************)
(* When nobody is left to claim, the claimed leaves are all the leaves     *)
(* that carry a balance: together they weigh the whole snapshot.           *)
(***************************************************************************)
LEMMA AllClaimed ==
    ASSUME TypeOK, SealedSupplyPositive, ClaimsBooked,
           NEW p \in Pools, Honest(p), OpenLeaves(p) = {}
    PROVE  SumFunctionOnSet(Balances(p), ClaimedHolders(p))
               = LeafTotal(registry[p].lp_snapshot_merkle_root)
<1> DEFINE root == registry[p].lp_snapshot_merkle_root
           f == [k \in root |-> k[2]]
           Q == ClaimedLeaves(p)
<1>1. Salvaged(p) /\ \A k, l \in root : k[1] = l[1] => k = l
    BY DEF Honest, HonestSnapshot
<1>2. /\ Q \in SUBSET root
      /\ SumFunctionOnSet(f, Q) = SumFunctionOnSet(Balances(p), ClaimedHolders(p))
      /\ \A k \in root : f[k] \in Nat /\ f[k] = k[2]
      /\ LeafTotal(root) = SumFunctionOnSet(f, root)
    BY <1>1, ClaimedLeavesSum
<1>3. IsFiniteSet(root)
    BY <1>1, SettledType
<1>4. ASSUME NEW l \in root, l[2] # 0 PROVE l \in Q
  <2>1. l[1] \in Holders /\ l[2] \in Nat
      BY <1>1, LeafType
  <2>2. claimRecord[p][l[1]] # None
      BY <1>4, <2>1 DEF OpenLeaves
  <2>3. l[1] \in ClaimedHolders(p)
      BY <2>1, <2>2 DEF ClaimedHolders
  <2> DEFINE k == <<l[1], Balances(p)[l[1]]>>
  <2>4. k \in Q
      BY <2>3 DEF ClaimedLeaves
  <2>5. k \in root /\ k[1] = l[1]
      BY <1>2, <2>4
  <2>6. k = l
      BY <1>1, <1>4, <2>5
  <2> QED
      BY <2>4, <2>6
<1> HIDE DEF root, f, Q
<1>5. SumFunctionOnSet(f, Q) = SumFunctionOnSet(f, root)
  <2>1. \A x \in root : f[x] \in Int
      BY <1>2
  <2>2. \A x \in root \ Q : f[x] = 0
      BY <1>2, <1>4
  <2> QED
      BY <1>2, <1>3, <2>1, <2>2, SumNonzero
<1> QED
    BY <1>2, <1>5 DEF root

LEMMA BooksBoundDust ==
    TypeOK /\ SealedSupplyPositive /\ ClaimsBooked => RoundingDustBounded
<1> SUFFICES ASSUME TypeOK, SealedSupplyPositive, ClaimsBooked, NEW p \in Pools,
                    Honest(p), OpenLeaves(p) = {},
                    LeafTotal(registry[p].lp_snapshot_merkle_root)
                        = registry[p].lp_total_supply_at_snapshot
             PROVE  RemainingLamports(p)
                        < Cardinality(registry[p].lp_snapshot_merkle_root)
    BY DEF RoundingDustBounded
<1> DEFINE root == registry[p].lp_snapshot_merkle_root
           whole == registry[p].lp_total_supply_at_snapshot
           bucket == registry[p].lp_holder_pool_total_lamports
           paid == registry[p].lp_holder_pool_claimed_lamports
           S == ClaimedHolders(p)
           n == Cardinality(S)
           b == Balances(p)
           parts == SumFunctionOnSet(b, S)
<1>1. Salvaged(p)
    BY DEF Honest
<1>2. /\ whole \in Nat \ {0}
      /\ bucket \in Nat
      /\ paid \in Nat
      /\ IsFiniteSet(root)
      /\ IsFiniteSet(S)
    BY <1>1, SettledType
<1>3. n \in Nat /\ bucket * parts + n <= whole * paid + whole * n
    BY <1>1, PaidForBalances
<1>4. parts = whole
    BY AllClaimed
<1>5. n <= Cardinality(root) /\ Cardinality(root) \in Nat
  <2>1. /\ ClaimedLeaves(p) \in SUBSET root
        /\ Cardinality(ClaimedLeaves(p)) = n
      BY <1>1, ClaimedLeavesSum
  <2> HIDE DEF root, n
  <2> QED
      BY <1>2, <2>1, FS_Subset, FS_CardinalityType
<1>6. RemainingLamports(p) = bucket - paid
    BY DEF RemainingLamports
<1> HIDE DEF root, whole, bucket, paid, S, b
<1>7. n # 0
  <2> SUFFICES ASSUME n = 0 PROVE FALSE
      OBVIOUS
  <2>1. S = {}
      BY <1>2, FS_EmptySet
  <2>2. parts = 0
      BY <2>1, SumEmpty
  <2> QED
      BY <1>2, <1>4, <2>2
<1> HIDE DEF n, parts
<1>8. bucket * whole + n <= whole * paid + whole * n
    BY <1>3, <1>4
<1>9. bucket - paid < n
    BY <1>2, <1>3, <1>7, <1>8, WithheldBelow
<1> QED
    BY <1>2, <1>3, <1>5, <1>6, <1>9 DEF root

(***************************************************************************)
(* Once every holder of a snapshot that covers the supply has claimed, the *)
(* floor divisions have left fewer lamports behind than there are leaves,  *)
(* however many there are.                                                 *)
(***************************************************************************)
THEOREM RoundingDustAlwaysBounded == Spec => []RoundingDustBounded
    BY SealedInv, BooksBoundDust, PTL

-----------------------------------------------------------------------------
(***************************************************************************)
(* The inductive invariant of the money.                                   *)
(***************************************************************************)

\* Before its salvage a pool's accounts hold gifts, or nothing.
Unfunded(p) ==
    /\ lpVault[p] <= gifts[p]
    /\ solHolding[p] <= gifts[p]
    /\ RentExempt(solHolding[p])

\* The receipt of a salvage says where every lamport came from and went.
ReceiptTrue(p) ==
    /\ receipt[p].total_proceeds_lamports
           = audit[p].base + audit[p].out + audit[p].donated
    /\ receipt[p].total_proceeds_lamports
           = receipt[p].lp_holder_amount_lamports
             + receipt[p].salvor_amount_lamports
             + receipt[p].protocol_amount_lamports

\* After its salvage they hold rents, gifts and what is not claimed yet.
Funded(p) ==
    /\ solHolding[p] >= RENT + ATA_RENT
    /\ solHolding[p] <= RENT + ATA_RENT + gifts[p]
    /\ lpVault[p] <= RENT + RemainingLamports(p) + gifts[p]

PoolConserved(p) ==
    /\ Salvaged(p) => audit[p] \in Audit /\ ReceiptTrue(p) /\ Funded(p)
    /\ ~Salvaged(p) => Unfunded(p)

\* The protocol's share of each salvage.
ProtocolShares == [p \in SalvagedPools |-> receipt[p].protocol_amount_lamports]

TreasuryConserved == treasury - SumFunction(ProtocolShares) \in {0} \cup GiftAmounts

(***************************************************************************)
(* ProceedsConserved is not inductive: what a salvage finds in accounts    *)
(* that strangers may have prefunded must be known (Unfunded), that an     *)
(* account opened with its rent is not counted as proceeds, and the sum    *)
(* needs finitely many salvages so far.                                    *)
(***************************************************************************)
MoneyConserved ==
    /\ IsFiniteSet(SalvagedPools)
    /\ \A p \in Pools : PoolConserved(p)
    /\ TreasuryConserved

\* The sum of MoneyConserved is that of the property.
LEMMA MoneyMeans == MoneyConserved => ProceedsConserved
BY DEF MoneyConserved, PoolConserved, ReceiptTrue, Funded, TreasuryConserved,
       ProtocolShares, ProceedsConserved

LEMMA InitMoney == Init => MoneyConserved
<1> SUFFICES ASSUME Init PROVE MoneyConserved
    OBVIOUS
<1>1. \A p \in Pools : ~Salvaged(p)
    BY DEF Init, Salvaged
<1>2. SalvagedPools = {}
    BY <1>1 DEF SalvagedPools
<1>3. ASSUME NEW p \in Pools PROVE PoolConserved(p)
    BY <1>1 DEF Init, PoolConserved, Unfunded, RentExempt
<1>4. TreasuryConserved
  <2>1. DOMAIN ProtocolShares = {}
      BY <1>2 DEF ProtocolShares
  <2>2. SumFunction(ProtocolShares) = 0
      BY <2>1, SumFunctionIs, SumEmpty
  <2> QED
      BY <2>2 DEF Init, TreasuryConserved
<1> QED
    BY <1>2, <1>3, <1>4, FS_EmptySet DEF MoneyConserved

\* Steps that are no salvage keep the sum: its indices and values.
LEMMA SumsKept ==
    ASSUME TypeOK, \A p \in Pools : ReceiptKept(p) /\ Salvaged(p)' = Salvaged(p),
           audit' = audit, \A p \in Pools : Salvaged(p) <=> receipt[p] # None
    PROVE  /\ SalvagedPools' = SalvagedPools
           /\ ProtocolShares' = ProtocolShares
<1>1. SalvagedPools' = SalvagedPools
    BY DEF SalvagedPools
<1>2. \A p \in SalvagedPools :
          receipt'[p].protocol_amount_lamports = receipt[p].protocol_amount_lamports
    BY DEF SalvagedPools, ReceiptKept
<1> QED
    BY <1>1, <1>2 DEF ProtocolShares

\* A pool whose accounts did not change stays conserved.
LEMMA PoolFrame ==
    ASSUME NEW p \in Pools, PoolConserved(p), ReceiptKept(p),
           Salvaged(p) => receipt[p] # None,
           Salvaged(p)' = Salvaged(p),
           audit'[p] = audit[p], Unfunded(p) => Unfunded(p)', Funded(p) => Funded(p)'
    PROVE  PoolConserved(p)'
<1>1. Salvaged(p) => (ReceiptTrue(p) => ReceiptTrue(p)')
    BY DEF ReceiptKept, ReceiptTrue
<1> QED
    BY <1>1 DEF PoolConserved

\* The accounts of the salvaged pool: what was there, the rents, the LP share.
LEMMA SalvageFunds ==
    ASSUME TypeOK, MoneyConserved,
           NEW p \in Pools, NEW s \in Submissions,
           NEW base \in Nat, NEW out \in Nat, NEW meme \in Nat, NEW spent \in Nat,
           NEW salvor \in Nat, NEW lp \in Nat, NEW protocol \in Nat,
           Settled(p, s, base, out, meme, spent, salvor, lp, protocol)
    PROVE  PoolConserved(p)' /\ Salvaged(p)' /\ ~Salvaged(p)
           /\ receipt'[p].protocol_amount_lamports = protocol
<1>1. registry[p] = None /\ ~Salvaged(p)
    BY DEF Settled, Salvaged
<1>2. Unfunded(p)
    BY <1>1 DEF MoneyConserved, PoolConserved
<1> DEFINE total == wsolAta + base + out
           mint == PoolMemecoinMint(p)
           dust == memeAta[mint] + meme - spent
<1>3. registry'[p] =
             [lp_snapshot_merkle_root |-> s.lp_snapshot_merkle_root,
              lp_total_supply_at_snapshot |-> s.lp_total_supply_at_snapshot,
              lp_holder_pool_total_lamports |-> lp,
              lp_holder_pool_claimed_lamports |-> 0]
    BY DEF Settled, TypeOK
<1>4. Salvaged(p)' /\ RemainingLamports(p)' = lp
  <2>1. registry'[p] \in PoolRegistry
      BY <1>3, ParameterAssumption DEF PoolRegistry, SalvagePoolParams
  <2> QED
      BY <1>3, <2>1, NoneAssumption DEF Salvaged, RemainingLamports
<1>5. receipt'[p] = IssuedReceipt(total,
          [salvor |-> salvor, lp |-> lp, protocol |-> protocol], mint, dust)
    BY DEF Settled, TypeOK
<1>6. PICK seen \in Audit :
          /\ audit'[p] = seen
          /\ seen.base = base /\ seen.out = out /\ seen.donated = wsolAta
    BY DEF Settled, TypeOK
<1>7. total = base + out + wsolAta /\ salvor + lp + protocol = total
    BY DEF Settled, TypeOK
<1>8. ReceiptTrue(p)'
  <2> HIDE DEF total, mint, dust
  <2> QED
      BY <1>5, <1>6, <1>7 DEF ReceiptTrue, IssuedReceipt
<1>9. Funded(p)'
  <2>1. /\ lpVault'[p] = LazyInit(lpVault[p]) + lp
        /\ solHolding'[p] = LazyInit(solHolding[p]) + ATA_RENT
        /\ gifts'[p] = gifts[p]
      BY DEF Settled, TypeOK
  <2>2. lpVault[p] \in Nat /\ solHolding[p] \in Nat /\ gifts[p] \in Nat
      BY DEF TypeOK
  <2>3. /\ LazyInit(lpVault[p]) <= RENT + gifts[p]
        /\ LazyInit(solHolding[p]) <= RENT + gifts[p]
        /\ LazyInit(solHolding[p]) >= RENT
        /\ LazyInit(lpVault[p]) \in Nat /\ LazyInit(solHolding[p]) \in Nat
      BY <1>2, <2>2, BoundAssumption DEF LazyInit, Unfunded, RentExempt
  <2> QED
      BY <1>4, <2>1, <2>2, <2>3, BoundAssumption DEF Funded
<1>10. receipt'[p].protocol_amount_lamports = protocol
    BY <1>5 DEF IssuedReceipt
<1> QED
    BY <1>1, <1>4, <1>6, <1>8, <1>9, <1>10 DEF PoolConserved

\* A salvage adds its protocol share to the treasury.
LEMMA SalvageMoney ==
    ASSUME TypeOK, ClaimsBooked, MoneyConserved,
           NEW p \in Pools, NEW s \in Submissions, NEW a \in AmmOutcomes,
           SalvagePool(p, s, a)
    PROVE  MoneyConserved'
<1>1. PICK base, out, meme, spent, salvor, lp, protocol \in Nat :
          Settled(p, s, base, out, meme, spent, salvor, lp, protocol)
    BY SalvageEffect
<1>2. /\ PoolConserved(p)' /\ Salvaged(p)' /\ ~Salvaged(p)
      /\ receipt'[p].protocol_amount_lamports = protocol
    BY <1>1, SalvageFunds
<1>3. ASSUME NEW q \in Pools, q # p
      PROVE  /\ registry'[q] = registry[q]
             /\ receipt'[q] = receipt[q]
             /\ audit'[q] = audit[q]
             /\ lpVault'[q] = lpVault[q]
             /\ solHolding'[q] = solHolding[q]
             /\ gifts'[q] = gifts[q]
             /\ Salvaged(q)' = Salvaged(q)
    BY <1>1, <1>3 DEF Settled, TypeOK, Salvaged
<1>4. ASSUME NEW q \in Pools PROVE PoolConserved(q)'
  <2>1. CASE q # p
    <3>1. PoolConserved(q) /\ (Salvaged(q) => receipt[q] # None)
        BY DEF MoneyConserved, ClaimsBooked, Booked
    <3>2. /\ Unfunded(q) => Unfunded(q)'
          /\ Funded(q) => Funded(q)'
          /\ ReceiptKept(q)
        BY <1>3, <2>1 DEF Unfunded, Funded, RemainingLamports, RentExempt, ReceiptKept
    <3> QED
        BY <1>3, <2>1, <3>1, <3>2, PoolFrame
  <2> QED
      BY <1>2, <2>1
<1>5. /\ SalvagedPools' = SalvagedPools \cup {p}
      /\ p \notin SalvagedPools
      /\ IsFiniteSet(SalvagedPools)
      /\ IsFiniteSet(SalvagedPools')
  <2>1. SalvagedPools' = SalvagedPools \cup {p} /\ p \notin SalvagedPools
      BY <1>2, <1>3 DEF SalvagedPools
  <2>2. IsFiniteSet(SalvagedPools)
      BY DEF MoneyConserved
  <2> QED
      BY <2>1, <2>2, FS_AddElement
<1>6. \A q \in SalvagedPools : q \in Pools /\ q # p /\ receipt[q] \in SalvageReceipt
                               /\ audit[q] \in Audit
    BY <1>2 DEF SalvagedPools, TypeOK, ClaimsBooked, Booked, MoneyConserved, PoolConserved
<1>7. TreasuryConserved'
  <2> DEFINE S == SalvagedPools
             f == ProtocolShares
             e == ProtocolShares'
             sum == SumFunction(f)
             sumx == SumFunction(e)
  <2>1. DOMAIN f = S /\ DOMAIN e = S \cup {p}
      BY <1>5 DEF ProtocolShares
  <2>2. \A q \in S : f[q] \in Int /\ e[q] = f[q]
    <3> SUFFICES ASSUME NEW q \in S PROVE f[q] \in Int /\ e[q] = f[q]
        OBVIOUS
    <3>1. f[q] = receipt[q].protocol_amount_lamports
        BY DEF ProtocolShares
    <3>2. e[q] = receipt'[q].protocol_amount_lamports
        BY <1>5 DEF ProtocolShares
    <3>3. receipt'[q] = receipt[q] /\ receipt[q].protocol_amount_lamports \in Nat
        BY <1>3, <1>6 DEF SalvageReceipt
    <3> QED
        BY <3>1, <3>2, <3>3
  <2>3. e[p] = protocol
      BY <1>2, <1>5 DEF ProtocolShares
  <2> HIDE DEF S, f, e
  <2>4. sumx = sum + protocol
      BY <1>5, <2>1, <2>2, <2>3, SumExtended DEF S
  <2>5. sum \in Int
      BY <1>5, <2>1, <2>2, SumType, SumFunctionIs DEF S
  <2>6. treasury \in Nat /\ treasury' = treasury + protocol
      BY <1>1 DEF Settled, TypeOK
  <2>7. treasury - sum \in {0} \cup GiftAmounts
      BY DEF MoneyConserved, TreasuryConserved, f
  <2> HIDE DEF sum, sumx
  <2>8. treasury' - sumx = treasury - sum
      BY <2>4, <2>5, <2>6
  <2> QED
      BY <2>7, <2>8 DEF TreasuryConserved, sumx, e
<1> QED
    BY <1>4, <1>5, <1>7 DEF MoneyConserved

(***************************************************************************)
(* A step that is no salvage conserves the money when each pool's accounts *)
(* stay explained and the treasury keeps its lamports or was empty and got *)
(* a gift.                                                                 *)
(***************************************************************************)
LEMMA MoneyFrame ==
    ASSUME TypeOK, ClaimsBooked, MoneyConserved,
           \A p \in Pools : /\ ReceiptKept(p)
                            /\ Salvaged(p)' = Salvaged(p)
                            /\ Salvaged(p) /\ Funded(p) => Funded(p)'
                            /\ Unfunded(p) => Unfunded(p)',
           audit' = audit,
           treasury' = treasury \/ (treasury = 0 /\ treasury' \in GiftAmounts)
    PROVE  MoneyConserved'
<1>1. \A p \in Pools : Salvaged(p) <=> receipt[p] # None
    BY DEF ClaimsBooked, Booked
<1>2. /\ SalvagedPools' = SalvagedPools
      /\ ProtocolShares' = ProtocolShares
    BY <1>1, SumsKept
<1>3. ASSUME NEW p \in Pools PROVE PoolConserved(p)'
  <2>1. PoolConserved(p)
      BY DEF MoneyConserved
  <2>2. Salvaged(p) => (ReceiptTrue(p) => ReceiptTrue(p)')
      BY <1>1 DEF ReceiptKept, ReceiptTrue
  <2> QED
      BY <2>1, <2>2 DEF PoolConserved
<1>4. TreasuryConserved'
  <2> DEFINE f == ProtocolShares
             sum == SumFunction(f)
  <2>1. treasury - sum \in {0} \cup GiftAmounts
      BY DEF MoneyConserved, TreasuryConserved
  <2>2. treasury' - sum \in {0} \cup GiftAmounts
    <3>1. CASE treasury' = treasury
        BY <2>1, <3>1
    <3>2. CASE treasury = 0 /\ treasury' \in GiftAmounts
      <4>1. IsFiniteSet(SalvagedPools) /\ DOMAIN f = SalvagedPools
          BY DEF MoneyConserved, ProtocolShares
      <4>2. \A p \in SalvagedPools : f[p] \in Nat
        <5>1. \A p \in SalvagedPools :
                  /\ receipt[p] \in SalvageReceipt
                  /\ f[p] = receipt[p].protocol_amount_lamports
            BY <1>1 DEF SalvagedPools, ProtocolShares, TypeOK
        <5> HIDE DEF f
        <5> QED
            BY <5>1 DEF SalvageReceipt
      <4> HIDE DEF f
      <4>3. sum \in Nat
          BY <4>1, <4>2, SumNat, SumFunctionIs
      <4> HIDE DEF sum
      <4>4. GiftAmounts \subseteq Nat
          BY ParameterAssumption
      <4>5. sum = 0
          BY <2>1, <3>2, <4>3, <4>4
      <4> QED
          BY <3>2, <4>4, <4>5
    <3> QED
        BY <3>1, <3>2
  <2> QED
      BY <1>2, <2>2 DEF TreasuryConserved
<1> QED
    BY <1>2, <1>3, <1>4 DEF MoneyConserved

\* A claim takes from the vault what it adds to the counter.
LEMMA ClaimMoney ==
    ASSUME TypeOK, ClaimsBooked, MoneyConserved,
           NEW p \in Pools, NEW h \in Holders, Claim(p, h)
    PROVE  MoneyConserved'
<1>1. PICK balance \in Nat :
             LET amount == ClaimAmount(p, balance) IN
             /\ registry[p] \in PoolRegistry
             /\ amount \in Nat
             /\ registry' = [registry EXCEPT ![p] =
                    [registry[p] EXCEPT !.lp_holder_pool_claimed_lamports =
                        registry[p].lp_holder_pool_claimed_lamports + amount]]
             /\ lpVault' = [lpVault EXCEPT ![p] = lpVault[p] - amount]
             /\ UNCHANGED <<config, receipt, solHolding, treasury, wsolAta,
                            memeAta, treasuryMeme, audit, envVars>>
    BY ClaimEffect
<1> DEFINE amount == ClaimAmount(p, balance)
           bucket == registry[p].lp_holder_pool_total_lamports
           paid == registry[p].lp_holder_pool_claimed_lamports
<1>2. /\ amount \in Nat /\ bucket \in Nat /\ paid \in Nat
      /\ registry[p] \in PoolRegistry
      /\ UNCHANGED <<receipt, solHolding, treasury, memeAta, treasuryMeme, audit, gifts>>
    BY <1>1 DEF PoolRegistry, envVars
<1>3. /\ registry'[p] = [registry[p] EXCEPT
                           !.lp_holder_pool_claimed_lamports = paid + amount]
      /\ lpVault'[p] = lpVault[p] - amount
      /\ \A q \in Pools : q # p => registry'[q] = registry[q] /\ lpVault'[q] = lpVault[q]
    BY <1>1 DEF TypeOK
<1> HIDE DEF amount
<1>4. /\ registry'[p] # None
      /\ RemainingLamports(p)' = bucket - (paid + amount)
  <2>1. registry'[p] \in PoolRegistry
      BY <1>2, <1>3 DEF PoolRegistry
  <2>2. /\ registry'[p].lp_holder_pool_total_lamports = bucket
        /\ registry'[p].lp_holder_pool_claimed_lamports = paid + amount
      BY <1>2, <1>3 DEF PoolRegistry
  <2> QED
      BY <2>1, <2>2, NoneAssumption DEF RemainingLamports
<1>5. RemainingLamports(p) = bucket - paid
    BY DEF RemainingLamports
<1> HIDE DEF bucket, paid
<1>6. ASSUME NEW q \in Pools
      PROVE  /\ ReceiptKept(q)
             /\ Salvaged(q)' = Salvaged(q)
             /\ Salvaged(q) /\ Funded(q) => Funded(q)'
             /\ Unfunded(q) => Unfunded(q)'
  <2>1. ReceiptKept(q)
      BY <1>2 DEF ReceiptKept
  <2>2. CASE q = p
    <3>1. lpVault[p] \in Nat /\ gifts[p] \in Nat /\ RENT \in Nat
        BY BoundAssumption DEF TypeOK
    <3>2. Salvaged(p)' = Salvaged(p)
        BY <1>2, <1>4, NoneAssumption DEF Salvaged
    <3>3. Funded(p) => Funded(p)'
        BY <1>2, <1>3, <1>4, <1>5, <3>1 DEF Funded
    <3>4. Unfunded(p) => Unfunded(p)'
        BY <1>2, <1>3, <3>1 DEF Unfunded, RentExempt
    <3> QED
        BY <2>1, <2>2, <3>2, <3>3, <3>4
  <2>3. CASE q # p
      BY <1>2, <1>3, <2>1, <2>3
         DEF Salvaged, Funded, Unfunded, RentExempt, RemainingLamports
  <2> QED
      BY <2>2, <2>3
<1> QED
    BY <1>2, <1>6, MoneyFrame

\* A sweep moves no lamports.
LEMMA SweepMoney ==
    ASSUME TypeOK, ClaimsBooked, MoneyConserved, NEW p \in Pools, SweepDust(p)
    PROVE  MoneyConserved'
<1>1. BooksKept /\ UNCHANGED <<registry, lpVault, solHolding, treasury, audit, gifts>>
    BY SweepKeepsBooks DEF SweepDust, envVars
<1>2. \A q \in Pools : /\ ReceiptKept(q)
                       /\ Salvaged(q)' = Salvaged(q)
                       /\ Salvaged(q) /\ Funded(q) => Funded(q)'
                       /\ Unfunded(q) => Unfunded(q)'
    BY <1>1 DEF BooksKept, Salvaged, Funded, Unfunded, RentExempt, RemainingLamports
<1> QED
    BY <1>1, <1>2, MoneyFrame

\* A gift to an account of a pool is on the pool's tally of gifts.
LEMMA GiftMoney ==
    ASSUME TypeOK, ClaimsBooked, MoneyConserved,
           NEW p \in Pools, NEW n \in GiftAmounts,
           GiftToLpVault(p, n) \/ GiftToSolHolding(p, n)
    PROVE  MoneyConserved'
<1>1. n \in Nat /\ RENT \in Nat /\ ATA_RENT \in Nat
    BY ParameterAssumption, BoundAssumption
<1>2. /\ UNCHANGED <<registry, receipt, treasury, memeAta, treasuryMeme, audit>>
      /\ gifts[p] = 0
      /\ gifts' = [gifts EXCEPT ![p] = n]
    BY DEF GiftToLpVault, GiftToSolHolding
<1>3. \/ /\ lpVault' = [lpVault EXCEPT ![p] = lpVault[p] + n]
         /\ solHolding' = solHolding
      \/ /\ lpVault' = lpVault
         /\ solHolding' = [solHolding EXCEPT ![p] = solHolding[p] + n]
         /\ RentExempt(solHolding'[p])
    BY DEF GiftToLpVault, GiftToSolHolding
<1>4. ASSUME NEW q \in Pools
      PROVE  /\ ReceiptKept(q)
             /\ Salvaged(q)' = Salvaged(q)
             /\ Salvaged(q) /\ Funded(q) => Funded(q)'
             /\ Unfunded(q) => Unfunded(q)'
  <2>1. ReceiptKept(q) /\ Salvaged(q)' = Salvaged(q)
      BY <1>2 DEF ReceiptKept, Salvaged
  <2>2. RemainingLamports(q)' = RemainingLamports(q)
      BY <1>2 DEF RemainingLamports
  <2>3. Salvaged(q) => RemainingLamports(q) \in Int
    <3>1. Salvaged(q) => registry[q] \in PoolRegistry
        BY DEF TypeOK, Salvaged
    <3> QED
        BY <3>1 DEF PoolRegistry, RemainingLamports
  <2>4. CASE q # p
    <3>1. /\ lpVault'[q] = lpVault[q] /\ solHolding'[q] = solHolding[q]
          /\ gifts'[q] = gifts[q]
        BY <1>2, <1>3, <2>4 DEF TypeOK
    <3> QED
        BY <2>1, <2>2, <3>1 DEF Funded, Unfunded, RentExempt
  <2>5. CASE q = p
    <3>1. /\ lpVault[p] \in Nat /\ solHolding[p] \in Nat
          /\ gifts[p] = 0 /\ gifts'[p] = n
          /\ \/ lpVault'[p] = lpVault[p] + n /\ solHolding'[p] = solHolding[p]
             \/ lpVault'[p] = lpVault[p] /\ solHolding'[p] = solHolding[p] + n
                /\ RentExempt(solHolding'[p])
        BY <1>2, <1>3 DEF TypeOK
    <3>2. Salvaged(p) /\ Funded(p) => Funded(p)'
        BY <1>1, <2>2, <2>3, <2>5, <3>1 DEF Funded
    <3>3. Unfunded(p) => Unfunded(p)'
        BY <1>1, <3>1 DEF Unfunded, RentExempt
    <3> QED
        BY <2>1, <2>5, <3>2, <3>3
  <2> QED
      BY <2>4, <2>5
<1> QED
    BY <1>2, <1>4, MoneyFrame

LEMMA NextMoney ==
    TypeOK /\ ClaimsBooked /\ MoneyConserved /\ [Next]_vars => MoneyConserved'
<1> SUFFICES ASSUME TypeOK, ClaimsBooked, MoneyConserved, [Next]_vars
             PROVE  MoneyConserved'
    OBVIOUS
<1>1. ASSUME UNCHANGED <<registry, receipt, lpVault, solHolding, audit, gifts>>,
             treasury' = treasury \/ (treasury = 0 /\ treasury' \in GiftAmounts)
      PROVE  MoneyConserved'
  <2>1. \A q \in Pools : /\ ReceiptKept(q)
                         /\ Salvaged(q)' = Salvaged(q)
                         /\ Salvaged(q) /\ Funded(q) => Funded(q)'
                         /\ Unfunded(q) => Unfunded(q)'
      BY <1>1 DEF ReceiptKept, Salvaged, Funded, Unfunded, RentExempt, RemainingLamports
  <2> QED
      BY <1>1, <2>1, MoneyFrame
<1>2. CASE Salvage
    BY <1>2, SalvageMoney DEF Salvage
<1>3. CASE \E p \in Pools, h \in Holders : Claim(p, h)
    BY <1>3, ClaimMoney
<1>4. CASE \E p \in Pools : SweepDust(p)
    BY <1>4, SweepMoney
<1>5. CASE \/ \E p \in Pools, n \in GiftAmounts : GiftToLpVault(p, n)
           \/ \E p \in Pools, n \in GiftAmounts : GiftToSolHolding(p, n)
    BY <1>5, GiftMoney
<1>6. CASE \/ \E n \in GiftAmounts : GiftToTreasury(n)
           \/ \E n \in GiftAmounts : GiftWsol(n)
    BY <1>1, <1>6 DEF GiftToTreasury, GiftWsol, envVars
<1>7. CASE \/ \E i \in InitParams : Initialize(i)
           \/ \E u \in ConfigUpdates : UpdateProtocolConfig(u)
           \/ \E b \in BOOLEAN : EmergencyPause(b)
    BY <1>1, <1>7 DEF Initialize, UpdateProtocolConfig, EmergencyPause, envVars
<1>8. CASE EnvNext
    BY <1>1, <1>8
       DEF EnvNext, Tick, ScannerIssuesCert, LpSupplyMoves, programVars
<1>9. CASE UNCHANGED vars
    BY <1>1, <1>9 DEF vars, programVars, envVars
<1> QED
    BY <1>2, <1>3, <1>4, <1>5, <1>6, <1>7, <1>8, <1>9
       DEF Next, ProgramNext, GiftNext

(***************************************************************************)
(* Every settlement pays out exactly what came in, and the treasury holds  *)
(* the protocol shares of all of them, for any number of pools.            *)
(***************************************************************************)
THEOREM ProceedsAlwaysConserved == Spec => []ProceedsConserved
    BY InitType, NextType, InitBooked, NextBooked, InitMoney, NextMoney,
       MoneyMeans, PTL DEF Spec

-----------------------------------------------------------------------------
(***************************************************************************)
(* The memecoin a salvage retains.                                         *)
(***************************************************************************)

\* A salvage issues a receipt of its mint that has not been used for a sweep.
LEMMA SalvageDust ==
    ASSUME TypeOK, RetainedDustRecoverable,
           NEW p \in Pools, NEW s \in Submissions, NEW a \in AmmOutcomes,
           SalvagePool(p, s, a)
    PROVE  RetainedDustRecoverable'
<1>1. PICK base, out, meme, spent, salvor, lp, protocol \in Nat :
          Settled(p, s, base, out, meme, spent, salvor, lp, protocol)
    BY SalvageEffect
<1> DEFINE mint == PoolMemecoinMint(p)
           total == wsolAta + base + out
           split == [salvor |-> salvor, lp |-> lp, protocol |-> protocol]
           dust == memeAta[mint] + meme - spent
<1>2. /\ receipt[p] = None
      /\ mint \in Mints
      /\ receipt' = [receipt EXCEPT ![p] = IssuedReceipt(total, split, mint, dust)]
      /\ memeAta' = [memeAta EXCEPT ![mint] = dust]
    BY <1>1 DEF Settled
<1> HIDE DEF mint, total, split, dust
<1>3. /\ receipt'[p] = IssuedReceipt(total, split, mint, dust)
      /\ \A q \in Pools : q # p => receipt'[q] = receipt[q]
      /\ \A n \in Mints : n # mint => memeAta'[n] = memeAta[n]
    BY <1>2 DEF TypeOK
<1>4. receipt'[p].dust_swept_at_ts = 0 /\ receipt'[p].memecoin_mint = mint
    BY <1>3 DEF IssuedReceipt
<1>5. receipt'[p] # None
  <2>1. memeAta[mint] \in Nat /\ wsolAta \in Nat /\ spent <= memeAta[mint] + meme
      BY <1>1, <1>2 DEF TypeOK, Settled, mint
  <2>2. dust \in Nat /\ total \in Nat
      BY <2>1 DEF dust, total
  <2>3. receipt'[p] \in SalvageReceipt
      BY <1>2, <1>3, <2>2 DEF IssuedReceipt, SalvageReceipt, split
  <2> QED
      BY <2>3, NoneAssumption
<1>6. ASSUME NEW n \in Mints, memeAta'[n] > 0
      PROVE  \E q \in Pools : (SweepAccepted(q) /\ receipt[q].memecoin_mint = n)'
  <2>1. CASE n = mint
      BY <1>4, <1>5, <1>6, <2>1 DEF SweepAccepted
  <2>2. CASE n # mint
    <3>1. PICK q \in Pools : SweepAccepted(q) /\ receipt[q].memecoin_mint = n
        BY <1>3, <1>6, <2>2 DEF RetainedDustRecoverable
    <3>2. receipt'[q] = receipt[q] /\ memeAta'[n] = memeAta[n]
        BY <1>2, <1>3, <2>2, <3>1 DEF SweepAccepted
    <3> QED
        BY <3>1, <3>2 DEF SweepAccepted
  <2> QED
      BY <2>1, <2>2
<1> QED
    BY <1>6 DEF RetainedDustRecoverable

\* A sweep uses a receipt up, and leaves nothing of its mint to sweep.
LEMMA SweepDustAll ==
    ASSUME TypeOK, RetainedDustRecoverable, NEW p \in Pools, SweepDust(p)
    PROVE  RetainedDustRecoverable'
<1> DEFINE mint == receipt[p].memecoin_mint
<1>1. /\ receipt' = [receipt EXCEPT ![p].dust_swept_at_ts = now]
      /\ memeAta' = [memeAta EXCEPT ![mint] = 0]
    BY DEF SweepDust
<1> HIDE DEF mint
<1>2. ASSUME NEW n \in Mints, memeAta'[n] > 0
      PROVE  \E q \in Pools : (SweepAccepted(q) /\ receipt[q].memecoin_mint = n)'
  <2>1. n # mint /\ memeAta'[n] = memeAta[n]
      BY <1>1, <1>2 DEF TypeOK
  <2>2. PICK q \in Pools : SweepAccepted(q) /\ receipt[q].memecoin_mint = n
      BY <1>2, <2>1 DEF RetainedDustRecoverable
  <2>3. q # p
      BY <2>1, <2>2 DEF mint
  <2>4. receipt'[q] = receipt[q]
      BY <1>1, <2>3 DEF TypeOK
  <2> QED
      BY <2>1, <2>2, <2>4 DEF SweepAccepted
<1> QED
    BY <1>2 DEF RetainedDustRecoverable

LEMMA NextDust ==
    TypeOK /\ RetainedDustRecoverable /\ [Next]_vars => RetainedDustRecoverable'
<1> SUFFICES ASSUME TypeOK, RetainedDustRecoverable, [Next]_vars
             PROVE  RetainedDustRecoverable'
    OBVIOUS
<1>1. ASSUME UNCHANGED <<receipt, memeAta>> PROVE RetainedDustRecoverable'
    BY <1>1 DEF RetainedDustRecoverable, SweepAccepted
<1>2. CASE Salvage
    BY <1>2, SalvageDust DEF Salvage
<1>3. CASE \E p \in Pools, h \in Holders : Claim(p, h)
    BY <1>1, <1>3, ClaimEffect
<1>4. CASE \E p \in Pools : SweepDust(p)
    BY <1>4, SweepDustAll
<1>5. CASE GiftNext
    BY <1>1, <1>5
       DEF GiftNext, GiftToLpVault, GiftToSolHolding, GiftToTreasury, GiftWsol
<1>6. CASE \/ \E i \in InitParams : Initialize(i)
           \/ \E u \in ConfigUpdates : UpdateProtocolConfig(u)
           \/ \E b \in BOOLEAN : EmergencyPause(b)
    BY <1>1, <1>6 DEF Initialize, UpdateProtocolConfig, EmergencyPause
<1>7. CASE EnvNext
    BY <1>1, <1>7
       DEF EnvNext, Tick, ScannerIssuesCert, LpSupplyMoves, programVars
<1>8. CASE UNCHANGED vars
    BY <1>1, <1>8 DEF vars, programVars
<1> QED
    BY <1>2, <1>3, <1>4, <1>5, <1>6, <1>7, <1>8 DEF Next, ProgramNext

(***************************************************************************)
(* Retained memecoin can always be recovered, whichever pools share a mint *)
(* and however salvages and sweeps interleave: the last salvage that could *)
(* leave any issued a receipt, and the sweep that used that receipt up     *)
(* took everything.                                                        *)
(***************************************************************************)
THEOREM DustAlwaysRecoverable == Spec => []RetainedDustRecoverable
<1>1. Init => RetainedDustRecoverable
    BY DEF Init, RetainedDustRecoverable
<1> QED
    BY <1>1, InitType, NextType, NextDust, PTL DEF Spec

-----------------------------------------------------------------------------
(***************************************************************************)
(* The vault implements the escrow.                                        *)
(***************************************************************************)

\* The refinement mapping, as GraveVault gives it to Escrow.
PromiseOf(p) ==
    IF registry[p] = None THEN None
    ELSE [sum |-> registry[p].lp_holder_pool_total_lamports,
          roster |-> registry[p].lp_snapshot_merkle_root,
          whole |-> registry[p].lp_total_supply_at_snapshot]
LeftOf(p) == IF registry[p] = None THEN 0 ELSE RemainingLamports(p)
DrawnOf(p, h) ==
    IF claimRecord[p][h] = None THEN None ELSE claimRecord[p][h].amount_lamports

promise == [p \in Pools |-> PromiseOf(p)]
left == [p \in Pools |-> LeftOf(p)]
drawn == [p \in Pools |-> [h \in Holders |-> DrawnOf(p, h)]]

\* Escrow's actions in the terms of the mapping.
LEMMA EscrowActions ==
    /\ Escrow!vars = <<promise, left, drawn>>
    /\ \A p \in Pools :
          (/\ promise[p] = None
           /\ promise'[p] \in Escrow!Promise
           /\ promise' = [promise EXCEPT ![p] = promise'[p]]
           /\ left' = [left EXCEPT ![p] = promise'[p].sum]
           /\ drawn' = drawn)
          => Escrow!PutAside(p)
    /\ \A p \in Pools, h \in Holders :
          (/\ promise[p] # None
           /\ drawn[p][h] = None
           /\ \E leaf \in promise[p].roster :
                 LET share == (promise[p].sum * leaf[2]) \div promise[p].whole
                 IN /\ leaf[1] = h
                    /\ leaf[2] > 0
                    /\ share <= left[p]
                    /\ left' = [left EXCEPT ![p] = @ - share]
                    /\ drawn' = [drawn EXCEPT ![p][h] = share]
           /\ promise' = promise)
          => Escrow!Draw(p, h)
<1> USE DEF promise, left, drawn, PromiseOf, LeftOf, DrawnOf
<1>1. Escrow!vars = <<promise, left, drawn>>
    BY DEF Escrow!vars
<1>2. ASSUME NEW p \in Pools,
             promise[p] = None,
             promise'[p] \in Escrow!Promise,
             promise' = [promise EXCEPT ![p] = promise'[p]],
             left' = [left EXCEPT ![p] = promise'[p].sum],
             drawn' = drawn
      PROVE  Escrow!PutAside(p)
    BY <1>2, Zenon DEF Escrow!PutAside
<1>3. ASSUME NEW p \in Pools, NEW h \in Holders,
             promise[p] # None,
             drawn[p][h] = None,
             \E leaf \in promise[p].roster :
                 LET share == (promise[p].sum * leaf[2]) \div promise[p].whole
                 IN /\ leaf[1] = h
                    /\ leaf[2] > 0
                    /\ share <= left[p]
                    /\ left' = [left EXCEPT ![p] = @ - share]
                    /\ drawn' = [drawn EXCEPT ![p][h] = share],
             promise' = promise
      PROVE  Escrow!Draw(p, h)
    BY <1>3, Zenon DEF Escrow!Draw
<1> QED
    BY <1>1, <1>2, <1>3

LEMMA EscrowInit == Init => Escrow!Init
BY DEF Init, Escrow!Init

\* A salvage puts the LP share aside.
LEMMA SalvagePutsAside ==
    ASSUME TypeOK,
           NEW p \in Pools, NEW s \in Submissions, NEW a \in AmmOutcomes,
           SalvagePool(p, s, a)
    PROVE  Escrow!PutAside(p)
<1>1. PICK base, out, meme, spent, salvor, lp, protocol \in Nat :
          Settled(p, s, base, out, meme, spent, salvor, lp, protocol)
    BY SalvageEffect
<1> DEFINE fresh == [lp_snapshot_merkle_root |-> s.lp_snapshot_merkle_root,
                     lp_total_supply_at_snapshot |-> s.lp_total_supply_at_snapshot,
                     lp_holder_pool_total_lamports |-> lp,
                     lp_holder_pool_claimed_lamports |-> 0]
<1>2. /\ registry[p] = None
      /\ registry'[p] = fresh
      /\ \A q \in Pools : q # p => registry'[q] = registry[q]
      /\ claimRecord' = claimRecord
    BY <1>1 DEF Settled, TypeOK
<1>3. /\ s.lp_snapshot_merkle_root \in SUBSET (Holders \X Nat)
      /\ s.lp_total_supply_at_snapshot \in Nat
    BY ParameterAssumption DEF SalvagePoolParams, Snapshot
<1>4. s.lp_total_supply_at_snapshot \in Nat \ {0}
  <2>1. registry'[p].lp_total_supply_at_snapshot \in Nat \ {0}
      BY SalvageRecords
  <2> QED
      BY <1>2, <2>1
<1>5. fresh # None
    BY <1>3, NoneAssumption DEF PoolRegistry, Snapshot
<1>6. /\ PromiseOf(p)' = [sum |-> lp, roster |-> s.lp_snapshot_merkle_root,
                          whole |-> s.lp_total_supply_at_snapshot]
      /\ LeftOf(p)' = lp
    BY <1>2, <1>5 DEF PromiseOf, LeftOf, RemainingLamports
<1>7. PromiseOf(p)' \in Escrow!Promise /\ (PromiseOf(p)').sum = lp
    BY <1>3, <1>4, <1>6 DEF Escrow!Promise
<1>8. \A q \in Pools : q # p => PromiseOf(q)' = PromiseOf(q) /\ LeftOf(q)' = LeftOf(q)
    BY <1>2 DEF PromiseOf, LeftOf, RemainingLamports
<1>9. promise[p] = None /\ promise'[p] = PromiseOf(p)'
    BY <1>2 DEF promise, PromiseOf
<1>10. promise' = [promise EXCEPT ![p] = promise'[p]]
    BY <1>8, <1>9 DEF promise
<1>11. left' = [left EXCEPT ![p] = promise'[p].sum]
    BY <1>6, <1>7, <1>8, <1>9 DEF left
<1>12. drawn' = drawn
    BY <1>2 DEF drawn, DrawnOf
<1> QED
    BY <1>7, <1>9, <1>10, <1>11, <1>12, EscrowActions

\* A claim draws the share of its leaf.
LEMMA ClaimDraws ==
    ASSUME TypeOK, NEW p \in Pools, NEW h \in Holders, Claim(p, h)
    PROVE  Escrow!Draw(p, h)
<1>1. PICK balance \in Nat :
             LET amount == ClaimAmount(p, balance) IN
             /\ registry[p] \in PoolRegistry
             /\ amount \in Nat
             /\ ClaimAccepted(p, h, balance)
             /\ registry' = [registry EXCEPT ![p] =
                    [registry[p] EXCEPT !.lp_holder_pool_claimed_lamports =
                        registry[p].lp_holder_pool_claimed_lamports + amount]]
             /\ claimRecord' = [claimRecord EXCEPT ![p] =
                    [claimRecord[p] EXCEPT ![h] =
                        [amount_lamports |-> amount,
                         lp_balance_at_snapshot |-> balance]]]
    BY ClaimEffect
<1> DEFINE amount == ClaimAmount(p, balance)
           bucket == registry[p].lp_holder_pool_total_lamports
           paid == registry[p].lp_holder_pool_claimed_lamports
           whole == registry[p].lp_total_supply_at_snapshot
           root == registry[p].lp_snapshot_merkle_root
           record == [amount_lamports |-> amount, lp_balance_at_snapshot |-> balance]
<1>2. /\ registry[p] \in PoolRegistry /\ registry[p] # None
      /\ amount \in Nat /\ bucket \in Nat /\ paid \in Nat
      /\ whole \in Nat \ {0} /\ root \in SUBSET (Holders \X Nat)
    BY <1>1, NoneAssumption DEF PoolRegistry, Snapshot, ClaimAccepted
<1>3. /\ claimRecord[p][h] = None
      /\ balance > 0
      /\ <<h, balance>> \in root
      /\ paid + amount <= bucket
      /\ amount = (bucket * balance) \div whole
    BY <1>1 DEF ClaimAccepted, VerifyProof, ClaimAmount, ProRata
<1>4. /\ registry'[p] = [registry[p] EXCEPT
                           !.lp_holder_pool_claimed_lamports = paid + amount]
      /\ \A q \in Pools : q # p => registry'[q] = registry[q] /\ claimRecord'[q] = claimRecord[q]
      /\ claimRecord'[p] = [claimRecord[p] EXCEPT ![h] = record]
    BY <1>1 DEF TypeOK
<1> HIDE DEF amount, record
<1>5. /\ registry'[p] # None
      /\ registry'[p].lp_holder_pool_total_lamports = bucket
      /\ registry'[p].lp_holder_pool_claimed_lamports = paid + amount
      /\ registry'[p].lp_snapshot_merkle_root = root
      /\ registry'[p].lp_total_supply_at_snapshot = whole
  <2>1. registry'[p] \in PoolRegistry
      BY <1>2, <1>4 DEF PoolRegistry
  <2> QED
      BY <1>2, <1>4, <2>1, NoneAssumption DEF PoolRegistry
<1>6. PromiseOf(p) = [sum |-> bucket, roster |-> root, whole |-> whole]
    BY <1>2 DEF PromiseOf
<1>7. PromiseOf(p)' = PromiseOf(p)
    BY <1>5, <1>6 DEF PromiseOf
<1>8. LeftOf(p) = bucket - paid /\ LeftOf(p)' = bucket - (paid + amount)
    BY <1>2, <1>5 DEF LeftOf, RemainingLamports
<1>9. \A q \in Pools : q # p => PromiseOf(q)' = PromiseOf(q) /\ LeftOf(q)' = LeftOf(q)
    BY <1>4 DEF PromiseOf, LeftOf, RemainingLamports
<1>10. /\ DrawnOf(p, h) = None
       /\ DrawnOf(p, h)' = amount
  <2>1. record # None /\ record.amount_lamports = amount
      BY <1>2, NoneAssumption DEF record, ClaimRecord
  <2>2. claimRecord'[p][h] = record
      BY <1>4 DEF TypeOK
  <2> QED
      BY <1>3, <2>1, <2>2 DEF DrawnOf
<1>11. \A q \in Pools, k \in Holders : q # p \/ k # h => DrawnOf(q, k)' = DrawnOf(q, k)
  <2>1. \A q \in Pools, k \in Holders :
            q # p \/ k # h => claimRecord'[q][k] = claimRecord[q][k]
      BY <1>4 DEF TypeOK
  <2> QED
      BY <2>1 DEF DrawnOf
<1> HIDE DEF bucket, paid, whole, root
<1>12. /\ promise[p] # None
       /\ promise[p].sum = bucket /\ promise[p].roster = root /\ promise[p].whole = whole
  <2>1. PromiseOf(p) \in Escrow!Promise
      BY <1>2, <1>6 DEF Escrow!Promise
  <2>2. promise[p] = PromiseOf(p)
      BY DEF promise
  <2> QED
      BY <1>6, <2>1, <2>2, EscrowAssumption
<1>13. promise' = promise
    BY <1>7, <1>9 DEF promise
<1>14. left[p] = bucket - paid /\ left' = [left EXCEPT ![p] = left[p] - amount]
  <2>1. LeftOf(p)' = LeftOf(p) - amount
      BY <1>2, <1>8
  <2> QED
      BY <1>8, <1>9, <2>1 DEF left
<1>15. drawn[p][h] = None /\ drawn' = [drawn EXCEPT ![p] = [drawn[p] EXCEPT ![h] = amount]]
    BY <1>10, <1>11 DEF drawn
<1>16. \E leaf \in promise[p].roster :
             LET share == (promise[p].sum * leaf[2]) \div promise[p].whole
             IN /\ leaf[1] = h
                /\ leaf[2] > 0
                /\ share <= left[p]
                /\ left' = [left EXCEPT ![p] = @ - share]
                /\ drawn' = [drawn EXCEPT ![p][h] = share]
  <2> DEFINE leaf == <<h, balance>>
  <2>1. leaf[1] = h /\ leaf[2] = balance /\ leaf \in promise[p].roster
      BY <1>3, <1>12
  <2>2. (promise[p].sum * leaf[2]) \div promise[p].whole = amount
      BY <1>3, <1>12, <2>1 DEF bucket, whole
  <2>3. amount <= left[p]
      BY <1>2, <1>3, <1>14
  <2> HIDE DEF leaf
  <2> QED
      BY <1>3, <1>14, <1>15, <2>1, <2>2, <2>3
<1> QED
    BY <1>12, <1>13, <1>15, <1>16, EscrowActions

LEMMA NextEscrow == TypeOK /\ [Next]_vars => [Escrow!Next]_(Escrow!vars)
<1> SUFFICES ASSUME TypeOK, [Next]_vars PROVE [Escrow!Next]_(Escrow!vars)
    OBVIOUS
<1>1. CASE Salvage
    BY <1>1, SalvagePutsAside DEF Salvage, Escrow!Next
<1>2. CASE \E p \in Pools, h \in Holders : Claim(p, h)
    BY <1>2, ClaimDraws DEF Escrow!Next
<1>3. CASE ~Salvage /\ ~ \E p \in Pools, h \in Holders : Claim(p, h)
  <2>1. UNCHANGED <<registry, claimRecord>>
      BY <1>3, OtherStepsKeepBooks DEF BooksKept
  <2>2. promise' = promise /\ left' = left /\ drawn' = drawn
      BY <2>1 DEF promise, left, drawn, PromiseOf, LeftOf, DrawnOf, RemainingLamports
  <2>3. Escrow!vars = <<promise, left, drawn>>
      BY EscrowActions
  <2>4. (Escrow!vars)' = <<promise, left, drawn>>'
      BY EscrowActions DEF Escrow!vars, promise, left, drawn, PromiseOf, LeftOf, DrawnOf
  <2> QED
      BY <2>2, <2>3, <2>4
<1> QED
    BY <1>1, <1>2, <1>3

(***************************************************************************)
(* Refinement: every behaviour of the vault is a behaviour of the escrow.  *)
(* salvage_pool puts a promise aside, claim_lp_proceeds draws from it, and *)
(* no other handler can be seen.                                           *)
(***************************************************************************)
THEOREM VaultImplementsEscrow == Spec => ImplementsLpEscrow
    BY EscrowInit, InitType, NextType, NextEscrow, PTL
       DEF Spec, ImplementsLpEscrow, Escrow!Spec
=============================================================================
