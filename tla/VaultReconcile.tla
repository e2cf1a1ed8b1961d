--------------------------- MODULE VaultReconcile ---------------------------
(***************************************************************************)
(* What the off-chain vault observer checks of the accounts GraveVault     *)
(* owns (ops/src/vaultObserver.ts): R1 and R2 of a salvage receipt, C1-C3  *)
(* of one pool's receipt, registry and claim records.  An account that     *)
(* does not exist is None; claims is the set of the pool's claim records   *)
(* as <<holder, amount>> pairs.                                            *)
(***************************************************************************)
EXTENDS Integers, FiniteSetsExt

CONSTANT None

LP_HOLDER_SHARE_BPS == 4000
SALVOR_SHARE_BPS == 4000
PROTOCOL_SHARE_BPS == 2000

\* Mutant: no tolerance.
shareMatchesExactly(amount, total, bps) == amount = (total * bps) \div 10000

\* |amount - bps of total| is at most one lamport.
shareMatches(amount, total, bps) ==
    LET share == (total * bps) \div 10000
    IN  amount - share \in -1 .. 1

r1Sum(receipt) ==
    receipt.lp_holder_amount_lamports + receipt.salvor_amount_lamports
        + receipt.protocol_amount_lamports = receipt.total_proceeds_lamports

r2Shares(receipt) ==
    LET total == receipt.total_proceeds_lamports IN
    /\ shareMatches(receipt.lp_holder_amount_lamports, total, LP_HOLDER_SHARE_BPS)
    /\ shareMatches(receipt.salvor_amount_lamports, total, SALVOR_SHARE_BPS)
    /\ shareMatches(receipt.protocol_amount_lamports, total, PROTOCOL_SHARE_BPS)

claimedLamports(claims) == SumFunction([c \in claims |-> c[2]])

c1Accounted(registry, claims) ==
    IF registry = None
        THEN claims = {}
        ELSE registry.lp_holder_pool_claimed_lamports = claimedLamports(claims)

c2WithinCeiling(receipt, claims) ==
    IF receipt = None
        THEN claims = {}
        ELSE claimedLamports(claims) <= receipt.lp_holder_amount_lamports

\* A pool with only one of the two accounts has nothing to disagree with.
c3Agrees(receipt, registry) ==
    receipt # None /\ registry # None
        => registry.lp_holder_pool_total_lamports = receipt.lp_holder_amount_lamports
=============================================================================
