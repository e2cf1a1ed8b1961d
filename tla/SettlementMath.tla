--------------------------- MODULE SettlementMath ---------------------------
(***************************************************************************)
(* The integer arithmetic of GraveVault: the Charter constants, the        *)
(* slippage cap and the floor it implies, the 40/40/20 split and the       *)
(* pro-rata claim.  The code computes every product in u128 and divides    *)
(* before it narrows to u64, so over u64 operands no intermediate wraps    *)
(* and the mathematical operators below are exact; where a result may not  *)
(* fit a u64 (the pro-rata claim) the caller checks it.                    *)
(***************************************************************************)
EXTENDS Integers

BPS_DENOMINATOR == 10000
PROTOCOL_SHARE_BPS_CEILING == 2000
HARD_MAX_SLIPPAGE_BPS == 1000

DEFAULT_LP_HOLDER_SHARE_BPS == 4000
DEFAULT_SALVOR_SHARE_BPS == 4000
DEFAULT_PROTOCOL_SHARE_BPS == 2000
DEFAULT_MAX_SLIPPAGE_BPS == 300
DEFAULT_JUPITER_DUST_THRESHOLD_LAMPORTS == 666666

Lesser(a, b) == IF a <= b THEN a ELSE b

\* bps of an amount, rounded down.
BpsOf(amount, bps) == (amount * bps) \div BPS_DENOMINATOR

\* Mutant: the hard ceiling is not applied.
SlippageCapUnclamped(configBps, overrideBps) == Lesser(configBps, overrideBps)

(***************************************************************************)
(* The configured cap clamped by the hard ceiling, tightened further by    *)
(* the salvor's own override.  No override is modelled as an override      *)
(* that does not tighten, see GraveVault!Override.                         *)
(***************************************************************************)
EffectiveSlippageCapBps(configBps, overrideBps) ==
    Lesser(Lesser(configBps, HARD_MAX_SLIPPAGE_BPS), overrideBps)

\* What the pool's own reserves say the memecoin is worth in WSOL.
ImpliedWsolOut(memecoin, wsolReserve, memecoinReserve) ==
    (memecoin * wsolReserve) \div memecoinReserve

\* The smallest min_quote_output a salvor may submit.
MinSwapFloor(implied, capBps) == BpsOf(implied, BPS_DENOMINATOR - capBps)

\* Mutant: the protocol share is rounded down on its own.
SplitProceedsRounded(total, salvorBps, lpBps) ==
    [salvor   |-> BpsOf(total, salvorBps),
     lp       |-> BpsOf(total, lpBps),
     protocol |-> BpsOf(total, BPS_DENOMINATOR - salvorBps - lpBps)]

(***************************************************************************)
(* The settlement split: salvor and LP holders get their floor, the        *)
(* protocol share is the remainder.                                        *)
(***************************************************************************)
SplitProceeds(total, salvorBps, lpBps) ==
    LET salvor == BpsOf(total, salvorBps)
        lp     == BpsOf(total, lpBps)
    IN  [salvor |-> salvor, lp |-> lp, protocol |-> total - salvor - lp]

\* A holder's share of the LP bucket, rounded down.
ProRata(bucket, balance, supply) == (bucket * balance) \div supply
=============================================================================
