------------------------------ MODULE MCIndexer ------------------------------
(***************************************************************************)
(* Small instances of Indexer for TLC: two pools that become derelict.     *)
(***************************************************************************)
EXTENDS Indexer

CONSTANTS p1, p2

\* The cycles are alike; used for safety only.
CycleSymmetry == Permutations(Cycles)

Rich == [wsol |-> TRUE, tvlLamports |-> 2, lpSupply |-> 1, priceCollapseMargin |-> 1]
Drained == [Rich EXCEPT !.tvlLamports = 0]

\* Alike, until a trade drains one of them.
RichOrDrained == {Rich, Drained}
BothRich == {[p \in Pools |-> Rich]}

\* One more signature that is not a swap takes p2's swap out of a scan of two.
OldSwap == [blockTime |-> 1, amm |-> TRUE]
SwapThenOther ==
    [p \in Pools |-> IF p = p2 THEN <<OldSwap, [OldSwap EXCEPT !.amm = FALSE]>>
                     ELSE <<OldSwap>>]
=============================================================================
