--------------------------- MODULE MCGraveScanner ---------------------------
(***************************************************************************)
(* Small instances of GraveScanner for TLC: one pool, an epoch of a slot   *)
(* or two, thresholds of a few units.                                      *)
(***************************************************************************)
EXTENDS GraveScanner, TLC

CONSTANTS p1, k1, keyA, keyB, pairA, pairB

OnePair == p1 :> pairA

Dead  == [base_reserve |-> 100, quote_reserve |-> 5, lp_supply |-> 3]
Risen == [base_reserve |-> 4, quote_reserve |-> 100, lp_supply |-> 3]
Empty == [base_reserve |-> 100, quote_reserve |-> 1, lp_supply |-> 3]
Burnt == [base_reserve |-> 0, quote_reserve |-> 0, lp_supply |-> 0]

Params == [inactivity_seconds |-> 2, price_collapse_bps |-> 9000,
           min_tvl_lamports |-> 3, lp_burn_dust_threshold |-> 1,
           anchor_staleness_seconds |-> MIN_ANCHOR_STALENESS_SECONDS,
           cert_ttl_seconds |-> MIN_CERT_TTL_SECONDS, authority |-> keyA]

\* A deployment and one whose staleness window is below the floor (refused).
SomeParams == {Params, [Params EXCEPT !.anchor_staleness_seconds = 1]}

\* An account from before the floor existed.
Legacy == {[InitialConfig(Params) EXCEPT !.anchor_staleness_seconds = 1]}

NoUpdate == [inactivity_seconds |-> None, price_collapse_bps |-> None,
             min_tvl_lamports |-> None, lp_burn_dust_threshold |-> None,
             anchor_staleness_seconds |-> None, cert_ttl_seconds |-> None,
             activity_oracle |-> None, launch_price_oracle |-> None]

LifecycleUpdates == {[NoUpdate EXCEPT !.cert_ttl_seconds = n] : n \in {0, 2}}

\* The initial key is rotated out for an honest one.
RotatedParams == {[Params EXCEPT !.authority = keyB, !.inactivity_seconds = 3]}
RotatedUpdates == {[NoUpdate EXCEPT !.activity_oracle = keyA]}

DriftUpdates == {[NoUpdate EXCEPT !.inactivity_seconds = 1]}

DeadMarket == {Dead}
TwoMarkets == {Dead, Risen}
AllMarkets == {Dead, Risen, Empty, Burnt}
=============================================================================
