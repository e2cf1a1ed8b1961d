---------------------------- MODULE MCGraveYield ----------------------------
(***************************************************************************)
(* A small instance of the two programs together: one pool that is derelict*)
(* from the start and may come back to life, a dishonest and an honest     *)
(* oracle key, one holder.                                                 *)
(***************************************************************************)
EXTENDS GraveYield, TLC

CONSTANTS p1, k1, keyA, keyB, pairA, h1, wsol, meme

OnePair == p1 :> pairA
OnePool == p1 :> [owner |-> "raydium_v4", coin_mint |-> meme, pc_mint |-> wsol]

Dead == [base_reserve |-> 100, quote_reserve |-> 5, lp_supply |-> 3]
DeadMarket == {Dead}

ScannerParams ==
    {[inactivity_seconds |-> 4, price_collapse_bps |-> 9000,
      min_tvl_lamports |-> 3, lp_burn_dust_threshold |-> 1,
      anchor_staleness_seconds |-> MIN_ANCHOR_STALENESS_SECONDS,
      cert_ttl_seconds |-> CERT_TTL, authority |-> keyB]}

\* The initial key is rotated out for an honest one.
ScannerUpdates ==
    {[inactivity_seconds |-> None, price_collapse_bps |-> None,
      min_tvl_lamports |-> None, lp_burn_dust_threshold |-> None,
      anchor_staleness_seconds |-> None, cert_ttl_seconds |-> None,
      activity_oracle |-> keyA, launch_price_oracle |-> None]}

VaultParams ==
    {[lp_holder_share_bps |-> 0, salvor_share_bps |-> 0, protocol_share_bps |-> 0,
      max_slippage_bps |-> 0, jupiter_dust_threshold_lamports |-> 0]}

VaultUpdates ==
    {[lp_holder_share_bps |-> None, salvor_share_bps |-> 4500,
      protocol_share_bps |-> 1500, max_slippage_bps |-> None,
      jupiter_dust_threshold_lamports |-> None]}

OneSubmission ==
    {[memecoin_mint |-> meme, lp_snapshot_merkle_root |-> {<<h1, 3>>},
      lp_total_supply_at_snapshot |-> 3, salvor_lp_amount |-> 2,
      min_quote_output_lamports |-> 0, max_slippage_bps_override |-> None,
      route_accounts |-> {"vault_base_token_account", "venue"},
      route_data_empty |-> FALSE]}

OneWithdraw == {[coin |-> 60, pc |-> 3, coin_vault |-> 40, pc_vault |-> 2]}
=============================================================================
