---------------------------- MODULE MCGraveVault ----------------------------
(***************************************************************************)
(* Small instances of GraveVault for TLC.  Amounts are a few lamports, so  *)
(* that floor divisions, the rent floor and the dust threshold all bite;   *)
(* shares keep their real basis points.                                    *)
(***************************************************************************)
EXTENDS GraveVault, TLC

CONSTANTS h1, h2, h3, p1, p2, wsol, meme, quote

\* p1 has WSOL on its coin side, p2 on its pc side; both trade the same memecoin.
V4CoinSide == [owner |-> "raydium_v4", coin_mint |-> wsol, pc_mint |-> meme]
V4PcSide   == [owner |-> "raydium_v4", coin_mint |-> meme, pc_mint |-> wsol]
V4NoWsol   == [owner |-> "raydium_v4", coin_mint |-> meme, pc_mint |-> quote]
ClmmPool   == [owner |-> "raydium_clmm", coin_mint |-> wsol, pc_mint |-> meme]

OnePool    == p1 :> V4CoinSide
PcSidePool == p2 :> V4PcSide
TwoPools   == p1 :> V4CoinSide @@ p2 :> V4PcSide

Defaults == [lp_holder_share_bps |-> 0, salvor_share_bps |-> 0,
             protocol_share_bps |-> 0, max_slippage_bps |-> 0,
             jupiter_dust_threshold_lamports |-> 0]

NoUpdate == [lp_holder_share_bps |-> None, salvor_share_bps |-> None,
             protocol_share_bps |-> None, max_slippage_bps |-> None,
             jupiter_dust_threshold_lamports |-> None]

Submission ==
    [memecoin_mint |-> meme, lp_snapshot_merkle_root |-> {},
     lp_total_supply_at_snapshot |-> 6, salvor_lp_amount |-> 2,
     min_quote_output_lamports |-> 0, max_slippage_bps_override |-> None,
     route_accounts |-> {"vault_base_token_account", "venue"},
     route_data_empty |-> FALSE]

-----------------------------------------------------------------------------
(***************************************************************************)
(* Claims: one pool, three holders and every kind of snapshot a salvor may *)
(* seal: exact, partial, over-allocated, with a holder named twice, with a *)
(* zero leaf, empty.                                                       *)
(***************************************************************************)
ClaimRoots ==
    { {<<h1, 1>>, <<h2, 2>>, <<h3, 3>>},
      {<<h1, 3>>, <<h2, 2>>},
      {<<h1, 5>>, <<h2, 4>>, <<h3, 1>>},
      {<<h1, 9>>, <<h2, 1>>},
      {<<h1, 1>>, <<h1, 4>>, <<h2, 2>>},
      {<<h1, 0>>, <<h2, 6>>},
      {} }

ClaimSubmissions ==
    {[Submission EXCEPT !.lp_snapshot_merkle_root = root,
                        !.lp_total_supply_at_snapshot = n,
                        !.salvor_lp_amount = k] :
        root \in ClaimRoots, n \in {0, 6}, k \in {0, 2}}

\* Below the default dust threshold: no route.
ClaimAmmOutcomes ==
    {[coin |-> c, pc |-> 3, coin_vault |-> 10, pc_vault |-> 10] : c \in {0, 4, 13, 29}}

ClaimInits == {Defaults}

ClaimUpdates ==
    {[NoUpdate EXCEPT !.lp_holder_share_bps = 7000, !.salvor_share_bps = 3000,
                      !.protocol_share_bps = 0]}

-----------------------------------------------------------------------------
(***************************************************************************)
(* Settlement: one pool with WSOL on its pc side, routes that fall short,  *)
(* overspend or are ill-formed, overrides, partial configuration updates   *)
(* (some of them illegal) and gifts to every vault address.                *)
(***************************************************************************)
SettlementSubmissions ==
    {[Submission EXCEPT !.min_quote_output_lamports = q,
                        !.max_slippage_bps_override = o,
                        !.route_accounts = accts] :
        q \in {6, 7, 9, 20}, o \in {None, 0},
        accts \in {{"vault_base_token_account", "venue"}, {"venue"},
                   {"vault_base_token_account", "salvage_receipt"}}}
      \cup {[Submission EXCEPT !.memecoin_mint = quote],
            [Submission EXCEPT !.route_data_empty = TRUE]}

SettlementAmmOutcomes ==
    {[coin |-> 10, pc |-> 6, coin_vault |-> 20, pc_vault |-> 20],
     [coin |-> 9, pc |-> 3, coin_vault |-> 30, pc_vault |-> 9],
     [coin |-> 9, pc |-> 3, coin_vault |-> 0, pc_vault |-> 9],
     [coin |-> 10, pc |-> 0, coin_vault |-> 20, pc_vault |-> 20]}

SettlementRoutes == [out : {0, 6, 8, 10}, spent : {0, 9, 12}]

SettlementInits ==
    {[Defaults EXCEPT !.jupiter_dust_threshold_lamports = 5,
                      !.max_slippage_bps = s] : s \in {0, 5000}}

SettlementUpdates ==
    {[NoUpdate EXCEPT !.max_slippage_bps = 10000],
     [NoUpdate EXCEPT !.jupiter_dust_threshold_lamports = 11],
     [NoUpdate EXCEPT !.protocol_share_bps = 2500, !.salvor_share_bps = 3500],
     [NoUpdate EXCEPT !.protocol_share_bps = 1000, !.salvor_share_bps = 5000],
     [NoUpdate EXCEPT !.protocol_share_bps = 1000],
     [NoUpdate EXCEPT !.salvor_share_bps = 9000]}

-----------------------------------------------------------------------------
(***************************************************************************)
(* Dust: two pools of the same memecoin, so that they share the vault's    *)
(* token account; routes that leave a residue or spend the other pool's    *)
(* dust; sweeps before, between and after the salvages; two holders who    *)
(* claim from both pools while the protocol is paused and unpaused.        *)
(***************************************************************************)
DustSubmissions ==
    {[Submission EXCEPT !.lp_snapshot_merkle_root = {<<h1, 1>>, <<h2, 5>>}]}

DustAmmOutcomes ==
    {[coin |-> 6, pc |-> 6, coin_vault |-> 0, pc_vault |-> 9],
     [coin |-> 8, pc |-> 8, coin_vault |-> 1, pc_vault |-> 30],
     [coin |-> 8, pc |-> 8, coin_vault |-> 30, pc_vault |-> 1]}

DustRoutes == [out : {5}, spent : {4, 11}]

DustInits == {[Defaults EXCEPT !.jupiter_dust_threshold_lamports = 7]}

DustUpdates ==
    {[NoUpdate EXCEPT !.jupiter_dust_threshold_lamports = t] : t \in {4, 7}}
=============================================================================
