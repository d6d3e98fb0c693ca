------------------------------- MODULE MCWarp -------------------------------
(***************************************************************************)
(* Two chains and two accounts for TLC.                                    *)
(***************************************************************************)
EXTENDS Warp, TLC

CONSTANTS alice, bob, chainA, chainB, tok

\* Bob starts with one unit of chainB's native asset.
MCBalance == chainA :> (alice :> 0 @@ bob :> 0) @@ chainB :> (alice :> 0 @@ bob :> 1)

\* One unit of whatever is sent for one unit of the destination's native asset.
MCOrders == {[SwapIn |-> 1, AssetOut |-> Native, SwapOut |-> 1, SwapExpiry |-> 1]}
=============================================================================
