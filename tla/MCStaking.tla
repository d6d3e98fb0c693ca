----------------------------- MODULE MCStaking -----------------------------
(***************************************************************************)
(* Small instances of Staking for TLC.                                     *)
(***************************************************************************)
EXTENDS StakingClaims, TLC

CONSTANTS owner, user, n1

\* One account that owns a node and one that delegates, each with some funds.
MCBalance == owner :> 7 @@ user :> 6
=============================================================================
