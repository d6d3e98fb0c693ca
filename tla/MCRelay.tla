------------------------------ MODULE MCRelay -------------------------------
(***************************************************************************)
(* Two chains, two users and three validators of equal weight for TLC.     *)
(***************************************************************************)
EXTENDS Relay

CONSTANTS alice, bob, chainA, chainB

\* Alice has some of chainA's native asset, Bob of chainB's.
MCBalance ==
  [c \in Chains |-> [a \in Addresses |->
     IF c = chainA /\ a = alice THEN 1 ELSE IF c = chainB /\ a = bob THEN 1 ELSE 0]]

MCOrders == {[SwapIn |-> 1, AssetOut |-> Native, SwapOut |-> 1, SwapExpiry |-> 1]}
MCWeight == [v \in Validators |-> 1]
=============================================================================
