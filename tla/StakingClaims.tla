--------------------------- MODULE StakingClaims ---------------------------
(***************************************************************************)
(* What the documentation and the comments of the repository say about     *)
(* staking and rewards where the code does something else.  Each of these  *)
(* is the one property of a run in which TLC finds it violated.            *)
(***************************************************************************)
EXTENDS Staking

AtRest == queue = <<>> /\ ~ block.processing

\* docs/emission_balancer/README.md:25, "the total staked amount and individual
\* validator stakes are always current": between blocks TotalStaked is the sum
\* of what the active validators have staked and been delegated.
TotalStakedCurrent ==
  AtRest =>
    LET active == {n \in DOMAIN em.validators : ValidatorOf(em, n).IsActive}
        stake(n) == ValidatorStake(ValidatorOf(em, n))
    IN em.TotalStaked = Wrap(MapThenSumSet(stake, active))

\* README.md:43, "Distribute 50% fees to emission balancer address and 50% to
\* all the staked validators per block": DistributeFees hands out no more than
\* the fees of the block.
FeesSplit ==
  [][accepted.step = "fees" /\ accepted'.step = "mint" =>
       Pools(em') + em'.AccumulatedReward
         <= Pools(em) + em.AccumulatedReward + Head(queue)]_vars

\* docs/demos/emission_balancer.md:315, "as soon as you claim your reward, this
\* timestamp is recorded and your staking duration will be reset": nothing is
\* left to claim right after a claim.
ClaimResetsDuration ==
  [][\A actor \in Addresses, n \in NodeIDs :
       ExecuteClaimDelegation(actor, n, actor) =>
         CalculateUserDelegationRewards(em', n, actor) = 0]_vars

\* README.md:36, "Tracks total supply of NAI": between blocks, with no fees
\* collected, the total supply is what the accounts own plus what is owed.
SupplyTracksMoney ==
  AtRest => em.TotalSupply = Wealth(view) + Pools(em) + em.AccumulatedReward
=============================================================================
