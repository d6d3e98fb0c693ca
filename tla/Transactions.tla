---------------------------- MODULE Transactions ----------------------------
(***************************************************************************)
(* The staking actions of module Staking as transactions, that is as       *)
(* values: with the state keys they declare and the step they take.        *)
(***************************************************************************)
EXTENDS Staking

Registers ==
  [kind : {"register"}, actor : Addresses, nodeID : NodeIDs, start : Heights,
   end : Heights, amount : StakeAmounts, feeRate : FeeRates,
   rewardAddress : RewardAddresses]
Delegates ==   \* the codec refuses a start of 0
  [kind : {"delegate"}, actor : Addresses, nodeID : NodeIDs,
   start : Heights \ {0}, end : Heights, amount : StakeAmounts,
   rewardAddress : RewardAddresses]
Payouts ==
  [kind : {"withdraw", "undelegate"}, actor : Addresses, nodeID : NodeIDs,
   rewardAddress : RewardAddresses]
Claims ==
  [kind : {"claimValidator"}, actor : Addresses, nodeID : NodeIDs]
    \cup [kind : {"claimDelegation"}, actor : Addresses, nodeID : NodeIDs,
          userStakeAddress : Addresses]

Txs == Registers \cup Delegates \cup Payouts \cup Claims

\* Mutant: a delegation does not declare the registration it reads.
StateKeysNoRegistration(t) ==
  {<<"balance", t.actor>>}
    \cup (IF t.kind \in {"withdraw", "undelegate"} THEN {<<"balance", t.rewardAddress>>} ELSE {})
    \cup (IF t.kind \in {"register", "withdraw", "claimValidator"}
            THEN {<<"registration", t.nodeID>>} ELSE {})
    \cup (IF t.kind \in {"delegate", "undelegate", "claimDelegation"}
            THEN {<<"delegation", t.actor, t.nodeID>>} ELSE {})

\* StateKeys of the six actions; the fee is paid from the actor's balance.
StateKeys(t) ==
  {<<"balance", t.actor>>}
    \cup (IF t.kind \in {"withdraw", "undelegate"}
            THEN {<<"balance", t.rewardAddress>>} ELSE {})
    \cup (IF t.kind \in {"register", "withdraw", "delegate", "claimValidator"}
            THEN {<<"registration", t.nodeID>>} ELSE {})
    \cup (IF t.kind \in {"delegate", "undelegate", "claimDelegation"}
            THEN {<<"delegation", t.actor, t.nodeID>>} ELSE {})

Apply(t) ==
  \/ /\ t.kind = "register"
     /\ RegisterTx(t.actor, t.nodeID, t.start, t.end, t.amount, t.feeRate,
                   t.rewardAddress)
  \/ t.kind = "withdraw" /\ WithdrawTx(t.actor, t.nodeID, t.rewardAddress)
  \/ /\ t.kind = "delegate"
     /\ DelegateTx(t.actor, t.nodeID, t.start, t.end, t.amount, t.rewardAddress)
  \/ t.kind = "undelegate" /\ UndelegateTx(t.actor, t.nodeID, t.rewardAddress)
  \/ t.kind = "claimValidator" /\ ClaimValidatorTx(t.actor, t.nodeID)
  \/ /\ t.kind = "claimDelegation"
     /\ ClaimDelegationTx(t.actor, t.nodeID, t.userStakeAddress)

\* What Execute looks at before it calls the balancer allows the call.
Checks(t) ==
  LET v == FeePaid(t.actor)
  IN \/ /\ t.kind = "register"
        /\ RegisterChecks(v, t.actor, t.nodeID, t.start, t.end, t.amount, t.feeRate)
     \/ t.kind = "withdraw" /\ WithdrawChecks(v, t.actor, t.nodeID)
     \/ /\ t.kind = "delegate"
        /\ DelegateChecks(v, t.actor, t.nodeID, t.start, t.end, t.amount)
     \/ t.kind = "undelegate" /\ UndelegateChecks(v, t.actor, t.nodeID)
     \/ t.kind = "claimValidator" /\ ClaimValidatorChecks(v, t.actor, t.nodeID)
     \/ /\ t.kind = "claimDelegation"
        /\ ClaimDelegationChecks(v, t.actor, t.nodeID, t.userStakeAddress)
=============================================================================
