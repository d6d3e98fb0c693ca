------------------------------ MODULE Emission ------------------------------
(***************************************************************************)
(* The emission balancer (emission/emission.go): the in-memory books of    *)
(* validators, delegators and their rewards.  One `Emission` value per     *)
(* node; every exported method holds the balancer's lock for its whole     *)
(* body, so a method is an operator from the balancer `e` (the name of the *)
(* Go receiver) to the balancer after the call.  A method that returns an  *)
(* error leaves the balancer as it was, and the condition of the error is  *)
(* an operator of its own.                                                 *)
(*                                                                         *)
(*  - uint64 arithmetic wraps at the CONSTANT Word (2^64 in the program);  *)
(*  - *Validator pointers are numbers that `heap` maps to the objects made *)
(*    so far, because the validator events hold pointers while the map     *)
(*    `validators` may drop an object: a stale event still reaches it;     *)
(*  - map[height][]event is a set of tuples that start with the height:    *)
(*    processing a list twice or in another order gives the same books,    *)
(*    since each event is guarded by the IsActive flag it flips;           *)
(*  - float64 products and quotients followed by a uint64 conversion are   *)
(*    exact quotients rounded down.                                        *)
(***************************************************************************)
EXTENDS Integers, Sequences, FiniteSets, FiniteSetsExt, Functions

CONSTANTS
  NodeIDs,         \* node IDs of the subnet's validators
  Addresses,       \* account addresses
  Word,            \* modulus of uint64
  MaxSupply,       \* Emission.MaxSupply, from the genesis file
  EpochLength,     \* EpochTracker.EpochLength, in blocks
  BaseValidators,  \* EpochTracker.BaseValidators
  RewardNum,       \* reward of one staked unit per epoch, RewardNum/RewardDen:
  RewardDen,       \*   BaseAPR / 365 / 24 / 60 / 60 * (EpochLength * 3)
  FloatOverflow,   \* what the platform makes of uint64(f) when f >= Word
  MaxHeight        \* bound of the model on block heights

Uint64  == 0 .. (Word - 1)
Heights == 0 .. MaxHeight
Epochs  == {h \div EpochLength : h \in Heights}
Percent == 0 .. 100

ASSUME EmissionAssumption ==
  /\ IsFiniteSet(NodeIDs) /\ IsFiniteSet(Addresses)
  /\ Word \in Nat \ {0}
  /\ MaxSupply \in Uint64
  /\ EpochLength \in Nat \ {0}
  /\ BaseValidators \in Nat \ {0}
  /\ RewardNum \in Nat
  /\ RewardDen \in Nat \ {0}
  /\ FloatOverflow \in Uint64
  /\ MaxHeight \in Nat

-----------------------------------------------------------------------------
(* uint64 arithmetic.  Wrap is total, so that it has a value in Uint64     *)
(* whatever it is applied to.                                              *)
Wrap(x) == IF x \in Int THEN x % Word ELSE 0

\* uint64(f) for a non-negative float64 f whose integral part is q.
FloatToUint64(q) == IF q \in Uint64 THEN q ELSE FloatOverflow

-----------------------------------------------------------------------------
(* Maps that gain and lose keys are functions on the set of their keys.    *)
IsMap(m, K, V) == DOMAIN m \subseteq K /\ m \in [DOMAIN m -> V]
EmptyMap       == [k \in {} |-> 0]
Put(m, k, v)   == [x \in DOMAIN m \cup {k} |-> IF x = k THEN v ELSE m[x]]
Delete(m, k)   == [x \in DOMAIN m \ {k} |-> m[x]]

-----------------------------------------------------------------------------
(* The data types. stakeStartBlock and stakeEndBlock of a Validator are    *)
(* written and never read, and its PublicKey plays no part.                *)
Delegator ==
  [IsActive : BOOLEAN, StakedAmount : Uint64,
   StakeStartBlock : Heights, StakeEndBlock : Heights]

IsValidator(v) ==
  /\ v \in [NodeID : NodeIDs, IsActive : BOOLEAN, StakedAmount : Uint64,
            AccumulatedStakedReward : Uint64, DelegationFeeRate : Percent,
            DelegatedAmount : Uint64, AccumulatedDelegatedReward : Uint64,
            delegators : {v.delegators}, epochRewards : {v.epochRewards},
            delegatedAmountPerEpoch : {v.delegatedAmountPerEpoch}]
  /\ IsMap(v.delegators, Addresses, Delegator)
  /\ IsMap(v.epochRewards, Epochs, Uint64)
  /\ IsMap(v.delegatedAmountPerEpoch, Epochs, Uint64)

\* AccumulatedReward is the EmissionAccount's; `allocated` counts the objects.
EmissionFields(heap, validators) ==
  [TotalSupply : Uint64, TotalStaked : Uint64, AccumulatedReward : Uint64,
   heap : {heap}, allocated : Nat, validators : {validators},
   activationEvents : SUBSET (Heights \X Nat),
   deactivationEvents : SUBSET (Heights \X Nat),
   delegatorActivationEvents : SUBSET (Heights \X NodeIDs \X Addresses),
   delegatorDeactivationEvents : SUBSET (Heights \X NodeIDs \X Addresses)]

\* `validators` maps a node to an object that bears its NodeID.
IsEmission(e) ==
  /\ e \in EmissionFields(e.heap, e.validators)
  /\ e.heap \in [1 .. e.allocated -> {e.heap[r] : r \in 1 .. e.allocated}]
  /\ \A r \in DOMAIN e.heap : IsValidator(e.heap[r])
  /\ IsMap(e.validators, NodeIDs, DOMAIN e.heap)
  /\ \A n \in DOMAIN e.validators : e.heap[e.validators[n]].NodeID = n

New(totalSupply) ==
  [TotalSupply |-> totalSupply, TotalStaked |-> 0, AccumulatedReward |-> 0,
   heap |-> EmptyMap, allocated |-> 0, validators |-> EmptyMap,
   activationEvents |-> {}, deactivationEvents |-> {},
   delegatorActivationEvents |-> {}, delegatorDeactivationEvents |-> {}]

HasValidator(e, nodeID) == nodeID \in DOMAIN e.validators
ValidatorOf(e, nodeID)  == e.heap[e.validators[nodeID]]
HasDelegator(e, nodeID, addr) ==
  HasValidator(e, nodeID) /\ addr \in DOMAIN ValidatorOf(e, nodeID).delegators

\* r is the object that `validators` holds for its node.
IsLive(e, r) ==
  LET n == e.heap[r].NodeID IN HasValidator(e, n) /\ e.validators[n] = r

WithValidator(e, nodeID, v) ==
  [e EXCEPT !.heap = [@ EXCEPT ![e.validators[nodeID]] = v]]

-----------------------------------------------------------------------------
(* Staking and unstaking, called by the actions' Execute.                  *)

NewValidator(nodeID) ==
  [NodeID |-> nodeID, IsActive |-> FALSE, StakedAmount |-> 0,
   AccumulatedStakedReward |-> 0, DelegationFeeRate |-> 0,
   DelegatedAmount |-> 0, AccumulatedDelegatedReward |-> 0,
   delegators |-> EmptyMap, epochRewards |-> EmptyMap,
   delegatedAmountPerEpoch |-> EmptyMap]

\* Mutant: a validator that registers again starts from an empty object.
RegisterValidatorStakeFresh(e, nodeID, start, end, amount, feeRate) ==
  LET ref == e.allocated + 1
      v   == [NewValidator(nodeID) EXCEPT !.IsActive = TRUE,
                !.StakedAmount = amount, !.DelegationFeeRate = feeRate]
  IN [e EXCEPT !.heap = Put(@, ref, v), !.allocated = ref,
               !.validators = Put(@, nodeID, ref),
               !.activationEvents = @ \cup {<<start, ref>>},
               !.deactivationEvents = @ \cup {<<end, ref>>}]

\* A known validator keeps its rewards and delegators.
RegisterValidatorStake(e, nodeID, start, end, amount, feeRate) ==
  LET known == HasValidator(e, nodeID)
      ref   == IF known THEN e.validators[nodeID] ELSE e.allocated + 1
      old   == IF known THEN e.heap[ref] ELSE NewValidator(nodeID)
      v     == [old EXCEPT !.IsActive = TRUE, !.StakedAmount = amount,
                           !.DelegationFeeRate = feeRate]
  IN [e EXCEPT !.heap = Put(@, ref, v),
               !.allocated = IF known THEN @ ELSE @ + 1,
               !.validators = Put(@, nodeID, ref),
               !.activationEvents = @ \cup {<<start, ref>>},
               !.deactivationEvents = @ \cup {<<end, ref>>}]

\* The reward is what the caller pays out.
WithdrawReward(e, nodeID) == ValidatorOf(e, nodeID).AccumulatedStakedReward

\* Mutant: the reward is paid and stays in the pool.
WithdrawValidatorStakeKeepingReward(e, nodeID) ==
  WithValidator(e, nodeID,
    [ValidatorOf(e, nodeID) EXCEPT !.IsActive = FALSE, !.StakedAmount = 0])

WithdrawValidatorStake(e, nodeID) ==
  WithValidator(e, nodeID,
    [ValidatorOf(e, nodeID) EXCEPT !.AccumulatedStakedReward = 0,
                                   !.IsActive = FALSE, !.StakedAmount = 0])

DelegateUserStakeOk(e, nodeID, addr) ==
  HasValidator(e, nodeID) /\ ~ HasDelegator(e, nodeID, addr)

NewDelegator(start, end, amount) ==
  [IsActive |-> FALSE, StakedAmount |-> amount,
   StakeStartBlock |-> start, StakeEndBlock |-> end]

DelegateUserStake(e, nodeID, addr, start, end, amount) ==
  LET w == [ValidatorOf(e, nodeID) EXCEPT
              !.delegators = Put(@, addr, NewDelegator(start, end, amount))]
  IN [WithValidator(e, nodeID, w) EXCEPT
        !.delegatorActivationEvents = @ \cup {<<start, nodeID, addr>>},
        !.delegatorDeactivationEvents = @ \cup {<<end, nodeID, addr>>}]

\* Every epoch from the delegator's first to its last, both included.
CalculateUserDelegationRewards(e, nodeID, addr) ==
  LET v == ValidatorOf(e, nodeID)
      d == v.delegators[addr]
      counted == {p \in DOMAIN v.epochRewards \cap DOMAIN v.delegatedAmountPerEpoch :
                    /\ d.StakeStartBlock \div EpochLength <= p
                    /\ p <= d.StakeEndBlock \div EpochLength
                    /\ v.delegatedAmountPerEpoch[p] > 0}
      share(p) == FloatToUint64((v.epochRewards[p] * d.StakedAmount)
                                  \div v.delegatedAmountPerEpoch[p])
  IN Wrap(MapThenSumSet(share, counted))

UndelegateReward(e, nodeID, addr) ==
  LET reward == CalculateUserDelegationRewards(e, nodeID, addr)
      pool   == ValidatorOf(e, nodeID).AccumulatedDelegatedReward
  IN IF reward > pool THEN pool ELSE reward

\* Mutant: a validator that has not withdrawn is dropped with its last delegator.
UndelegateUserStakeDropping(e, nodeID, addr) ==
  LET reward == UndelegateReward(e, nodeID, addr)
      v == [ValidatorOf(e, nodeID) EXCEPT
              !.AccumulatedDelegatedReward = Wrap(@ - reward),
              !.delegators = Delete(@, addr)]
      gone == ~ v.IsActive /\ DOMAIN v.delegators = {}
  IN [WithValidator(e, nodeID, v) EXCEPT
        !.validators = IF gone THEN Delete(@, nodeID) ELSE @]

\* A validator that is inactive, withdrawn and without delegators is dropped.
UndelegateUserStake(e, nodeID, addr) ==
  LET reward == UndelegateReward(e, nodeID, addr)
      v == [ValidatorOf(e, nodeID) EXCEPT
              !.AccumulatedDelegatedReward = Wrap(@ - reward),
              !.delegators = Delete(@, addr)]
      gone == ~ v.IsActive /\ v.StakedAmount = 0 /\ DOMAIN v.delegators = {}
  IN [WithValidator(e, nodeID, v) EXCEPT
        !.validators = IF gone THEN Delete(@, nodeID) ELSE @]

\* ClaimStakingRewards for codec.EmptyAddress: the validator's own rewards.
ClaimValidatorRewards(e, nodeID) ==
  WithValidator(e, nodeID,
    [ValidatorOf(e, nodeID) EXCEPT !.AccumulatedStakedReward = 0])

\* ClaimStakingRewards for a delegator: nothing marks the epochs as paid.
ClaimDelegatorRewards(e, nodeID, addr) ==
  LET reward == CalculateUserDelegationRewards(e, nodeID, addr)
  IN WithValidator(e, nodeID,
       [ValidatorOf(e, nodeID) EXCEPT
          !.AccumulatedDelegatedReward = Wrap(@ - reward)])

-----------------------------------------------------------------------------
(* processEvents: the stakes that begin and end at one height.             *)

ValidatorStake(v) == Wrap(v.StakedAmount + v.DelegatedAmount)

ActivateValidators(e, h) ==
  LET on == {r \in DOMAIN e.heap :
               <<h, r>> \in e.activationEvents /\ ~ e.heap[r].IsActive}
      stake(r) == ValidatorStake(e.heap[r])
  IN [e EXCEPT
        !.heap = [r \in DOMAIN e.heap |->
                    IF r \in on THEN [e.heap[r] EXCEPT !.IsActive = TRUE]
                                ELSE e.heap[r]],
        !.TotalStaked = Wrap(@ + MapThenSumSet(stake, on)),
        !.activationEvents = {ev \in @ : ev[1] # h}]

DeactivateValidators(e, h) ==
  LET off == {r \in DOMAIN e.heap :
                <<h, r>> \in e.deactivationEvents /\ e.heap[r].IsActive}
      stake(r) == ValidatorStake(e.heap[r])
  IN [e EXCEPT
        !.heap = [r \in DOMAIN e.heap |->
                    IF r \in off THEN [e.heap[r] EXCEPT !.IsActive = FALSE]
                                 ELSE e.heap[r]],
        !.TotalStaked = Wrap(@ - MapThenSumSet(stake, off)),
        !.deactivationEvents = {ev \in @ : ev[1] # h}]

\* The delegators of the live object r that start, or stop, counting at h.
Starting(e, h, r) ==
  {a \in DOMAIN e.heap[r].delegators :
     LET d == e.heap[r].delegators[a]
     IN /\ <<h, e.heap[r].NodeID, a>> \in e.delegatorActivationEvents
        /\ d.StakeStartBlock <= h /\ h < d.StakeEndBlock
        /\ ~ d.IsActive}

\* Mutant: a stake that ends at h is thought to last a block longer.
EndingLate(e, h, r) ==
  {a \in DOMAIN e.heap[r].delegators :
     LET d == e.heap[r].delegators[a]
     IN /\ <<h, e.heap[r].NodeID, a>> \in e.delegatorDeactivationEvents
        /\ d.StakeEndBlock < h
        /\ d.IsActive}

Ending(e, h, r) ==
  {a \in DOMAIN e.heap[r].delegators :
     LET d == e.heap[r].delegators[a]
     IN /\ <<h, e.heap[r].NodeID, a>> \in e.delegatorDeactivationEvents
        /\ d.StakeEndBlock <= h
        /\ d.IsActive}

SetActive(delegators, who, flag) ==
  [a \in DOMAIN delegators |->
     IF a \in who THEN [delegators[a] EXCEPT !.IsActive = flag] ELSE delegators[a]]

StakeOf(v, who) ==
  SumFunctionOnSet([a \in who |-> v.delegators[a].StakedAmount], who)

ActivateDelegators(e, h) ==
  LET live == {r \in DOMAIN e.heap : IsLive(e, r)}
      added(r) == StakeOf(e.heap[r], Starting(e, h, r))
  IN [e EXCEPT
        !.heap = [r \in DOMAIN e.heap |->
                    IF r \in live
                      THEN [e.heap[r] EXCEPT
                              !.delegators = SetActive(@, Starting(e, h, r), TRUE),
                              !.DelegatedAmount = Wrap(@ + added(r))]
                      ELSE e.heap[r]],
        !.TotalStaked = Wrap(@ + MapThenSumSet(added, live)),
        !.delegatorActivationEvents = {ev \in @ : ev[1] # h}]

DeactivateDelegators(e, h) ==
  LET live == {r \in DOMAIN e.heap : IsLive(e, r)}
      removed(r) == StakeOf(e.heap[r], Ending(e, h, r))
  IN [e EXCEPT
        !.heap = [r \in DOMAIN e.heap |->
                    IF r \in live
                      THEN [e.heap[r] EXCEPT
                              !.delegators = SetActive(@, Ending(e, h, r), FALSE),
                              !.DelegatedAmount = Wrap(@ - removed(r))]
                      ELSE e.heap[r]],
        !.TotalStaked = Wrap(@ - MapThenSumSet(removed, live)),
        !.delegatorDeactivationEvents = {ev \in @ : ev[1] # h}]

processEvents(e, h) ==
  DeactivateDelegators(
    ActivateDelegators(
      DeactivateValidators(ActivateValidators(e, h), h), h), h)

-----------------------------------------------------------------------------
(* Rewards and fees, called from Controller.Accepted.                      *)

\* With more than BaseValidators validators the APR shrinks in proportion.
GetRewardsPerEpoch(e) ==
  LET n == Cardinality(DOMAIN e.validators)
      rewards == IF n > BaseValidators
                   THEN (e.TotalStaked * RewardNum * BaseValidators)
                          \div (RewardDen * n)
                   ELSE (e.TotalStaked * RewardNum) \div RewardDen
      r == FloatToUint64(rewards)
  IN IF Wrap(e.TotalSupply + r) > MaxSupply
       THEN Wrap(MaxSupply - e.TotalSupply) ELSE r

\* Mutant: a validator that is not active has a part of its own.
TotalValidatorAmountInactive(e, v, totalAmount) ==
  IF e.TotalStaked > 0
    THEN FloatToUint64((ValidatorStake(v) * totalAmount) \div e.TotalStaked)
    ELSE 0

\* The part of totalAmount that goes to the validator object v.
TotalValidatorAmount(e, v, totalAmount) ==
  IF v.IsActive /\ e.TotalStaked > 0
    THEN FloatToUint64((ValidatorStake(v) * totalAmount) \div e.TotalStaked)
    ELSE 0

\* Mutant: the validator's part is not taken off the delegators' part.
DelegationRewardsTwice(v, amount) ==
  IF v.DelegatedAmount > 0 THEN FloatToUint64(amount + 1) ELSE 0

\* distributeValidatorRewards: the delegators' share, the rest is the validator's.
DelegationRewards(v, amount) ==
  IF v.DelegatedAmount > 0
    THEN FloatToUint64((amount * v.DelegationFeeRate) \div 100) ELSE 0

\* The orders in which Go may range over the map of validators.
MapOrders == {o \in [NodeIDs -> 1 .. Cardinality(NodeIDs)] :
                \A m, n \in NodeIDs : o[m] = o[n] => m = n}

\* The sum of what the validators up to nodeID in the order receive.
DistributedUpTo(e, totalAmount, order, nodeID) ==
  LET upTo == {m \in DOMAIN e.validators : order[m] <= order[nodeID]}
      amount == [m \in upTo |-> TotalValidatorAmount(e, ValidatorOf(e, m), totalAmount)]
  IN SumFunctionOnSet(amount, upTo)

ActualDistributedAmount(e, totalAmount) ==
  LET amount(m) == TotalValidatorAmount(e, ValidatorOf(e, m), totalAmount)
  IN Wrap(MapThenSumSet(amount, DOMAIN e.validators))

CreditReward(v, amount, epoch) ==
  LET forDelegators == DelegationRewards(v, amount)
  IN [v EXCEPT
        !.AccumulatedStakedReward = Wrap(@ + (amount - forDelegators)),
        !.epochRewards = Put(@, epoch, forDelegators),
        !.delegatedAmountPerEpoch = Put(@, epoch, v.DelegatedAmount),
        !.AccumulatedDelegatedReward = Wrap(@ + forDelegators)]

\* Of a fee, the validator also gets all that was distributed before it.
CreditFee(v, amount, distributed) ==
  [v EXCEPT !.AccumulatedStakedReward =
              Wrap(@ + (amount - DelegationRewards(v, amount)) + distributed)]

distributeValidatorRewardsOrFees(e, totalAmount, isReward, h, order) ==
  [e EXCEPT !.heap = [r \in DOMAIN e.heap |->
     LET v == e.heap[r]
         amount == TotalValidatorAmount(e, v, totalAmount)
     IN IF IsLive(e, r) /\ v.IsActive
          THEN IF isReward
                 THEN CreditReward(v, amount, h \div EpochLength)
                 ELSE CreditFee(v, amount,
                        DistributedUpTo(e, totalAmount, order, v.NodeID))
          ELSE v]]

\* What MintNewNAI returns, and the balancer after it.
MintedNAI(e, h) ==
  LET p == processEvents(e, h)
  IN IF h % EpochLength = 0
       THEN ActualDistributedAmount(p, GetRewardsPerEpoch(p)) ELSE 0

MintNewNAI(e, h, order) ==
  LET p == processEvents(e, h)
      d == distributeValidatorRewardsOrFees(p, GetRewardsPerEpoch(p), TRUE, h, order)
  IN IF h % EpochLength = 0
       THEN [d EXCEPT !.TotalSupply = Wrap(@ + MintedNAI(e, h))] ELSE p

DistributeFees(e, totalFee, h, order) ==
  LET p   == processEvents(e, h)
      fee == IF Wrap(p.TotalSupply + totalFee) > MaxSupply
               THEN Wrap(MaxSupply - p.TotalSupply) ELSE totalFee
      q   == [p EXCEPT !.AccumulatedReward = Wrap(@ + fee \div 2)]
      feesForValidators == fee - fee \div 2
  IN IF q.TotalStaked = 0 \/ feesForValidators = 0
       THEN q
       ELSE distributeValidatorRewardsOrFees(q, feesForValidators, FALSE, h, order)

\* Mutant: the supply is not adjusted to the cap.
AddToTotalSupplyUncapped(e, amount) == [e EXCEPT !.TotalSupply = Wrap(@ + amount)]

AddToTotalSupply(e, amount) ==
  LET added == IF Wrap(e.TotalSupply + amount) > MaxSupply
                 THEN Wrap(MaxSupply - e.TotalSupply) ELSE amount
  IN [e EXCEPT !.TotalSupply = Wrap(@ + added)]
=============================================================================
