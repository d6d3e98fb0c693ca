------------------------------ MODULE Staking ------------------------------
(***************************************************************************)
(* The staking actions (actions/*.go), the chain state they read and write *)
(* (storage/storage.go), the emission balancer they share with             *)
(* Controller.Accepted, and the life of a block on one node.               *)
(*                                                                         *)
(* A block is executed when it is verified or built: each transaction runs *)
(* on a view of the chain state, and a transaction whose Execute returns   *)
(* false loses its changes to the view, except the fee.  The balancer is   *)
(* not part of the view: what Execute does to it is never undone.  An      *)
(* accepted block commits its view and is queued for the goroutine that    *)
(* calls Controller.Accepted; a rejected block only drops its view.        *)
(***************************************************************************)
EXTENDS Emission

CONSTANTS
  Owners,                     \* addresses of the BLS keys of the subnet's nodes
  GenesisBalance,             \* CustomAllocation of the genesis file
  TxFee,                      \* what a transaction costs, net of the refund
  MinValidatorStake,          \* staking configuration of emission/params.go
  MaxValidatorStake,
  MinValidatorStakeDuration,
  MaxValidatorStakeDuration,
  MinDelegationFee,
  MinDelegatorStake,
  StakeAmounts,               \* the amounts and fee rates that are tried
  FeeRates,
  RewardAddresses,            \*   and the reward addresses
  MaxTxs,                     \* bound on the transactions of a block
  MaxPending,                 \* accepted blocks that may still wait for
                              \*   Controller.Accepted when a block is executed
  MayReject,                  \* consensus may reject a processing block
  MayRestart                  \* the node may be stopped and started again

VARIABLES
  em,          \* the emission balancer
  ledger,      \* chain state as of the last accepted block
  view,        \* chain state as the processing block leaves it so far
  block,       \* the processing block
  height,      \* height of vm.LastAcceptedBlock
  queue,       \* total fees of the accepted blocks Accepted has not finished
  accepted     \* where Controller.Accepted is in the block at the queue's head

vars == <<em, ledger, view, block, height, queue, accepted>>

RegisterRecord ==
  [StakeEndBlock : Heights, StakedAmount : Uint64,
   RewardAddress : Addresses, OwnerAddress : Addresses]

DelegateRecord ==
  [StakeStartBlock : Heights, StakeEndBlock : Heights, StakedAmount : Uint64,
   RewardAddress : Addresses]

IsLedger(v) ==
  /\ v \in [balance : [Addresses -> Uint64], registered : {v.registered},
            delegated : {v.delegated}]
  /\ IsMap(v.registered, NodeIDs, RegisterRecord)
  /\ IsMap(v.delegated, NodeIDs \X Addresses, DelegateRecord)

NoBlock  == [processing |-> FALSE, txs |-> 0, fees |-> 0]
Idle     == [step |-> "fees", minted |-> 0]

\* The total supply Controller.Initialize adds up from the allocations.
GenesisSupply == Wrap(SumFunctionOnSet(GenesisBalance, Addresses))

ASSUME StakingAssumption ==
  /\ Owners \subseteq Addresses
  /\ GenesisBalance \in [Addresses -> Uint64]
  /\ TxFee \in Uint64
  /\ MinValidatorStake \in Nat \ {0}
  /\ MinDelegatorStake \in Nat \ {0}
  /\ MinValidatorStakeDuration \in Nat \ {0}
  /\ StakeAmounts \subseteq Uint64
  /\ FeeRates \subseteq Nat
  /\ RewardAddresses \subseteq Addresses
  /\ MaxTxs \in Nat
  /\ MaxPending \in Nat
  /\ MayReject \in BOOLEAN
  /\ MayRestart \in BOOLEAN

\* genesis.Load refuses allocations whose sum overflows.
ASSUME GenesisFits == SumFunctionOnSet(GenesisBalance, Addresses) < Word

\* Nothing in the program compares the allocations with the supply cap.
ASSUME GenesisWithinCap == GenesisSupply <= MaxSupply

Init ==
  /\ em = New(GenesisSupply)
  /\ ledger = [balance |-> GenesisBalance, registered |-> EmptyMap,
               delegated |-> EmptyMap]
  /\ view = ledger
  /\ block = NoBlock
  /\ height = 0
  /\ queue = <<>>
  /\ accepted = Idle

-----------------------------------------------------------------------------
(* Balances: storage.AddBalance fails on overflow, storage.SubBalance when *)
(* the balance is too small; an absent balance is 0.                       *)
CanAddBalance(b, a, amount) == b[a] + amount < Word
AddBalance(b, a, amount)    == [b EXCEPT ![a] = @ + amount]
CanSubBalanceUnchecked(b, a, amount) == TRUE  \* mutant: no error on underflow
CanSubBalance(b, a, amount) == amount <= b[a]
SubBalance(b, a, amount)    == [b EXCEPT ![a] = @ - amount]

\* A transaction of actor joins the block; its fee is paid whatever happens.
BeginTx(actor) ==
  /\ block.processing
  /\ block.txs < MaxTxs
  /\ CanSubBalance(view.balance, actor, TxFee)
  /\ block' = [block EXCEPT !.txs = @ + 1, !.fees = Wrap(@ + TxFee)]
  /\ UNCHANGED <<ledger, height, queue, accepted>>

FeePaid(actor) == [view EXCEPT !.balance = SubBalance(@, actor, TxFee)]

\* Execute returns false before it reaches the balancer.
Refuse(actor) == em' = em /\ view' = FeePaid(actor)

-----------------------------------------------------------------------------
(* The six staking actions.                                                *)

\* The codec requires these fields: none of them is zero.
UnmarshalValidatorStakeInfoOk(start, end, amount, feeRate) ==
  start > 0 /\ end > 0 /\ amount > 0 /\ feeRate > 0

RegisterChecks(v, actor, nodeID, start, end, amount, feeRate) ==
  /\ actor \in Owners
  /\ UnmarshalValidatorStakeInfoOk(start, end, amount, feeRate)
  /\ nodeID \notin DOMAIN v.registered
  /\ amount >= MinValidatorStake /\ amount <= MaxValidatorStake
  /\ start >= height
  /\ end >= start
  /\ end - start >= MinValidatorStakeDuration
  /\ end - start <= MaxValidatorStakeDuration
  /\ feeRate >= MinDelegationFee /\ feeRate <= 100

\* The balancer is told before the balance is known to suffice.
ExecuteRegister(actor, nodeID, start, end, amount, feeRate, rewardAddress) ==
  LET v == FeePaid(actor)
      paid == [v EXCEPT
                 !.balance = SubBalance(@, actor, amount),
                 !.registered = Put(@, nodeID,
                   [StakeEndBlock |-> end, StakedAmount |-> amount,
                    RewardAddress |-> rewardAddress, OwnerAddress |-> actor])]
  IN /\ RegisterChecks(v, actor, nodeID, start, end, amount, feeRate)
     /\ em' = RegisterValidatorStake(em, nodeID, start, end, amount, feeRate)
     /\ \/ CanSubBalance(v.balance, actor, amount) /\ view' = paid
        \/ ~ CanSubBalance(v.balance, actor, amount) /\ view' = v

RegisterTx(actor, nodeID, start, end, amount, feeRate, rewardAddress) ==
  /\ BeginTx(actor)
  /\ \/ ExecuteRegister(actor, nodeID, start, end, amount, feeRate, rewardAddress)
     \/ /\ ~ RegisterChecks(FeePaid(actor), actor, nodeID, start, end, amount, feeRate)
        /\ Refuse(actor)

\* Pay the reward, then the stake; either may overflow a balance.
CanPayOut(b, rewardAddress, reward, owner, stake) ==
  /\ CanAddBalance(b, rewardAddress, reward)
  /\ CanAddBalance(AddBalance(b, rewardAddress, reward), owner, stake)

PayOut(b, rewardAddress, reward, owner, stake) ==
  AddBalance(AddBalance(b, rewardAddress, reward), owner, stake)

WithdrawChecks(v, actor, nodeID) ==
  /\ nodeID \in DOMAIN v.registered
  /\ v.registered[nodeID].OwnerAddress = actor
  /\ height >= v.registered[nodeID].StakeEndBlock
  /\ HasValidator(em, nodeID)

ExecuteWithdraw(actor, nodeID, rewardAddress) ==
  LET v      == FeePaid(actor)
      stake  == v.registered[nodeID].StakedAmount
      reward == WithdrawReward(em, nodeID)
      paid   == [v EXCEPT
                   !.balance = PayOut(@, rewardAddress, reward, actor, stake),
                   !.registered = Delete(@, nodeID)]
      ok     == CanPayOut(v.balance, rewardAddress, reward, actor, stake)
  IN /\ WithdrawChecks(v, actor, nodeID)
     /\ em' = WithdrawValidatorStake(em, nodeID)
     /\ view' = IF ok THEN paid ELSE v

WithdrawTx(actor, nodeID, rewardAddress) ==
  /\ BeginTx(actor)
  /\ \/ ExecuteWithdraw(actor, nodeID, rewardAddress)
     \/ ~ WithdrawChecks(FeePaid(actor), actor, nodeID) /\ Refuse(actor)

DelegateChecks(v, actor, nodeID, start, end, amount) ==
  /\ nodeID \in DOMAIN v.registered
  /\ <<nodeID, actor>> \notin DOMAIN v.delegated
  /\ amount >= MinDelegatorStake
  /\ end > start
  /\ start >= height
  /\ DelegateUserStakeOk(em, nodeID, actor)

ExecuteDelegate(actor, nodeID, start, end, amount, rewardAddress) ==
  LET v == FeePaid(actor)
      paid == [v EXCEPT
                 !.balance = SubBalance(@, actor, amount),
                 !.delegated = Put(@, <<nodeID, actor>>,
                   [StakeStartBlock |-> start, StakeEndBlock |-> end,
                    StakedAmount |-> amount, RewardAddress |-> rewardAddress])]
  IN /\ DelegateChecks(v, actor, nodeID, start, end, amount)
     /\ em' = DelegateUserStake(em, nodeID, actor, start, end, amount)
     /\ \/ CanSubBalance(v.balance, actor, amount) /\ view' = paid
        \/ ~ CanSubBalance(v.balance, actor, amount) /\ view' = v

DelegateTx(actor, nodeID, start, end, amount, rewardAddress) ==
  /\ BeginTx(actor)
  /\ \/ ExecuteDelegate(actor, nodeID, start, end, amount, rewardAddress)
     \/ /\ ~ DelegateChecks(FeePaid(actor), actor, nodeID, start, end, amount)
        /\ Refuse(actor)

\* Mutant: the end of the delegation is not waited for.
UndelegateChecksAnyTime(v, actor, nodeID) ==
  <<nodeID, actor>> \in DOMAIN v.delegated /\ HasDelegator(em, nodeID, actor)

UndelegateChecks(v, actor, nodeID) ==
  /\ <<nodeID, actor>> \in DOMAIN v.delegated
  /\ height >= v.delegated[<<nodeID, actor>>].StakeEndBlock
  /\ HasDelegator(em, nodeID, actor)

ExecuteUndelegate(actor, nodeID, rewardAddress) ==
  LET v      == FeePaid(actor)
      stake  == v.delegated[<<nodeID, actor>>].StakedAmount
      reward == UndelegateReward(em, nodeID, actor)
      paid   == [v EXCEPT
                   !.balance = PayOut(@, rewardAddress, reward, actor, stake),
                   !.delegated = Delete(@, <<nodeID, actor>>)]
      ok     == CanPayOut(v.balance, rewardAddress, reward, actor, stake)
  IN /\ UndelegateChecks(v, actor, nodeID)
     /\ em' = UndelegateUserStake(em, nodeID, actor)
     /\ view' = IF ok THEN paid ELSE v

UndelegateTx(actor, nodeID, rewardAddress) ==
  /\ BeginTx(actor)
  /\ \/ ExecuteUndelegate(actor, nodeID, rewardAddress)
     \/ ~ UndelegateChecks(FeePaid(actor), actor, nodeID) /\ Refuse(actor)

\* A reward goes to the actor, who is the record's reward address.
PayReward(v, actor, reward) ==
  IF CanAddBalance(v.balance, actor, reward)
    THEN [v EXCEPT !.balance = AddBalance(@, actor, reward)] ELSE v

ClaimValidatorChecks(v, actor, nodeID) ==
  /\ nodeID \in DOMAIN v.registered
  /\ v.registered[nodeID].RewardAddress = actor
  /\ height >= v.registered[nodeID].StakeEndBlock
  /\ HasValidator(em, nodeID)

ExecuteClaimValidator(actor, nodeID) ==
  LET v == FeePaid(actor)
  IN /\ ClaimValidatorChecks(v, actor, nodeID)
     /\ em' = ClaimValidatorRewards(em, nodeID)
     /\ view' = PayReward(v, actor, WithdrawReward(em, nodeID))

ClaimValidatorTx(actor, nodeID) ==
  /\ BeginTx(actor)
  /\ \/ ExecuteClaimValidator(actor, nodeID)
     \/ ~ ClaimValidatorChecks(FeePaid(actor), actor, nodeID) /\ Refuse(actor)

\* StateKeys names only the actor's own delegation, so the record of another
\* userStakeAddress cannot be read and counts as missing.
ClaimDelegationChecks(v, actor, nodeID, userStakeAddress) ==
  /\ userStakeAddress = actor
  /\ <<nodeID, userStakeAddress>> \in DOMAIN v.delegated
  /\ v.delegated[<<nodeID, userStakeAddress>>].RewardAddress = actor
  /\ height >= v.delegated[<<nodeID, userStakeAddress>>].StakeStartBlock
  /\ HasDelegator(em, nodeID, userStakeAddress)

ExecuteClaimDelegation(actor, nodeID, userStakeAddress) ==
  LET v == FeePaid(actor)
  IN /\ ClaimDelegationChecks(v, actor, nodeID, userStakeAddress)
     /\ em' = ClaimDelegatorRewards(em, nodeID, userStakeAddress)
     /\ view' = PayReward(v, actor,
                  CalculateUserDelegationRewards(em, nodeID, userStakeAddress))

ClaimDelegationTx(actor, nodeID, userStakeAddress) ==
  /\ BeginTx(actor)
  /\ \/ ExecuteClaimDelegation(actor, nodeID, userStakeAddress)
     \/ /\ ~ ClaimDelegationChecks(FeePaid(actor), actor, nodeID, userStakeAddress)
        /\ Refuse(actor)

-----------------------------------------------------------------------------
(* The life of a block.                                                    *)

\* Verification, or building, of the next block begins.
NewBlock ==
  /\ ~ block.processing
  /\ height < MaxHeight
  /\ Len(queue) <= MaxPending
  /\ block' = [NoBlock EXCEPT !.processing = TRUE]
  /\ UNCHANGED <<em, ledger, view, height, queue, accepted>>

\* Consensus accepts it: the VM's last accepted block moves on at once, while
\* Controller.Accepted is called later from the acceptor's goroutine.
AcceptBlock ==
  /\ block.processing
  /\ ledger' = view
  /\ height' = height + 1
  /\ queue' = Append(queue, block.fees)
  /\ block' = NoBlock
  /\ UNCHANGED <<em, view, accepted>>

\* Controller.Rejected does nothing: only the view is dropped.
RejectBlock ==
  /\ MayReject
  /\ block.processing
  /\ view' = ledger
  /\ block' = NoBlock
  /\ UNCHANGED <<em, ledger, height, queue, accepted>>

-----------------------------------------------------------------------------
(* Controller.Accepted: three calls of the balancer, each with a lock of   *)
(* its own, each reading the VM's last accepted height for itself.         *)

AcceptedFees ==
  /\ queue # <<>> /\ accepted.step = "fees"
  /\ \/ /\ Head(queue) > 0
        /\ \E order \in MapOrders : em' = DistributeFees(em, Head(queue), height, order)
     \/ Head(queue) = 0 /\ em' = em
  /\ accepted' = [accepted EXCEPT !.step = "mint"]
  /\ UNCHANGED <<ledger, view, block, height, queue>>

\* Mutant: the block stays at the head when there was nothing to mint.
AcceptedMintStuck ==
  /\ queue # <<>> /\ accepted.step = "mint"
  /\ \E order \in MapOrders : em' = MintNewNAI(em, height, order)
  /\ \/ /\ MintedNAI(em, height) > 0
        /\ accepted' = [step |-> "add", minted |-> MintedNAI(em, height)]
     \/ MintedNAI(em, height) = 0 /\ accepted' = Idle
  /\ UNCHANGED <<ledger, view, block, height, queue>>

AcceptedMint ==
  /\ queue # <<>> /\ accepted.step = "mint"
  /\ \E order \in MapOrders : em' = MintNewNAI(em, height, order)
  /\ \/ /\ MintedNAI(em, height) > 0
        /\ accepted' = [step |-> "add", minted |-> MintedNAI(em, height)]
        /\ queue' = queue
     \/ MintedNAI(em, height) = 0 /\ accepted' = Idle /\ queue' = Tail(queue)
  /\ UNCHANGED <<ledger, view, block, height>>

AcceptedAdd ==
  /\ queue # <<>> /\ accepted.step = "add"
  /\ em' = AddToTotalSupply(em, accepted.minted)
  /\ accepted' = Idle
  /\ queue' = Tail(queue)
  /\ UNCHANGED <<ledger, view, block, height>>

Accepted == AcceptedFees \/ AcceptedMint \/ AcceptedAdd

-----------------------------------------------------------------------------
\* The node stops, whatever it is doing, and starts again: the chain state is
\* on disk, the balancer is made anew from the genesis file, and the VM may or
\* may not hand the blocks that Controller.Accepted had not finished to it again.
Restart ==
  /\ MayRestart
  /\ em' = New(GenesisSupply)
  /\ view' = ledger
  /\ block' = NoBlock
  /\ queue' = <<>> \/ queue' = queue
  /\ accepted' = Idle
  /\ UNCHANGED <<ledger, height>>

\* The model's last height: every block there is has been dealt with.
Finished ==
  /\ height = MaxHeight /\ queue = <<>> /\ ~ block.processing
  /\ UNCHANGED vars

ExecuteTx ==
  \E actor \in Addresses, n \in NodeIDs :
    \/ \E s, t \in Heights, x \in StakeAmounts, f \in FeeRates,
         r \in RewardAddresses :
         RegisterTx(actor, n, s, t, x, f, r)
    \/ \E r \in RewardAddresses : WithdrawTx(actor, n, r)
    \/ \E s \in Heights \ {0}, t \in Heights, x \in StakeAmounts,
         r \in RewardAddresses :   \* the codec refuses a start of 0
         DelegateTx(actor, n, s, t, x, r)
    \/ \E r \in RewardAddresses : UndelegateTx(actor, n, r)
    \/ ClaimValidatorTx(actor, n)
    \/ \E u \in Addresses : ClaimDelegationTx(actor, n, u)

Next ==
  \/ NewBlock \/ ExecuteTx \/ AcceptBlock \/ RejectBlock
  \/ Accepted \/ Restart \/ Finished

Spec == Init /\ [][Next]_vars

\* The acceptor's goroutine keeps running: Accepted, enabled whenever the queue
\* is not empty, is not put off for ever.  (Weak fairness of Accepted, with its
\* enabling condition spelled out; only Accepted and Restart change `accepted`.)
AcceptorRuns == []<>(queue = <<>>) \/ []<><<accepted' # accepted>>_accepted

\* Snowman decides every processing block and, as long as blocks are built,
\* accepts one again and again.
Fairness == WF_vars(NewBlock) /\ SF_vars(AcceptBlock) /\ AcceptorRuns

FairSpec == Spec /\ Fairness

-----------------------------------------------------------------------------
(* Properties.                                                             *)

\* The types of the balancer, of the chain state and of the block.
TypeOK ==
  /\ IsEmission(em)
  /\ IsLedger(ledger) /\ IsLedger(view)
  /\ block \in [processing : BOOLEAN, txs : 0 .. MaxTxs, fees : Uint64]
  /\ height \in Heights
  /\ queue \in Seq(Uint64)
  /\ accepted \in [step : {"fees", "mint", "add"}, minted : Uint64]

\* The balancer knows the stake of a record under the record's terms.
RegistrationBacked(e, n, rec) ==
  HasValidator(e, n) /\ ValidatorOf(e, n).StakedAmount = rec.StakedAmount

DelegationBacked(e, n, a, rec) ==
  /\ HasDelegator(e, n, a)
  /\ LET d == ValidatorOf(e, n).delegators[a]
     IN /\ d.StakedAmount = rec.StakedAmount
        /\ d.StakeStartBlock = rec.StakeStartBlock
        /\ d.StakeEndBlock = rec.StakeEndBlock

\* Every stake held in the chain state is known to the balancer under the same
\* terms, so that WithdrawValidatorStake and UndelegateUserStake, which ask the
\* balancer first, can give it back: no stake is ever trapped.
RecordsBacked ==
  /\ \A n \in DOMAIN view.registered : RegistrationBacked(em, n, view.registered[n])
  /\ \A k \in DOMAIN view.delegated :
       DelegationBacked(em, k[1], k[2], view.delegated[k])

Counting(v) == {a \in DOMAIN v.delegators : v.delegators[a].IsActive}

\* No balance is so large that a reward or a stake could not be added to it, so
\* storage.AddBalance does not fail after the balancer has been told, and what
\* the active delegators of a validator staked fits in its DelegatedAmount.
Headroom ==
  /\ \A a \in Addresses, n \in DOMAIN em.validators :
       LET room(x) == view.balance[a] + x < Word IN
       /\ n \in DOMAIN view.registered =>
            room(WithdrawReward(em, n) + view.registered[n].StakedAmount)
       /\ \A u \in Addresses :
            <<n, u>> \in DOMAIN view.delegated /\ HasDelegator(em, n, u) =>
              room(CalculateUserDelegationRewards(em, n, u)
                     + view.delegated[<<n, u>>].StakedAmount)
  /\ \A n \in DOMAIN em.validators :
       StakeOf(ValidatorOf(em, n), Counting(ValidatorOf(em, n))) < Word

\* Once Controller.Accepted is done with the last accepted block, a delegator
\* counts as active only inside the window it asked for: processEvents has
\* neither started it early nor forgotten to stop it.
ActiveInsideWindow ==
  queue = <<>> =>
    \A n \in DOMAIN em.validators :
      \A a \in DOMAIN ValidatorOf(em, n).delegators :
        LET d == ValidatorOf(em, n).delegators[a]
        IN d.IsActive => d.StakeStartBlock <= height /\ height < d.StakeEndBlock

\* A validator's DelegatedAmount is what its active delegators staked, however
\* delegations start, end and are taken back around it.
DelegatedAmountCurrent ==
  queue = <<>> =>
    \A n \in DOMAIN em.validators :
      LET v == ValidatorOf(em, n)
      IN v.DelegatedAmount = StakeOf(v, Counting(v))

\* Outside the two steps of a mint the total supply respects the cap, although
\* MintNewNAI adds what it distributed, AddToTotalSupply adds it again, and the
\* clamp of the latter may have to wrap around to get there.
SupplyWithinCap == accepted.step # "add" => em.TotalSupply <= MaxSupply

\* What the accounts own, and what the balancer owes to its validators (those
\* it has dropped included) and their delegators.
Staked(records) ==
  SumFunctionOnSet([k \in DOMAIN records |-> records[k].StakedAmount], DOMAIN records)

Wealth(v) ==
  SumFunctionOnSet(v.balance, Addresses) + Staked(v.registered) + Staked(v.delegated)

Owed(v) == v.AccumulatedStakedReward + v.AccumulatedDelegatedReward

Pools(e) == SumFunctionOnSet([r \in DOMAIN e.heap |-> Owed(e.heap[r])], DOMAIN e.heap)

\* No staking transaction creates or destroys money: what reaches an account
\* beyond its own stake leaves a reward pool in the same step, and only the fee
\* is lost (modulo Word, as a pool may be driven below zero).
PaymentsComeFromPools ==
  [][block'.txs > block.txs =>
       (Wealth(view') + Pools(em') + TxFee) % Word
         = (Wealth(view) + Pools(em)) % Word]_vars

\* A delegation that counts eventually stops counting, and every accepted
\* block is eventually dealt with by Controller.Accepted.
DelegationsEnd ==
  \A n \in NodeIDs, a \in Addresses :
    LET counts == HasDelegator(em, n, a) /\ ValidatorOf(em, n).delegators[a].IsActive
    IN counts ~> ~ counts

AcceptedCatchesUp == queue # <<>> ~> queue = <<>>
=============================================================================
