\* Two delegators and two validators, of which one account may register both;
\* blocks of up to two transactions with a fee, an epoch per block.
CONSTANTS
  owner = owner
  user = user
  n1 = n1
  n2 = n2
  NodeIDs = {n1, n2}
  Addresses = {owner, user}
  Owners = {owner}
  GenesisBalance <- MCBalance
  Word = 64
  MaxSupply = 30
  EpochLength = 1
  BaseValidators = 1
  RewardNum = 1
  RewardDen = 2
  FloatOverflow = 0
  MaxHeight = 3
  TxFee = 1
  MinValidatorStake = 4
  MaxValidatorStake = 8
  MinValidatorStakeDuration = 1
  MaxValidatorStakeDuration = 2
  MinDelegationFee = 2
  MinDelegatorStake = 2
  StakeAmounts = {4}
  FeeRates = {34}
  RewardAddresses = {owner, user}
  MaxTxs = 2
  MaxPending = 0
  MayReject = FALSE
  MayRestart = FALSE
SPECIFICATION ReplicasSpec
INVARIANTS ReplicasAgree FeesAgree
SYMMETRY Symmetry
