\* Is TotalStaked the sum of the active stakes?
CONSTANTS
  owner = owner
  user = user
  n1 = n1
  NodeIDs = {n1}
  Addresses = {owner, user}
  Owners = {owner}
  GenesisBalance <- MCBalance
  Word = 64
  MaxSupply = 20
  EpochLength = 2
  BaseValidators = 1
  RewardNum = 1
  RewardDen = 2
  FloatOverflow = 0
  MaxHeight = 4
  TxFee = 0
  MinValidatorStake = 4
  MaxValidatorStake = 8
  MinValidatorStakeDuration = 2
  MaxValidatorStakeDuration = 4
  MinDelegationFee = 2
  MinDelegatorStake = 2
  StakeAmounts = {4}
  FeeRates = {50}
  RewardAddresses = {user}
  MaxTxs = 1
  MaxPending = 0
  MayReject = FALSE
  MayRestart = FALSE
SPECIFICATION Spec
INVARIANTS TotalStakedCurrent
