\* Three transactions, rejected blocks, the acceptor up to a block behind.
CONSTANTS
  owner = owner
  user = user
  n1 = n1
  NodeIDs = {n1}
  Addresses = {owner, user}
  Owners = {owner}
  GenesisBalance <- MCBalance
  Word = 64
  MaxSupply = 20
  EpochLength = 1
  BaseValidators = 1
  RewardNum = 1
  RewardDen = 2
  FloatOverflow = 0
  MaxHeight = 3
  TxFee = 1
  MinValidatorStake = 4
  MaxValidatorStake = 8
  MinValidatorStakeDuration = 1
  MaxValidatorStakeDuration = 1
  MinDelegationFee = 2
  MinDelegatorStake = 2
  StakeAmounts = {4}
  FeeRates = {50}
  RewardAddresses = {user}
  MaxTxs = 2
  MaxPending = 1
  MayReject = TRUE
  MayRestart = FALSE
  MaxSent = 3
  Waited = {2}
SPECIFICATION NodeFairSpec
INVARIANTS MetricsMatchLedger IndexTruthful
PROPERTIES AcceptedCatchesUp WaitReturns
