\* Two chains, two accounts, the native assets and one created asset.
CONSTANTS
  alice = alice
  bob = bob
  chainA = chainA
  chainB = chainB
  tok = tok
  Addresses = {alice, bob}
  EmptyAddress = EmptyAddress
  Chains = {chainA, chainB}
  Native = Native
  NewAssets = {tok}
  Symbols = {NAI, TOK}
  NativeSymbol = NAI
  Created = {TOK}
  Word = 3
  GenesisBalance <- MCBalance
  Values = {1}
  Rewards = {0, 1}
  Orders <- MCOrders
  MaxMessages = 2
  MaxTime = 1
SPECIFICATION Spec
CHECK_DEADLOCK FALSE
INVARIANTS TypeOK  LoansCoverAbroad Deliverable
 
