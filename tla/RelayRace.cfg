\* Two users relay messages between two chains, each with the command line client.
CONSTANTS
  alice = alice
  bob = bob
  chainA = chainA
  chainB = chainB
  Addresses = {alice, bob}
  EmptyAddress = EmptyAddress
  Chains = {chainA, chainB}
  Native = Native
  NewAssets = {}
  Symbols = {NAI}
  NativeSymbol = NAI
  Created = {}
  Word = 4
  GenesisBalance <- MCBalance
  Values = {0, 1}
  Rewards = {0}
  Orders <- MCOrders
  MaxMessages = 2
  MaxTime = 1
  Validators = {v1, v2, v3}
  StakeWeight <- MCWeight
  Persistent = bob
SPECIFICATION RelayFairSpec
CHECK_DEADLOCK FALSE
INVARIANTS ImportFailsForAReason  ArrivesOnce
PROPERTY MessagesArrive
