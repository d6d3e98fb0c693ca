-------------------------------- MODULE Warp --------------------------------
(***************************************************************************)
(* Assets on several chains that run this VM, and the warp messages that   *)
(* carry them from one to the other.  A message may be delivered late, by  *)
(* anyone, again and again, or never.  hypersdk signs what a chain has     *)
(* sent and verifies a message that the chain has not imported before.     *)
(*                                                                         *)
(* One step is one transaction that succeeds; one that fails leaves its    *)
(* chain as it was.  Fees are the business of module Staking.              *)
(***************************************************************************)
EXTENDS Assets, Functions

CONSTANTS
  GenesisBalance,  \* allocation of the native asset, per chain and account
  NativeSymbol,    \* symbol of the native asset
  Created,         \* symbols of assets that are created
  Values,          \* amounts that are tried
  Rewards,         \*   and rewards for the relayer
  Orders,          \*   and orders
  MaxMessages,     \* bound on the messages sent
  MaxTime          \* bound on the time of a block

VARIABLES
  chain,  \* the state of each chain
  sent,   \* the messages that were sent
  now     \* time of the blocks being built

vars == <<chain, sent, now>>

\* Genesis.Load fails when the allocations add up to more than a uint64.
ASSUME WarpAssumption ==
  /\ IsFiniteSet(Addresses) /\ IsFiniteSet(Chains)
  /\ GenesisBalance \in [Chains -> [Addresses -> Uint64]]
  /\ \A c \in Chains : SumFunctionOnSet(GenesisBalance[c], Addresses) \in Uint64
  /\ Values \subseteq Uint64 /\ Rewards \subseteq Uint64
  /\ Orders \subseteq Swaps
  /\ NativeSymbol \in Symbols
  /\ Created \subseteq Symbols
  /\ MaxMessages \in Nat
  /\ MaxTime \in Nat

\* A chain after Genesis.Load: the allocations and the record of the native asset.
Genesis(c) ==
  [balance |-> [a \in Addresses |-> [x \in Assets |->
                  IF x = Native THEN GenesisBalance[c][a] ELSE 0]],
   asset |-> [x \in {Native} |->
                [symbol |-> NativeSymbol, owner |-> EmptyAddress, warp |-> FALSE,
                 supply |-> SumFunctionOnSet(GenesisBalance[c], Addresses)]],
   loan |-> [x \in Originals |-> [d \in Chains |-> 0]],
   imported |-> {}, ok |-> TRUE, keys |-> {}]

Init == chain = [c \in Chains |-> Genesis(c)] /\ sent = {} /\ now = 0

\* The state r of a transaction on chain c becomes the chain's.
Execute(c, r) == r.ok /\ chain' = [chain EXCEPT ![c] = [r EXCEPT !.keys = {}]]

TransferTx(c, actor, to, x, v) ==
  Execute(c, Transfer(chain[c], actor, to, x, v)) /\ UNCHANGED <<sent, now>>

\* A transaction ID is an asset once.
CreateTx(c, actor, x, symbol) ==
  /\ \A d \in Chains : x \notin DOMAIN chain[d].asset
  /\ Execute(c, CreateAsset(chain[c], actor, x, symbol))
  /\ UNCHANGED <<sent, now>>

MintTx(c, actor, to, x, v) ==
  Execute(c, MintAsset(chain[c], actor, to, x, v)) /\ UNCHANGED <<sent, now>>

BurnTx(c, actor, x, v) ==
  Execute(c, BurnAsset(chain[c], actor, x, v)) /\ UNCHANGED <<sent, now>>

\* No member of Chains is the empty ID, which ExportAsset refuses.
ExportTx(c, actor, e) ==
  /\ e.Value > 0 /\ ValidSwapParams(e.Value, e.swap)
  /\ Execute(c, ExportAsset(chain[c], actor, e))
  /\ sent' = sent \cup {WarpTransfer(chain[c], c, e, Cardinality(sent) + 1)}
  /\ UNCHANGED now

\* Mutant: a message may be imported again.
WarpVerifiedAgain(c, m) == m \in sent

\* A message is verified when its chain sent it and c has not imported it yet.
WarpVerified(c, m) == m \in sent /\ m \notin chain[c].imported

Imported(c, actor, m, fill, t) ==
  [ImportAsset(chain[c], t, actor, m, fill) EXCEPT !.imported = @ \cup {m}]

ImportTx(c, actor, m, fill) ==
  /\ UnmarshalWarpTransferOk(m)
  /\ WarpVerified(c, m)
  /\ m.DestinationChainID = c
  /\ fill => m.swap.SwapIn > 0
  /\ Execute(c, Imported(c, actor, m, fill, now))
  /\ UNCHANGED <<sent, now>>

Tick == now < MaxTime /\ now' = now + 1 /\ UNCHANGED <<chain, sent>>

Exports ==
  [To : Addresses, Asset : Assets, Value : Values, Return : BOOLEAN,
   Reward : Rewards, swap : Orders \cup {NoSwap}, Destination : Chains]

Next ==
  \/ \E c \in Chains, actor \in Addresses :
       \/ \E to \in Addresses, x \in Assets, v \in Values :
            TransferTx(c, actor, to, x, v) \/ MintTx(c, actor, to, x, v)
       \/ \E x \in Assets, v \in Values : BurnTx(c, actor, x, v)
       \/ \E x \in NewAssets, symbol \in Created : CreateTx(c, actor, x, symbol)
       \/ Cardinality(sent) < MaxMessages /\ \E e \in Exports : ExportTx(c, actor, e)
       \/ \E m \in sent, fill \in BOOLEAN : ImportTx(c, actor, m, fill)
  \/ Tick

Spec == Init /\ [][Next]_vars

-----------------------------------------------------------------------------
(* Properties.                                                             *)

\* The types of the chains' states and of the messages: no check of storage.go
\* lets a balance, a loan or a supply leave uint64, and what is exported as a
\* return names an asset of the chain it returns to, never an imported one.
TypeOK ==
  /\ now \in 0 .. MaxTime
  /\ sent \subseteq WarpTransfers
  /\ \A c \in Chains :
       /\ chain[c].balance \in [Addresses -> [Assets -> Uint64]]
       /\ chain[c].loan \in [Originals -> [Chains -> Uint64]]
       /\ DOMAIN chain[c].asset \subseteq Assets
       /\ \A x \in DOMAIN chain[c].asset : chain[c].asset[x] \in AssetRecord
       /\ chain[c].imported \subseteq sent
       /\ chain[c].ok

InFlight == {m \in sent : m \notin chain[m.DestinationChainID].imported}

\* Of the asset x, in the state s of a chain: the supply its record states, what
\* the accounts own and what is lent to other chains.
Supply(s, x) == IF x \in DOMAIN s.asset THEN s.asset[x].supply ELSE 0
Owned(s, x) == SumFunctionOnSet([a \in Addresses |-> s.balance[a][x]], Addresses)
Lent(s, x) == IF x \in Originals THEN SumFunctionOnSet(s.loan[x], Chains) ELSE 0

\* The supply an asset's record states is what accounts own plus what is lent to
\* other chains: mint, burn, export and import change both by the same amount.
SupplyAccounted ==
  \A c \in Chains, x \in Assets :
    Supply(chain[c], x) = Owned(chain[c], x) + Lent(chain[c], x)

\* The messages under way from c to d with the asset x, and what messages carry.
UnderWay(c, d, x, return) ==
  {m \in InFlight : m.Asset = x /\ m.Return = return
                      /\ m.SourceChainID = c /\ m.DestinationChainID = d}
Load(ms) == SumFunctionOnSet([m \in ms |-> m.Value + m.Reward], ms)

\* What chain d has of an asset of chain c, and what is on its way between the
\* two, is covered by c's loan to d, however messages are delayed or repeated:
\* executeReturn of ImportAsset never pays out more than executeLoan took in.
LoansCoverAbroad ==
  \A c, d \in Chains, x \in Originals :
    Supply(chain[d], ImportedAssetID(x, c))
      + Load(UnderWay(c, d, x, FALSE)) + Load(UnderWay(d, c, x, TRUE))
      <= chain[c].loan[x][d]

\* No message is trapped: once its order has expired anyone can import it on its
\* destination, so no check and no overflow in ImportAsset can stop it for good.
Deliverable ==
  \A m \in InFlight, actor \in Addresses :
    /\ UnmarshalWarpTransferOk(m)
    /\ Imported(m.DestinationChainID, actor, m, FALSE, m.swap.SwapExpiry).ok

-----------------------------------------------------------------------------
(* The chains implement a bridge, in which there are no messages, loans    *)
(* and records, only money that is at home, abroad or under way.           *)

\* Where the units of each asset are.
Units ==
  [c \in Chains |-> [x \in Originals |->
     [home   |-> Owned(chain[c], x),
      abroad |-> [d \in Chains |-> Owned(chain[d], ImportedAssetID(x, c))],
      going  |-> [d \in Chains |-> Load(UnderWay(c, d, x, FALSE))],
      coming |-> [d \in Chains |-> Load(UnderWay(d, c, x, TRUE))]]]]

B == INSTANCE Bridge WITH
       Minted <- NewAssets, Amounts <- Uint64 \ {0}, units <- Units

\* The actions of this VM, on all chains together, move money between home and
\* abroad and create none, whoever relays which message when, with or without
\* rewards and orders: only MintAsset makes money, only BurnAsset destroys it.
IsBridge == B!Spec
=============================================================================
