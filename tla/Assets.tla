------------------------------- MODULE Assets -------------------------------
(***************************************************************************)
(* The asset actions (transfer, create, mint, burn, export, import) on the *)
(* state of one chain: balances, asset records and loans.                  *)
(*                                                                         *)
(* An operator takes the chain state `s` to the state after Execute.  A    *)
(* storage call that returns an error, like a check of Execute that fails, *)
(* clears `s.ok`: the transaction fails and hypersdk drops all it wrote,   *)
(* so a state that is not ok is never used.  `s.keys` are the keys that    *)
(* StateKeys declares for the transaction: a storage call on any other key *)
(* returns an error.                                                       *)
(***************************************************************************)
EXTENDS Integers, FiniteSets

CONSTANTS
  Addresses,     \* account addresses
  EmptyAddress,  \* codec.EmptyAddress, nobody's
  Chains,        \* chain IDs
  Native,        \* ids.Empty: the native asset of every chain
  NewAssets,     \* IDs of the transactions that create assets
  Symbols,       \* symbol and decimals of an asset
  Word           \* modulus of uint64

Originals == {Native} \cup NewAssets

\* ImportedAssetID hashes the asset with the chain it comes from.
ImportedAssetID(asset, source) == <<asset, source>>
Assets == Originals \cup {ImportedAssetID(x, c) : x \in Originals, c \in Chains}

Uint64 == 0 .. (Word - 1)

ASSUME AssetsAssumption ==
  /\ Word \in Nat \ {0}
  /\ EmptyAddress \notin Addresses
  /\ Native \notin NewAssets
  /\ \A x, y \in Originals, c \in Chains : x # ImportedAssetID(y, c)

AssetRecord ==
  [symbol : Symbols, supply : Uint64, owner : Addresses \cup {EmptyAddress},
   warp : BOOLEAN]

-----------------------------------------------------------------------------
(* storage/storage.go.  Absent balances and loans are 0.                   *)

BalanceKey(a, x) == <<"balance", a, x>>
AssetKey(x)      == <<"asset", x>>
LoanKey(x, dest) == <<"loan", x, dest>>

Declare(s, keys) == [s EXCEPT !.keys = keys]
Check(s, p) == [s EXCEPT !.ok = @ /\ p]
CheckKey(s, k) == Check(s, k \in s.keys)

AddBalance(s, a, x, v) ==
  [Check(CheckKey(s, BalanceKey(a, x)), s.balance[a][x] + v < Word)
     EXCEPT !.balance[a][x] = @ + v]
\* Mutant: an account may be overdrawn.
SubBalanceUnchecked(s, a, x, v) == [s EXCEPT !.balance[a][x] = @ - v]
SubBalance(s, a, x, v) ==
  [Check(CheckKey(s, BalanceKey(a, x)), v <= s.balance[a][x])
     EXCEPT !.balance[a][x] = @ - v]
AddLoan(s, x, dest, v) ==
  [Check(CheckKey(s, LoanKey(x, dest)), s.loan[x][dest] + v < Word)
     EXCEPT !.loan[x][dest] = @ + v]
\* Mutant: the last unit of a loan cannot be returned.
SubLoanStrict(s, x, dest, v) ==
  [Check(CheckKey(s, LoanKey(x, dest)), v < s.loan[x][dest])
     EXCEPT !.loan[x][dest] = @ - v]
SubLoan(s, x, dest, v) ==
  [Check(CheckKey(s, LoanKey(x, dest)), v <= s.loan[x][dest])
     EXCEPT !.loan[x][dest] = @ - v]

\* GetAsset finds a record.
HasAsset(s, x) == AssetKey(x) \in s.keys /\ x \in DOMAIN s.asset

SetAsset(s, x, rec) ==
  [Check(CheckKey(s, AssetKey(x)), rec.supply \in Uint64) EXCEPT
     !.asset = [y \in DOMAIN s.asset \cup {x} |-> IF y = x THEN rec ELSE s.asset[y]]]
DeleteAsset(s, x) ==
  [CheckKey(s, AssetKey(x)) EXCEPT !.asset = [y \in DOMAIN s.asset \ {x} |-> s.asset[y]]]

-----------------------------------------------------------------------------
(* Transfer, CreateAsset, MintAsset, BurnAsset: StateKeys and Execute.     *)

Transfer(s0, actor, to, x, v) ==
  LET s == Declare(s0, {BalanceKey(actor, x), BalanceKey(to, x)})
  IN AddBalance(SubBalance(Check(s, v > 0), actor, x, v), to, x, v)

CreateAsset(s, actor, txID, symbol) ==
  SetAsset(Declare(s, {AssetKey(txID)}), txID,
           [symbol |-> symbol, supply |-> 0, owner |-> actor, warp |-> FALSE])

CanMint(s, actor, x, v) ==
  x # Native /\ v > 0 /\ HasAsset(s, x) /\ ~ s.asset[x].warp
    /\ s.asset[x].owner = actor

MintAsset(s0, actor, to, x, v) ==
  LET s == Declare(s0, {AssetKey(x), BalanceKey(to, x)})
  IN IF CanMint(s, actor, x, v)
       THEN AddBalance(SetAsset(s, x, [s.asset[x] EXCEPT !.supply = @ + v]), to, x, v)
       ELSE Check(s, FALSE)

BurnAsset(s0, actor, x, v) ==
  LET s == Declare(s0, {AssetKey(x), BalanceKey(actor, x)})
  IN IF v > 0 /\ HasAsset(s, x)
       THEN SetAsset(SubBalance(s, actor, x, v), x, [s.asset[x] EXCEPT !.supply = @ - v])
       ELSE Check(s, FALSE)

-----------------------------------------------------------------------------
(* ExportAsset.  An export `e` has the fields of the action; the order it  *)
(* may carry, SwapIn of the asset for SwapOut of AssetOut, is that of the  *)
(* message it sends.                                                       *)

NoSwap == [SwapIn |-> 0, AssetOut |-> Native, SwapOut |-> 0, SwapExpiry |-> 0]

ValidSwapParams(value, swap) ==
  /\ swap.SwapExpiry >= 0
  /\ swap.SwapIn <= value
  /\ IF swap.SwapIn > 0 THEN swap.SwapOut # 0 ELSE swap = NoSwap

\* What concerns the relayer's reward is done only when there is one.
Rewarding(reward, with, without) == IF reward > 0 THEN with ELSE without

\* Back to the chain of origin: what was minted here is burnt.
ExportReturn(s, actor, e) ==
  LET left  == s.asset[e.Asset].supply - e.Value - e.Reward
      kept  == IF left > 0
                 THEN SetAsset(s, e.Asset, [s.asset[e.Asset] EXCEPT !.supply = left])
                 ELSE DeleteAsset(Check(s, left = 0), e.Asset)
      value == SubBalance(kept, actor, e.Asset, e.Value)
  IN IF /\ HasAsset(s, e.Asset)
        /\ s.asset[e.Asset].warp
        /\ e.Asset[2] = e.Destination
       THEN Rewarding(e.Reward, SubBalance(value, actor, e.Asset, e.Reward), value)
       ELSE Check(s, FALSE)

\* Mutant: the relayer's reward leaves the chain without being lent.
ExportLoanNoReward(s, actor, e) ==
  IF HasAsset(s, e.Asset) /\ ~ s.asset[e.Asset].warp
    THEN SubBalance(SubBalance(AddLoan(s, e.Asset, e.Destination, e.Value),
                               actor, e.Asset, e.Value),
                    actor, e.Asset, e.Reward)
    ELSE Check(s, FALSE)

\* To another chain: what leaves is lent to it.
ExportLoan(s, actor, e) ==
  LET value == SubBalance(AddLoan(s, e.Asset, e.Destination, e.Value),
                          actor, e.Asset, e.Value)
  IN IF HasAsset(s, e.Asset) /\ ~ s.asset[e.Asset].warp
       THEN Rewarding(e.Reward,
              SubBalance(AddLoan(value, e.Asset, e.Destination, e.Reward),
                         actor, e.Asset, e.Reward),
              value)
       ELSE Check(s, FALSE)

ExportStateKeys(actor, e) ==
  {AssetKey(e.Asset), BalanceKey(actor, e.Asset)}
    \cup (IF e.Return THEN {} ELSE {LoanKey(e.Asset, e.Destination)})

ExportAsset(s0, actor, e) ==
  LET s == Declare(s0, ExportStateKeys(actor, e))
  IN IF e.Return THEN ExportReturn(s, actor, e) ELSE ExportLoan(s, actor, e)

\* The messages: Marshal and UnmarshalWarpTransfer keep every field.
Swaps == [SwapIn : Uint64, AssetOut : Assets, SwapOut : Uint64, SwapExpiry : Nat]
WarpTransfers ==
  [To : Addresses, symbol : Symbols, Asset : Originals, Value : Uint64 \ {0},
   Return : BOOLEAN, Reward : Uint64, swap : Swaps, TxID : Nat,
   SourceChainID : Chains, DestinationChainID : Chains]

\* The WarpTransfer that e sends when it succeeds in state s of chain c.
WarpTransfer(s, c, e, txID) ==
  [To |-> e.To, symbol |-> s.asset[e.Asset].symbol,
   Asset |-> IF e.Return THEN e.Asset[1] ELSE e.Asset,
   Value |-> e.Value, Return |-> e.Return, Reward |-> e.Reward, swap |-> e.swap,
   TxID |-> txID, SourceChainID |-> c, DestinationChainID |-> e.Destination]

-----------------------------------------------------------------------------
(* ImportAsset of a message m, submitted by actor.                         *)

\* UnmarshalWarpTransfer checks again what UnmarshalExportAsset has checked.
UnmarshalWarpTransferOk(m) == m.Value > 0 /\ ValidSwapParams(m.Value, m.swap)

AssetIn(m) ==
  IF m.Return THEN m.Asset ELSE ImportedAssetID(m.Asset, m.SourceChainID)

\* Mutant: the first import of an asset forgets the relayer's reward.
ImportMintNoReward(s, actor, m) ==
  LET x   == AssetIn(m)
      rec == [symbol |-> m.symbol, supply |-> m.Value,
              owner |-> EmptyAddress, warp |-> TRUE]
      new == IF HasAsset(s, x)
               THEN [s.asset[x] EXCEPT !.supply = @ + m.Value + m.Reward] ELSE rec
  IN AddBalance(AddBalance(SetAsset(s, x, new), m.To, x, m.Value),
                actor, x, m.Reward)

ImportMint(s, actor, m) ==
  LET x     == AssetIn(m)
      old   == IF HasAsset(s, x)
                 THEN s.asset[x] ELSE [symbol |-> m.symbol, supply |-> 0]
      new   == [symbol |-> old.symbol, supply |-> old.supply + m.Value + m.Reward,
                owner |-> EmptyAddress, warp |-> TRUE]
      ok    == HasAsset(s, x) => s.asset[x].warp
      value == AddBalance(SetAsset(Check(s, ok), x, new), m.To, x, m.Value)
  IN Rewarding(m.Reward, AddBalance(value, actor, x, m.Reward), value)

ImportReturn(s, actor, m) ==
  LET x  == m.Asset
      ok == HasAsset(s, x) /\ s.asset[x].symbol = m.symbol /\ ~ s.asset[x].warp
      value == AddBalance(SubLoan(Check(s, ok), x, m.SourceChainID, m.Value),
                          m.To, x, m.Value)
  IN Rewarding(m.Reward,
       AddBalance(SubLoan(value, x, m.SourceChainID, m.Reward), actor, x, m.Reward),
       value)

\* Mutant: the taker of an order gets the asset without the sender losing it.
FillSwapUnpaid(s, actor, m) ==
  LET in == AddBalance(s, actor, AssetIn(m), m.swap.SwapIn)
  IN AddBalance(SubBalance(in, actor, m.swap.AssetOut, m.swap.SwapOut),
                m.To, m.swap.AssetOut, m.swap.SwapOut)

\* The actor takes the order of the message.
FillSwap(s, actor, m) ==
  LET in  == AddBalance(SubBalance(s, m.To, AssetIn(m), m.swap.SwapIn),
                        actor, AssetIn(m), m.swap.SwapIn)
  IN AddBalance(SubBalance(in, actor, m.swap.AssetOut, m.swap.SwapOut),
                m.To, m.swap.AssetOut, m.swap.SwapOut)

\* Mutant: only the one who fills the order declares a balance of its own.
ImportStateKeysNoReward(actor, m, fill) ==
  {AssetKey(AssetIn(m)), BalanceKey(m.To, AssetIn(m))}
    \cup (IF m.Return THEN {LoanKey(m.Asset, m.SourceChainID)} ELSE {})
    \cup (IF fill /\ m.swap.SwapIn > 0
            THEN {BalanceKey(actor, m.swap.AssetOut), BalanceKey(actor, AssetIn(m)),
                  BalanceKey(m.To, m.swap.AssetOut)}
            ELSE {})

ImportStateKeys(actor, m, fill) ==
  {AssetKey(AssetIn(m)), BalanceKey(m.To, AssetIn(m))}
    \cup (IF m.Return THEN {LoanKey(m.Asset, m.SourceChainID)} ELSE {})
    \cup (IF m.Reward > 0 THEN {BalanceKey(actor, AssetIn(m))} ELSE {})
    \cup (IF fill /\ m.swap.SwapIn > 0
            THEN {BalanceKey(actor, m.swap.AssetOut), BalanceKey(actor, AssetIn(m)),
                  BalanceKey(m.To, m.swap.AssetOut)}
            ELSE {})

\* Without filling it the message must wait for the order to expire.
ImportAsset(s0, t, actor, m, fill) ==
  LET s == Declare(s0, ImportStateKeys(actor, m, fill))
      r == IF m.Return THEN ImportReturn(s, actor, m) ELSE ImportMint(s, actor, m)
  IN IF fill THEN FillSwap(r, actor, m)
             ELSE Check(r, m.swap.SwapIn = 0 \/ m.swap.SwapExpiry <= t)
=============================================================================
