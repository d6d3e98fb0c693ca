------------------------------- MODULE Relay --------------------------------
(***************************************************************************)
(* The command line client between two chains (cmd/nuklai-cli/cmd): the    *)
(* commands export-asset and import-asset of several users, composed with  *)
(* the chains of module Warp.  A command looks at the chain, asks the user,*)
(* collects signatures of the source's validators and sends a transaction, *)
(* while the chains and the other users go on.                             *)
(*                                                                         *)
(* What the user answers is a choice; which validators answer when they    *)
(* are asked for a signature, and whether a transaction is executed before *)
(* it expires, is the network's.                                           *)
(***************************************************************************)
EXTENDS Warp

CONSTANTS
  Validators,    \* validators of the source chain's subnet
  StakeWeight,   \* the weight of each
  Persistent     \* a user who does not give up

VARIABLES
  cmd,       \* the command that each user is running
  arrived    \* how many imports of each message users were told succeeded

relay == <<vars, cmd, arrived>>

ASSUME RelayAssumption ==
  /\ Validators # {} /\ IsFiniteSet(Validators)
  /\ StakeWeight \in [Validators -> Nat \ {0}]
  /\ Persistent \in Addresses

IDs == 1 .. MaxMessages
Message(id) == CHOOSE m \in sent : m.TxID = id
IsSent(id)  == \E m \in sent : m.TxID = id

NoCommand == [step |-> "idle"]
At(u, step) == cmd[u].step = step
Goto(u, c)  == cmd' = [cmd EXCEPT ![u] = c]

RelayInit ==
  /\ Init
  /\ cmd = [u \in Addresses |-> NoCommand]
  /\ arrived = [id \in IDs |-> 0]

-----------------------------------------------------------------------------
(* export-asset.                                                           *)

\* GetAssetInfo: an imported asset goes back where it came from.
HasAssetInfo(c, x) == x = Native \/ x \in DOMAIN chain[c].asset
IsReturn(c, x) == x # Native /\ chain[c].asset[x].warp
\* Mutant: the command does not tell imported assets from others.
DestinationOkAnywhere(c, e) == ~ e.Return /\ e.Destination # c
DestinationOk(c, e) ==
  /\ e.Return = IsReturn(c, e.Asset)
  /\ e.Destination # c
  /\ e.Return => e.Destination = e.Asset[2]

\* The prompts: no more than the balance that was read when the command began.
PromptExport(u, c, e) ==
  /\ At(u, "idle")
  /\ Cardinality(sent) + Cardinality({w \in Addresses : At(w, "export")}) < MaxMessages
  /\ HasAssetInfo(c, e.Asset)
  /\ DestinationOk(c, e)
  /\ e.Value + e.Reward <= chain[c].balance[u][e.Asset]
  /\ ValidSwapParams(e.Value, e.swap)
  /\ Goto(u, [step |-> "export", chain |-> c, export |-> e])
  /\ UNCHANGED <<vars, arrived>>

\* sendAndWait of the export; when it succeeds the user may go on to import.
SubmitExport(u) ==
  /\ At(u, "export")
  /\ LET c == cmd[u].chain
         e == cmd[u].export
     IN \/ /\ ExportTx(c, u, e)
           /\ \/ Goto(u, [step |-> "sign", id |-> Cardinality(sent')])
              \/ Goto(u, NoCommand)
        \/ /\ e.Value = 0 \/ ~ ExportAsset(chain[c], u, e).ok
           /\ Goto(u, NoCommand) /\ UNCHANGED vars
  /\ UNCHANGED arrived

-----------------------------------------------------------------------------
(* import-asset, and performImport for both.                               *)

StartImport(u, id) ==
  /\ At(u, "idle") /\ IsSent(id)
  /\ Goto(u, [step |-> "sign", id |-> id])
  /\ UNCHANGED <<vars, arrived>>

Weight(S) == SumFunctionOnSet(StakeWeight, S)
SubnetWeight == Weight(Validators)

\* The loop over GenerateAggregateWarpSignature ends with the answers of S.
Collect(u, id, S) ==
  /\ At(u, "sign") /\ cmd[u].id = id
  /\ Weight(S) >= (SubnetWeight * 4) \div 5
  /\ Goto(u, [step |-> "fill", id |-> id, sigWeight |-> Weight(S)])
  /\ UNCHANGED <<vars, arrived>>

\* Too little weight, or an error, and the user does not want to try again.
GiveUp(u) == At(u, "sign") /\ Goto(u, NoCommand) /\ UNCHANGED <<vars, arrived>>

\* Mutants of the check for ErrMustFill: it is left out; it never ends.
MustFillNever(m, fill)  == FALSE
MustFillAlways(m, fill) == ~ fill /\ m.swap.SwapIn > 0
MustFill(m, fill) == ~ fill /\ m.swap.SwapExpiry > now

ChooseFill(u, id, fill) ==
  /\ At(u, "fill") /\ cmd[u].id = id
  /\ fill => Message(id).swap.SwapIn > 0
  /\ \/ MustFill(Message(id), fill) /\ Goto(u, NoCommand)
     \/ /\ ~ MustFill(Message(id), fill)
        /\ Goto(u, [step |-> "import", id |-> id, sigWeight |-> cmd[u].sigWeight,
                    fill |-> fill])
  /\ UNCHANGED <<vars, arrived>>

\* GetWarpConfig: the share of the stake that must have signed, in hypersdk's
\* comparison, which does not divide.
Quorum(sigWeight) == sigWeight * 5 >= SubnetWeight * 4

ImportSucceeds(u) ==
  LET m == Message(cmd[u].id)
      c == m.DestinationChainID
  IN /\ WarpVerified(c, m) /\ Quorum(cmd[u].sigWeight)
     /\ Imported(c, u, m, cmd[u].fill, now).ok

\* sendAndWait of the import; performImport does not look at its success.
SubmitImport(u) ==
  /\ At(u, "import")
  /\ LET m == Message(cmd[u].id)
     IN \/ /\ ImportSucceeds(u)
           /\ ImportTx(m.DestinationChainID, u, m, cmd[u].fill)
           /\ arrived' = [arrived EXCEPT ![m.TxID] = @ + 1]
        \/ ~ ImportSucceeds(u) /\ UNCHANGED <<vars, arrived>>
  /\ Goto(u, NoCommand)

\* sendAndWait returns an error: most of all, the transaction expired before a
\* block took it.
Dropped(u) ==
  /\ At(u, "export") \/ At(u, "import")
  /\ Goto(u, NoCommand)
  /\ UNCHANGED <<vars, arrived>>

\* The same account is used elsewhere meanwhile, and time passes.
Elsewhere ==
  \/ \E c \in Chains, u, to \in Addresses, x \in Assets, v \in Values :
       u # to /\ TransferTx(c, u, to, x, v)
  \/ Tick

RelayNext ==
  \/ \E u \in Addresses :
       \/ \E c \in Chains, e \in Exports : PromptExport(u, c, e)
       \/ SubmitExport(u)
       \/ \E id \in IDs :
            \/ StartImport(u, id)
            \/ \E S \in SUBSET Validators : Collect(u, id, S)
            \/ \E fill \in BOOLEAN : ChooseFill(u, id, fill)
       \/ GiveUp(u) \/ SubmitImport(u) \/ Dropped(u)
  \/ Elsewhere /\ UNCHANGED <<cmd, arrived>>

RelaySpec == RelayInit /\ [][RelayNext]_relay

\* Time passes.  One user who wants a message that was sent is again and again
\* answered by all validators, sometimes chooses not to fill its order then, and
\* of the imports that can succeed some are executed before they expire.
\* (Strong fairness with the enabling conditions spelled out.)
RelayFairness ==
  LET u == Persistent
      signed(id)  == At(u, "fill") /\ cmd[u].id = id /\ Quorum(cmd[u].sigWeight)
      sending(id) == At(u, "import") /\ cmd[u].id = id /\ ImportSucceeds(u)
  IN /\ []<>(now = MaxTime)
     /\ \A id \in IDs :
          /\ []<>IsSent(id) => []<><<Collect(u, id, Validators)>>_cmd
          /\ []<>signed(id) => []<><<signed(id) /\ ChooseFill(u, id, FALSE)>>_cmd
          /\ []<>sending(id) => []<><<sending(id) /\ SubmitImport(u)>>_cmd

RelayFairSpec == RelaySpec /\ RelayFairness

-----------------------------------------------------------------------------
(* Properties.                                                             *)

\* An import that performImport sends fails for one of three reasons only: the
\* message was imported meanwhile, the signatures fall short, or the one who
\* fills the order cannot pay.  The command's own check of the order's expiry
\* has kept it from paying a fee for anything else.
ImportFailsForAReason ==
  \A u \in Addresses : At(u, "import") /\ ~ ImportSucceeds(u) =>
    LET m == Message(cmd[u].id)
        c == m.DestinationChainID
    IN \/ m \in chain[c].imported
       \/ ~ Quorum(cmd[u].sigWeight)
       \/ cmd[u].fill /\ chain[c].balance[u][m.swap.AssetOut] < m.swap.SwapOut

\* An export whose prompts were answered fails only when the balance that was
\* read is gone, or the user has asked to export nothing, which PromptAmount
\* allows: the command has the destination and the direction right for every
\* asset, those that came from another chain included.
ExportFailsForFunds ==
  \A u \in Addresses : At(u, "export") =>
    LET c == cmd[u].chain
        e == cmd[u].export
    IN \/ ExportAsset(chain[c], u, e).ok
       \/ chain[c].balance[u][e.Asset] < e.Value + e.Reward
       \/ e.Value = 0

\* Users who race to import a message are not both told that they did.
ArrivesOnce == \A id \in IDs : arrived[id] <= 1

\* A message that was sent is imported in the end, whatever its order asks for.
MessagesArrive == \A id \in IDs : IsSent(id) ~> (arrived[id] > 0)
=============================================================================
