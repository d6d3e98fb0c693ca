-------------------------------- MODULE Node --------------------------------
(***************************************************************************)
(* Controller.Accepted in full (controller/controller.go): besides calling *)
(* the balancer it counts the results of the block's transactions in the   *)
(* node's metrics and, last of all, writes them to the index that the RPC  *)
(* `tx` reads and that clients poll in WaitForTransaction.                 *)
(*                                                                         *)
(* The actions of Staking, with the transactions of module Transactions    *)
(* that have an identity here: one whose block is rejected goes back to    *)
(* the mempool and may get another result in a later block.                *)
(***************************************************************************)
EXTENDS Transactions

CONSTANTS
  MaxSent,   \* bound on the transactions that clients send
  Waited     \* those for which a client calls WaitForTransaction

VARIABLES
  sent,      \* how many transactions there are; they are numbered from 1
  mempool,   \* those whose block was rejected
  results,   \* results of the processing block
  pending,   \* results of the blocks in `queue`
  metrics,   \* the gauges and counters of controller/metrics.go about money
  metaDB,    \* the index of transactions: was it a success?
  told,      \* what WaitForTransaction has returned to the clients
  chain      \* (history) the transactions of accepted blocks and their success

node == <<vars, sent, mempool, results, pending, metrics, metaDB, told, chain>>

NodeInit ==
  /\ Init
  /\ sent = 0 /\ mempool = EmptyMap
  /\ results = <<>> /\ pending = <<>>
  /\ metrics = [feesDistributed |-> 0, mintedNAI |-> 0,
                validatorStakeAmount |-> 0, delegatorStakeAmount |-> 0]
  /\ metaDB = EmptyMap /\ told = EmptyMap /\ chain = EmptyMap

-----------------------------------------------------------------------------
(* Results.                                                                *)

\* The stake that t puts in or takes out, and the reward it pays.
Stake(t) ==
  CASE t.kind \in {"register", "delegate"} -> t.amount
    [] t.kind = "withdraw"   -> view.registered[t.nodeID].StakedAmount
    [] t.kind = "undelegate" -> view.delegated[<<t.nodeID, t.actor>>].StakedAmount
    [] OTHER -> 0

Reward(t) ==
  CASE t.kind \in {"withdraw", "claimValidator"} -> WithdrawReward(em, t.nodeID)
    [] t.kind = "undelegate"      -> UndelegateReward(em, t.nodeID, t.actor)
    [] t.kind = "claimDelegation" ->
         CalculateUserDelegationRewards(em, t.nodeID, t.userStakeAddress)
    [] OTHER -> 0

\* The balance that Execute changes after the balancer allows it.
Pays(t) ==
  LET b == FeePaid(t.actor).balance
  IN CASE t.kind \in {"register", "delegate"} -> CanSubBalance(b, t.actor, t.amount)
       [] t.kind \in {"withdraw", "undelegate"} ->
            CanPayOut(b, t.rewardAddress, Reward(t), t.actor, Stake(t))
       [] OTHER -> CanAddBalance(b, t.actor, Reward(t))

Result(id, t) ==
  IF Checks(t) /\ Pays(t)
    THEN [id |-> id, tx |-> t, Success |-> TRUE, stake |-> Stake(t), reward |-> Reward(t)]
    ELSE [id |-> id, tx |-> t, Success |-> FALSE]

-----------------------------------------------------------------------------
(* The life of a block.                                                    *)

\* A client sends t where it would get as far as the balancer; whether it still
\* does when it is executed again is another matter.
SendAndExecute(t) ==
  /\ sent < MaxSent
  /\ Checks(t)
  /\ Apply(t)
  /\ sent' = sent + 1
  /\ results' = Append(results, Result(sent', t))
  /\ UNCHANGED <<mempool, pending, metrics, metaDB, told, chain>>

ExecuteAgain(id) ==
  /\ Apply(mempool[id])
  /\ results' = Append(results, Result(id, mempool[id]))
  /\ mempool' = Delete(mempool, id)
  /\ UNCHANGED <<sent, pending, metrics, metaDB, told, chain>>

NodeNewBlock ==
  NewBlock /\ UNCHANGED <<sent, mempool, results, pending, metrics, metaDB, told, chain>>

Indexed(rs) ==
  [id \in {rs[i].id : i \in DOMAIN rs} |-> (CHOOSE i \in DOMAIN rs : rs[i].id = id)]

\* What StoreTransaction puts in the batch for a block with the results rs.
StoreTransaction(db, rs) ==
  LET at == Indexed(rs)
  IN [id \in DOMAIN db \cup DOMAIN at |->
        IF id \in DOMAIN at THEN rs[at[id]].Success ELSE db[id]]

NodeAcceptBlock ==
  /\ AcceptBlock
  /\ pending' = Append(pending, results)
  /\ chain' = StoreTransaction(chain, results)
  /\ results' = <<>>
  /\ UNCHANGED <<sent, mempool, metrics, metaDB, told>>

\* Mutant: the results of a rejected block are stored as well.
NodeRejectBlockStoring ==
  /\ RejectBlock
  /\ metaDB' = StoreTransaction(metaDB, results)
  /\ results' = <<>>
  /\ UNCHANGED <<sent, mempool, pending, metrics, told, chain>>

NodeRejectBlock ==
  /\ RejectBlock
  /\ LET at == Indexed(results)
     IN mempool' = [id \in DOMAIN mempool \cup DOMAIN at |->
                      IF id \in DOMAIN at THEN results[at[id]].tx ELSE mempool[id]]
  /\ results' = <<>>
  /\ UNCHANGED <<sent, pending, metrics, metaDB, told, chain>>

-----------------------------------------------------------------------------
(* Controller.Accepted.                                                    *)

\* The sum over the successful transactions of the kinds in rs of the field f.
Total(rs, kinds, f) ==
  LET some == {i \in DOMAIN rs : rs[i].Success /\ rs[i].tx.kind \in kinds}
  IN SumFunctionOnSet([i \in some |-> rs[i][f]], some)

\* Mutant: the reward that is paid along with an undelegated stake is forgotten.
CountResultsClaimsOnly(m, rs, fees) ==
  [feesDistributed |-> m.feesDistributed + fees,
   mintedNAI |-> m.mintedNAI
     + Total(rs, {"claimValidator", "withdraw", "claimDelegation"}, "reward"),
   validatorStakeAmount |-> m.validatorStakeAmount
     + Total(rs, {"register"}, "stake") - Total(rs, {"withdraw"}, "stake"),
   delegatorStakeAmount |-> m.delegatorStakeAmount
     + Total(rs, {"delegate"}, "stake") - Total(rs, {"undelegate"}, "stake")]

CountResults(m, rs, fees) ==
  [feesDistributed |-> m.feesDistributed + fees,
   mintedNAI |-> m.mintedNAI + Total(rs,
     {"claimValidator", "withdraw", "claimDelegation", "undelegate"}, "reward"),
   validatorStakeAmount |-> m.validatorStakeAmount
     + Total(rs, {"register"}, "stake") - Total(rs, {"withdraw"}, "stake"),
   delegatorStakeAmount |-> m.delegatorStakeAmount
     + Total(rs, {"delegate"}, "stake") - Total(rs, {"undelegate"}, "stake")]

NodeAcceptedFees ==
  /\ AcceptedFees
  /\ metrics' = CountResults(metrics, Head(pending), Head(queue))
  /\ UNCHANGED <<sent, mempool, results, pending, metaDB, told, chain>>

\* Mutant: Accepted returns early, without batch.Write, when nothing was minted.
WriteOnMint ==
  /\ \/ accepted.step = "mint" /\ metaDB' = metaDB
     \/ accepted.step = "add" /\ metaDB' = StoreTransaction(metaDB, Head(pending))
  /\ pending' = IF queue' = queue THEN pending ELSE Tail(pending)
  /\ UNCHANGED <<sent, mempool, results, metrics, told, chain>>

\* batch.Write, when Accepted has nothing left to do.
Write ==
  /\ \/ queue' = queue /\ UNCHANGED <<metaDB, pending>>
     \/ /\ queue' # queue
        /\ metaDB' = StoreTransaction(metaDB, Head(pending))
        /\ pending' = Tail(pending)
  /\ UNCHANGED <<sent, mempool, results, metrics, told, chain>>

NodeAcceptedMint == AcceptedMint /\ Write
NodeAcceptedAdd  == AcceptedAdd /\ Write

-----------------------------------------------------------------------------
\* What the RPC `tx` looks up.
GetTransaction(id) == id \in DOMAIN metaDB

\* A client's WaitForTransaction asks until the transaction is found.
WaitForTransaction(id) ==
  /\ GetTransaction(id) /\ id \notin DOMAIN told
  /\ told' = Put(told, id, metaDB[id])
  /\ UNCHANGED <<vars, sent, mempool, results, pending, metrics, metaDB, chain>>

NodeFinished ==
  Finished /\ UNCHANGED <<sent, mempool, results, pending, metrics, metaDB, told, chain>>

NodeNext ==
  \/ NodeNewBlock \/ NodeAcceptBlock \/ NodeRejectBlock
  \/ block.processing /\ \E t \in Txs : SendAndExecute(t)
  \/ \E id \in DOMAIN mempool : ExecuteAgain(id)
  \/ NodeAcceptedFees \/ NodeAcceptedMint \/ NodeAcceptedAdd
  \/ \E id \in Waited : WaitForTransaction(id)
  \/ NodeFinished

NodeSpec == NodeInit /\ [][NodeNext]_node

\* The acceptor's goroutine and the clients that poll keep running.
NodeFairness ==
  /\ AcceptorRuns
  /\ \A id \in Waited : WF_node(WaitForTransaction(id))

NodeFairSpec == NodeSpec /\ NodeFairness

-----------------------------------------------------------------------------
(* Properties.                                                             *)

\* Whenever Controller.Accepted has caught up, the metrics agree with the chain
\* state it never reads: the gauges are the stakes held there, and the accounts
\* own what genesis gave them and the counted rewards, less the counted fees.
MetricsMatchLedger ==
  queue = <<>> =>
    /\ metrics.validatorStakeAmount = Staked(ledger.registered)
    /\ metrics.delegatorStakeAmount = Staked(ledger.delegated)
    /\ Wealth(ledger) + metrics.feesDistributed = GenesisSupply + metrics.mintedNAI

\* The RPC `tx` and WaitForTransaction only speak of transactions whose effects
\* ReadState already shows, with the result that consensus accepted: never the
\* result a transaction had in a block that was rejected.
IndexTruthful ==
  \A id \in DOMAIN metaDB \cup DOMAIN told :
    /\ id \in DOMAIN chain
    /\ id \in DOMAIN metaDB => metaDB[id] = chain[id]
    /\ id \in DOMAIN told => told[id] = chain[id]

\* Whoever waits for an accepted transaction is told.
WaitReturns ==
  \A id \in Waited : (id \in DOMAIN chain) ~> (id \in DOMAIN told)
=============================================================================
