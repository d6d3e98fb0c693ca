----------------------------- MODULE NodeProofs -----------------------------
(***************************************************************************)
(* Theorems about Node, for every value of the constants: it is a staking  *)
(* node, so that what is proved of Staking holds of it, its index and the  *)
(* clients that poll it only speak of what consensus accepted, and its     *)
(* metrics agree with the chain state.                                     *)
(***************************************************************************)
EXTENDS Node, StakingProofs

-----------------------------------------------------------------------------
(* Transactions as values are the transactions of Staking.                 *)

\* A transaction has the fields that its kind calls for.
LEMMA TxFields ==
  ASSUME NEW t \in Txs
  PROVE  /\ t.actor \in Addresses /\ t.nodeID \in NodeIDs
         /\ t.kind = "register" =>
              /\ t.start \in Heights /\ t.end \in Heights /\ t.amount \in StakeAmounts
              /\ t.feeRate \in FeeRates /\ t.rewardAddress \in RewardAddresses
         /\ t.kind = "delegate" =>
              /\ t.start \in Heights \ {0} /\ t.end \in Heights
              /\ t.amount \in StakeAmounts /\ t.rewardAddress \in RewardAddresses
         /\ t.kind \in {"withdraw", "undelegate"} => t.rewardAddress \in RewardAddresses
         /\ t.kind = "claimDelegation" => t.userStakeAddress \in Addresses
         /\ t.kind \in {"register", "delegate", "withdraw", "undelegate", "claimValidator",
                        "claimDelegation"}
<1>1. CASE t \in Registers
  BY <1>1 DEF Registers
<1>2. CASE t \in Delegates
  BY <1>2 DEF Delegates
<1>3. CASE t \in Payouts
  BY <1>3 DEF Payouts
<1>4. CASE t \in Claims
  BY <1>4 DEF Claims
<1> QED BY <1>1, <1>2, <1>3, <1>4 DEF Txs

\* What a transaction does is a step of Staking.
LEMMA ApplyExecutes ==
  ASSUME NEW t \in Txs, Apply(t)
  PROVE  ExecuteTx
<1>1. t.actor \in Addresses /\ t.nodeID \in NodeIDs
  BY TxFields
<1>2. CASE /\ t.kind = "register"
           /\ RegisterTx(t.actor, t.nodeID, t.start, t.end, t.amount, t.feeRate,
                         t.rewardAddress)
  BY <1>1, <1>2, TxFields DEF ExecuteTx
<1>3. CASE t.kind = "withdraw" /\ WithdrawTx(t.actor, t.nodeID, t.rewardAddress)
  BY <1>1, <1>3, TxFields DEF ExecuteTx
<1>4. CASE /\ t.kind = "delegate"
           /\ DelegateTx(t.actor, t.nodeID, t.start, t.end, t.amount, t.rewardAddress)
  BY <1>1, <1>4, TxFields DEF ExecuteTx
<1>5. CASE t.kind = "undelegate" /\ UndelegateTx(t.actor, t.nodeID, t.rewardAddress)
  BY <1>1, <1>5, TxFields DEF ExecuteTx
<1>6. CASE t.kind = "claimValidator" /\ ClaimValidatorTx(t.actor, t.nodeID)
  BY <1>1, <1>6 DEF ExecuteTx
<1>7. CASE /\ t.kind = "claimDelegation"
           /\ ClaimDelegationTx(t.actor, t.nodeID, t.userStakeAddress)
  BY <1>1, <1>7, TxFields DEF ExecuteTx
<1> QED BY <1>2, <1>3, <1>4, <1>5, <1>6, <1>7 DEF Apply

-----------------------------------------------------------------------------
(* The inductive invariant.                                                *)

\* The result of a transaction.
Passed ==
  [id : Nat, tx : Txs, Success : BOOLEAN, stake : Uint64, reward : Uint64]
Failed == [id : Nat, tx : Txs, Success : BOOLEAN]
Outcomes ==
  {r \in Passed : r.Success} \cup {r \in Failed : ~ r.Success}

\* Every block that Accepted has not finished has its results.
Lists ==
  /\ sent \in Nat
  /\ IsMap(mempool, 1 .. sent, Txs)
  /\ results \in Seq(Outcomes)
  /\ pending \in Seq(Seq(Outcomes)) /\ Len(pending) = Len(queue)

\* A transaction has one result that is not in an accepted block, or none.
Single ==
  /\ \A i \in 1 .. Len(results) :
       /\ results[i].id \in 1 .. sent
       /\ results[i].id \notin DOMAIN mempool /\ results[i].id \notin DOMAIN chain
  /\ \A i, j \in 1 .. Len(results) : results[i].id = results[j].id => i = j
  /\ DOMAIN chain \subseteq 1 .. sent
  /\ DOMAIN mempool \cap DOMAIN chain = {}

\* What is still to be indexed, what is indexed and what clients were told is
\* what was accepted.
Agrees(rs, c) == \A i \in 1 .. Len(rs) : rs[i].id \in DOMAIN c /\ rs[i].Success = c[rs[i].id]
Within(f, c)  == \A id \in DOMAIN f : id \in DOMAIN c /\ f[id] = c[id]
Truth ==
  /\ \A k \in 1 .. Len(pending) : Agrees(pending[k], chain)
  /\ Within(metaDB, chain)
  /\ Within(told, chain)

NodeInv == Typed /\ Lists /\ Single /\ Truth

-----------------------------------------------------------------------------
(* Results.                                                                *)

\* The fee goes off the balance and nothing else changes.
LEMMA ChecksSeeView ==
  ASSUME Typed, NEW t \in Txs, CanSubBalance(view.balance, t.actor, TxFee)
  PROVE  /\ FeePaid(t.actor).registered = view.registered
         /\ FeePaid(t.actor).delegated = view.delegated
         /\ FeePaid(t.actor).balance \in [Addresses -> Uint64]
  BY FeePaidType, TxFields DEF Typed

\* Stakes and rewards of transactions that pass are amounts.
LEMMA AmountTypes ==
  ASSUME Typed, NEW t \in Txs, CanSubBalance(view.balance, t.actor, TxFee), Checks(t)
  PROVE  Stake(t) \in Uint64 /\ Reward(t) \in Uint64
<1>1. /\ t.actor \in Addresses /\ t.nodeID \in NodeIDs /\ IsLedger(view) /\ IsEmission(em)
  BY TxFields DEF Typed, TypeOK
<1>2. /\ FeePaid(t.actor).registered = view.registered
      /\ FeePaid(t.actor).delegated = view.delegated
  BY ChecksSeeView
<1>3. ASSUME HasValidator(em, t.nodeID)
      PROVE  WithdrawReward(em, t.nodeID) \in Uint64
             /\ ValidatorOf(em, t.nodeID).AccumulatedDelegatedReward \in Uint64
  <2>1. IsValidator(ValidatorOf(em, t.nodeID))
    BY <1>1, <1>3, ValidatorOfType DEF HasValidator
  <2> QED BY <2>1 DEF WithdrawReward, IsValidator
<1>4. \A a : CalculateUserDelegationRewards(em, t.nodeID, a) \in Uint64
  BY WrapType DEF CalculateUserDelegationRewards
<1>5. CASE t.kind = "register"
  BY <1>5, TxFields, StakingAssumption, ZeroType DEF Stake, Reward
<1>6. CASE t.kind = "delegate"
  BY <1>6, TxFields, StakingAssumption, ZeroType DEF Stake, Reward
<1>7. CASE t.kind = "withdraw"
  <2>1. WithdrawChecks(FeePaid(t.actor), t.actor, t.nodeID)
    BY <1>7 DEF Checks
  <2>2. t.nodeID \in DOMAIN view.registered /\ HasValidator(em, t.nodeID)
    BY <1>2, <2>1 DEF WithdrawChecks
  <2>3. view.registered[t.nodeID] \in RegisterRecord
    BY <1>1, <2>2 DEF IsLedger, IsMap
  <2>4. view.registered[t.nodeID].StakedAmount \in Uint64
    BY <2>3 DEF RegisterRecord
  <2> QED BY <1>3, <1>7, <2>2, <2>4 DEF Stake, Reward
<1>8. CASE t.kind = "undelegate"
  <2> DEFINE k == <<t.nodeID, t.actor>>
  <2>1. UndelegateChecks(FeePaid(t.actor), t.actor, t.nodeID)
    BY <1>8 DEF Checks
  <2>2. k \in DOMAIN view.delegated /\ HasValidator(em, t.nodeID)
    BY <1>2, <2>1 DEF UndelegateChecks, HasDelegator
  <2>3. view.delegated[k] \in DelegateRecord
    <3> HIDE DEF k
    <3> QED BY <1>1, <2>2 DEF IsLedger, IsMap
  <2>4. view.delegated[k].StakedAmount \in Uint64
    BY <2>3 DEF DelegateRecord
  <2>5. UndelegateReward(em, t.nodeID, t.actor) \in Uint64
    BY <1>3, <1>4, <2>2 DEF UndelegateReward
  <2>6. Stake(t) = view.delegated[k].StakedAmount
    BY <1>8 DEF Stake
  <2>7. Reward(t) = UndelegateReward(em, t.nodeID, t.actor)
    BY <1>8 DEF Reward
  <2> QED BY <2>4, <2>5, <2>6, <2>7
<1>9. CASE t.kind = "claimValidator"
  <2>1. ClaimValidatorChecks(FeePaid(t.actor), t.actor, t.nodeID)
    BY <1>9 DEF Checks
  <2>2. HasValidator(em, t.nodeID)
    BY <2>1 DEF ClaimValidatorChecks
  <2> QED BY <1>3, <1>9, <2>2, ZeroType DEF Stake, Reward
<1>10. CASE t.kind = "claimDelegation"
  BY <1>4, <1>10, ZeroType DEF Stake, Reward
<1> QED BY <1>5, <1>6, <1>7, <1>8, <1>9, <1>10, TxFields

\* A transaction has a result.
LEMMA ResultType ==
  ASSUME Typed, NEW t \in Txs, NEW id \in Nat,
         CanSubBalance(view.balance, t.actor, TxFee)
  PROVE  Result(id, t) \in Outcomes /\ Result(id, t).id = id
<1>1. CASE Checks(t) /\ Pays(t)
  <2> DEFINE x == Stake(t)
             y == Reward(t)
  <2>1. x \in Uint64 /\ y \in Uint64
    BY <1>1, AmountTypes
  <2>2. Result(id, t) = [id |-> id, tx |-> t, Success |-> TRUE, stake |-> x, reward |-> y]
    BY <1>1 DEF Result
  <2> HIDE DEF x, y
  <2>3. Result(id, t) \in Passed /\ Result(id, t).Success /\ Result(id, t).id = id
    BY <2>1, <2>2 DEF Passed
  <2> QED BY <2>3 DEF Outcomes
<1>2. CASE ~ (Checks(t) /\ Pays(t))
  <2>1. Result(id, t) = [id |-> id, tx |-> t, Success |-> FALSE]
    BY <1>2 DEF Result
  <2>2. Result(id, t) \in Failed /\ ~ Result(id, t).Success /\ Result(id, t).id = id
    BY <2>1 DEF Failed
  <2> QED BY <2>2 DEF Outcomes
<1> QED BY <1>1, <1>2

-----------------------------------------------------------------------------
(* The index of transactions.                                              *)

\* Where the result of each transaction is found.
LEMMA IndexedIs ==
  ASSUME NEW rs \in Seq(Outcomes)
  PROVE  /\ DOMAIN Indexed(rs) = {rs[i].id : i \in 1 .. Len(rs)}
         /\ \A id \in DOMAIN Indexed(rs) :
              Indexed(rs)[id] \in 1 .. Len(rs) /\ rs[Indexed(rs)[id]].id = id
<1>1. DOMAIN rs = 1 .. Len(rs)
  OBVIOUS
<1>2. /\ DOMAIN Indexed(rs) = {rs[i].id : i \in 1 .. Len(rs)}
      /\ \A id \in DOMAIN Indexed(rs) :
           Indexed(rs)[id] = CHOOSE i \in 1 .. Len(rs) : rs[i].id = id
  BY <1>1 DEF Indexed
<1>3. ASSUME NEW id \in DOMAIN Indexed(rs)
      PROVE  Indexed(rs)[id] \in 1 .. Len(rs) /\ rs[Indexed(rs)[id]].id = id
  <2>1. \E i \in 1 .. Len(rs) : rs[i].id = id
    BY <1>2, <1>3
  <2> QED BY <1>2, <1>3, <2>1
<1> QED BY <1>2, <1>3

\* Results that agree with the chain keep the index in agreement with it.
LEMMA StoredWithin ==
  ASSUME NEW db, NEW c, NEW rs \in Seq(Outcomes), Within(db, c), Agrees(rs, c)
  PROVE  Within(StoreTransaction(db, rs), c)
<1> SUFFICES ASSUME NEW id \in DOMAIN StoreTransaction(db, rs)
             PROVE  id \in DOMAIN c /\ StoreTransaction(db, rs)[id] = c[id]
  BY DEF Within
<1>1. id \in DOMAIN db \cup DOMAIN Indexed(rs)
  BY DEF StoreTransaction
<1>2. CASE id \in DOMAIN Indexed(rs)
  <2>1. Indexed(rs)[id] \in 1 .. Len(rs) /\ rs[Indexed(rs)[id]].id = id
    BY <1>2, IndexedIs
  <2>2. StoreTransaction(db, rs)[id] = rs[Indexed(rs)[id]].Success
    BY <1>2 DEF StoreTransaction
  <2> QED BY <2>1, <2>2 DEF Agrees
<1>3. CASE id \notin DOMAIN Indexed(rs)
  <2>1. id \in DOMAIN db /\ StoreTransaction(db, rs)[id] = db[id]
    BY <1>1, <1>3 DEF StoreTransaction
  <2> QED BY <2>1 DEF Within
<1> QED BY <1>2, <1>3

\* A block of transactions that the chain does not have yet joins it.
LEMMA StoredJoins ==
  ASSUME NEW c, NEW rs \in Seq(Outcomes),
         \A i \in 1 .. Len(rs) : rs[i].id \notin DOMAIN c,
         \A i, j \in 1 .. Len(rs) : rs[i].id = rs[j].id => i = j
  PROVE  /\ Agrees(rs, StoreTransaction(c, rs)) /\ Within(c, StoreTransaction(c, rs))
         /\ DOMAIN StoreTransaction(c, rs) = DOMAIN c \cup {rs[i].id : i \in 1 .. Len(rs)}
<1>1. /\ DOMAIN Indexed(rs) = {rs[i].id : i \in 1 .. Len(rs)}
      /\ \A id \in DOMAIN Indexed(rs) :
           Indexed(rs)[id] \in 1 .. Len(rs) /\ rs[Indexed(rs)[id]].id = id
  BY IndexedIs
<1>2. DOMAIN StoreTransaction(c, rs) = DOMAIN c \cup {rs[i].id : i \in 1 .. Len(rs)}
  BY <1>1 DEF StoreTransaction
<1>3. ASSUME NEW i \in 1 .. Len(rs)
      PROVE  /\ rs[i].id \in DOMAIN StoreTransaction(c, rs)
             /\ rs[i].Success = StoreTransaction(c, rs)[rs[i].id]
  <2>1. rs[i].id \in DOMAIN Indexed(rs)
    BY <1>1
  <2>2. Indexed(rs)[rs[i].id] = i
    BY <1>1, <2>1
  <2>3. StoreTransaction(c, rs)[rs[i].id] = rs[Indexed(rs)[rs[i].id]].Success
    BY <2>1 DEF StoreTransaction
  <2> QED BY <1>2, <2>2, <2>3
<1>4. ASSUME NEW id \in DOMAIN c
      PROVE  id \in DOMAIN StoreTransaction(c, rs) /\ c[id] = StoreTransaction(c, rs)[id]
  <2>1. id \notin DOMAIN Indexed(rs)
    BY <1>1
  <2>2. StoreTransaction(c, rs)[id] = c[id]
    BY <2>1 DEF StoreTransaction
  <2> QED BY <1>2, <2>2
<1> QED BY <1>2, <1>3, <1>4 DEF Agrees, Within

\* What agrees with the chain agrees with a longer one.
LEMMA TruthGrows ==
  ASSUME NEW c, NEW d, Within(c, d)
  PROVE  /\ \A rs : Agrees(rs, c) => Agrees(rs, d)
         /\ \A f : Within(f, c) => Within(f, d)
  BY DEF Agrees, Within

-----------------------------------------------------------------------------
(* Every step is a step of Staking and keeps the invariant.                *)

\* Whoever executes a transaction can pay its fee.
LEMMA ApplyBegins ==
  ASSUME NEW t, Apply(t)
  PROVE  BeginTx(t.actor) /\ CanSubBalance(view.balance, t.actor, TxFee)
<1>1. BeginTx(t.actor)
  BY DEF Apply, RegisterTx, WithdrawTx, DelegateTx, UndelegateTx, ClaimValidatorTx,
         ClaimDelegationTx
<1> QED BY <1>1 DEF BeginTx

\* The parts of the invariant about the results, while a block is executed.
LEMMA AnotherResult ==
  ASSUME NodeInv, NEW r \in Outcomes, results' = Append(results, r),
         r.id \in 1 .. sent', r.id \notin DOMAIN mempool', r.id \notin DOMAIN chain,
         \A i \in 1 .. Len(results) : results[i].id # r.id,
         sent' \in Nat, sent <= sent', DOMAIN mempool' \subseteq DOMAIN mempool,
         IsMap(mempool', 1 .. sent', Txs),
         queue' = queue, pending' = pending, metaDB' = metaDB, told' = told, chain' = chain
  PROVE  Lists' /\ Single' /\ Truth'
<1>1. results \in Seq(Outcomes) /\ sent \in Nat
  BY DEF NodeInv, Lists
<1>2. /\ results' \in Seq(Outcomes) /\ Len(results') = Len(results) + 1
      /\ Len(results) \in Nat
      /\ \A i \in 1 .. Len(results) : results'[i] = results[i]
      /\ results'[Len(results) + 1] = r
  BY <1>1
<1>3. Lists'
  BY <1>2 DEF NodeInv, Lists
<1>4. \A i \in 1 .. Len(results') : i \in 1 .. Len(results) \/ i = Len(results) + 1
  BY <1>2
<1>5. \A i \in 1 .. Len(results) :
        /\ results[i].id \in 1 .. sent
        /\ results[i].id \notin DOMAIN mempool /\ results[i].id \notin DOMAIN chain
  BY DEF NodeInv, Single
<1>6. 1 .. sent \subseteq 1 .. sent'
  BY <1>1
<1>7. \A i \in 1 .. Len(results') :
        /\ results'[i].id \in 1 .. sent'
        /\ results'[i].id \notin DOMAIN mempool' /\ results'[i].id \notin DOMAIN chain
  BY <1>2, <1>4, <1>5, <1>6
<1>8. \A i, j \in 1 .. Len(results') : results'[i].id = results'[j].id => i = j
  <2>1. \A i, j \in 1 .. Len(results) : results[i].id = results[j].id => i = j
    BY DEF NodeInv, Single
  <2> QED BY <1>2, <1>4, <2>1
<1>9. Single'
  BY <1>6, <1>7, <1>8 DEF NodeInv, Single
<1>10. Truth'
  BY DEF NodeInv, Truth
<1> QED BY <1>3, <1>9, <1>10

\* A client's transaction is executed in the processing block.
LEMMA SendKeeps ==
  ASSUME NodeInv, NEW t \in Txs, SendAndExecute(t)
  PROVE  ExecuteTx /\ Lists' /\ Single' /\ Truth'
<1>1. /\ Apply(t) /\ sent' = sent + 1 /\ results' = Append(results, Result(sent', t))
      /\ mempool' = mempool /\ pending' = pending /\ metaDB' = metaDB
      /\ told' = told /\ chain' = chain
  BY DEF SendAndExecute
<1>2. ExecuteTx /\ queue' = queue
  BY <1>1, ApplyExecutes, ApplyBegins DEF BeginTx
<1>3. sent \in Nat /\ Typed /\ IsMap(mempool, 1 .. sent, Txs)
  BY DEF NodeInv, Lists
<1>4. Result(sent', t) \in Outcomes /\ Result(sent', t).id = sent + 1
  BY <1>1, <1>3, ApplyBegins, ResultType
<1>5. sent' \in Nat /\ sent <= sent' /\ sent + 1 \in 1 .. sent' /\ sent + 1 \notin 1 .. sent
      /\ 1 .. sent \subseteq 1 .. sent'
  BY <1>1, <1>3
<1>6. IsMap(mempool', 1 .. sent', Txs) /\ sent + 1 \notin DOMAIN mempool
  BY <1>1, <1>3, <1>5 DEF IsMap
<1>7. sent + 1 \notin DOMAIN chain /\ \A i \in 1 .. Len(results) : results[i].id # sent + 1
  BY <1>5 DEF NodeInv, Single
<1> DEFINE r == Result(sent', t)
<1>8. r \in Outcomes /\ r.id = sent + 1 /\ results' = Append(results, r)
  BY <1>1, <1>4
<1> HIDE DEF r
<1> QED BY <1>1, <1>2, <1>5, <1>6, <1>7, <1>8, AnotherResult

\* One whose block was rejected is executed again.
LEMMA AgainKeeps ==
  ASSUME NodeInv, NEW id \in DOMAIN mempool, ExecuteAgain(id)
  PROVE  ExecuteTx /\ Lists' /\ Single' /\ Truth'
<1>1. /\ Apply(mempool[id]) /\ results' = Append(results, Result(id, mempool[id]))
      /\ mempool' = Delete(mempool, id)
      /\ sent' = sent /\ pending' = pending /\ metaDB' = metaDB
      /\ told' = told /\ chain' = chain
  BY DEF ExecuteAgain
<1>2. sent \in Nat /\ Typed /\ IsMap(mempool, 1 .. sent, Txs)
  BY DEF NodeInv, Lists
<1>3. mempool[id] \in Txs /\ id \in 1 .. sent /\ id \in Nat
  BY <1>2 DEF IsMap
<1>4. ExecuteTx /\ queue' = queue
  BY <1>1, <1>3, ApplyExecutes, ApplyBegins DEF BeginTx
<1> DEFINE r == Result(id, mempool[id])
<1>5. r \in Outcomes /\ r.id = id /\ results' = Append(results, r)
  BY <1>1, <1>2, <1>3, ApplyBegins, ResultType
<1>6. IsMap(mempool', 1 .. sent', Txs) /\ DOMAIN mempool' = DOMAIN mempool \ {id}
  BY <1>1, <1>2 DEF IsMap, Delete
<1>7. id \notin DOMAIN chain /\ \A i \in 1 .. Len(results) : results[i].id # id
  BY DEF NodeInv, Single
<1> HIDE DEF r
<1> QED BY <1>1, <1>2, <1>3, <1>4, <1>5, <1>6, <1>7, AnotherResult

\* The block is accepted: its transactions join the chain.
LEMMA AcceptKeeps ==
  ASSUME NodeInv, NodeAcceptBlock
  PROVE  Lists' /\ Single' /\ Truth'
<1>1. /\ queue' = Append(queue, block.fees) /\ pending' = Append(pending, results)
      /\ chain' = StoreTransaction(chain, results) /\ results' = <<>>
      /\ sent' = sent /\ mempool' = mempool /\ metaDB' = metaDB /\ told' = told
  BY DEF NodeAcceptBlock, AcceptBlock
<1>2. /\ results \in Seq(Outcomes) /\ pending \in Seq(Seq(Outcomes))
      /\ Len(pending) = Len(queue) /\ queue \in Seq(Uint64)
  BY DEF NodeInv, Lists, Typed, TypeOK
<1>3. /\ pending' \in Seq(Seq(Outcomes)) /\ Len(pending') = Len(pending) + 1
      /\ \A k \in 1 .. Len(pending) : pending'[k] = pending[k]
      /\ pending'[Len(pending) + 1] = results
      /\ Len(queue') = Len(queue) + 1 /\ Len(pending) \in Nat
  BY <1>1, <1>2
<1>4. /\ <<>> \in Seq(Outcomes) /\ Len(<<>>) = 0
  OBVIOUS
<1>5. Lists'
  BY <1>1, <1>2, <1>3, <1>4 DEF NodeInv, Lists
<1>6. /\ Agrees(results, chain') /\ Within(chain, chain')
      /\ DOMAIN chain' = DOMAIN chain \cup {results[i].id : i \in 1 .. Len(results)}
  BY <1>1, <1>2, StoredJoins DEF NodeInv, Single
<1>7. Single'
  <2>1. 1 .. Len(results') = {}
    BY <1>1, <1>4
  <2>2. DOMAIN chain' \subseteq 1 .. sent /\ DOMAIN mempool \cap DOMAIN chain' = {}
    BY <1>6 DEF NodeInv, Single
  <2> QED BY <1>1, <2>1, <2>2 DEF Single
<1>8. Truth'
  <2>1. Within(metaDB, chain') /\ Within(told, chain')
    BY <1>6, TruthGrows DEF NodeInv, Truth
  <2>2. \A k \in 1 .. Len(pending) : Agrees(pending[k], chain')
    BY <1>6, TruthGrows DEF NodeInv, Truth
  <2>3. \A k \in 1 .. Len(pending') : k \in 1 .. Len(pending) \/ k = Len(pending) + 1
    BY <1>3
  <2>4. \A k \in 1 .. Len(pending') : Agrees(pending'[k], chain')
    BY <1>3, <1>6, <2>2, <2>3
  <2> QED BY <1>1, <2>1, <2>4 DEF Truth
<1> QED BY <1>5, <1>7, <1>8

\* The block is rejected: its transactions go back to the mempool.
LEMMA RejectKeeps ==
  ASSUME NodeInv, NodeRejectBlock
  PROVE  Lists' /\ Single' /\ Truth'
<1> DEFINE at == Indexed(results)
<1>1. /\ queue' = queue /\ pending' = pending /\ results' = <<>>
      /\ mempool' = [id \in DOMAIN mempool \cup DOMAIN at |->
                       IF id \in DOMAIN at THEN results[at[id]].tx ELSE mempool[id]]
      /\ sent' = sent /\ chain' = chain /\ metaDB' = metaDB /\ told' = told
  BY DEF NodeRejectBlock, RejectBlock
<1>2. /\ results \in Seq(Outcomes) /\ IsMap(mempool, 1 .. sent, Txs)
  BY DEF NodeInv, Lists
<1>3. /\ DOMAIN at = {results[i].id : i \in 1 .. Len(results)}
      /\ \A id \in DOMAIN at : at[id] \in 1 .. Len(results)
  BY <1>2, IndexedIs
<1>4. \A i \in 1 .. Len(results) :
        results[i].id \in 1 .. sent /\ results[i].id \notin DOMAIN chain
  BY DEF NodeInv, Single
<1>5. \A i \in 1 .. Len(results) : results[i].tx \in Txs
  BY <1>2 DEF Outcomes, Passed, Failed
<1> HIDE DEF at
<1>6. DOMAIN mempool' = DOMAIN mempool \cup DOMAIN at
  BY <1>1
<1>7. IsMap(mempool', 1 .. sent, Txs)
  <2>1. DOMAIN mempool' \subseteq 1 .. sent
    BY <1>2, <1>3, <1>4, <1>6 DEF IsMap
  <2>2. \A id \in DOMAIN at : results[at[id]].tx \in Txs
    BY <1>3, <1>5
  <2>3. \A id \in DOMAIN mempool : mempool[id] \in Txs
    BY <1>2 DEF IsMap
  <2>4. mempool' \in [DOMAIN mempool' -> Txs]
    BY <1>1, <2>2, <2>3
  <2> QED BY <2>1, <2>4 DEF IsMap
<1>8. <<>> \in Seq(Outcomes) /\ 1 .. Len(<<>>) = {}
  OBVIOUS
<1>9. Lists'
  BY <1>1, <1>7, <1>8 DEF NodeInv, Lists
<1>10. Single'
  BY <1>1, <1>3, <1>4, <1>6, <1>8 DEF NodeInv, Single
<1>11. Truth'
  BY <1>1 DEF NodeInv, Truth
<1> QED BY <1>9, <1>10, <1>11

\* Accepted goes on with the block, or is done with it and writes the index.
LEMMA WriteKeeps ==
  ASSUME NodeInv, Write, queue' = queue \/ (queue # <<>> /\ queue' = Tail(queue))
  PROVE  Lists' /\ Single' /\ Truth'
<1>1. /\ sent' = sent /\ mempool' = mempool /\ results' = results /\ told' = told
      /\ chain' = chain
  BY DEF Write
<1>2. /\ pending \in Seq(Seq(Outcomes)) /\ Len(pending) = Len(queue)
      /\ queue \in Seq(Uint64)
  BY DEF NodeInv, Lists, Typed, TypeOK
<1>3. CASE queue' = queue
  <2>1. metaDB' = metaDB /\ pending' = pending
    BY <1>3 DEF Write
  <2> QED BY <1>1, <1>3, <2>1 DEF NodeInv, Lists, Single, Truth
<1>4. CASE queue' # queue
  <2>1. /\ metaDB' = StoreTransaction(metaDB, Head(pending)) /\ pending' = Tail(pending)
        /\ queue # <<>> /\ queue' = Tail(queue)
    BY <1>4 DEF Write
  <2>2. /\ pending # <<>> /\ 1 \in 1 .. Len(pending) /\ Head(pending) = pending[1]
        /\ pending' \in Seq(Seq(Outcomes))
        /\ \A k \in 1 .. Len(pending') :
             pending'[k] = pending[k + 1] /\ k + 1 \in 1 .. Len(pending)
        /\ Len(pending') = Len(queue')
    BY <1>2, <2>1
  <2>3. Lists'
    BY <1>1, <2>2 DEF NodeInv, Lists
  <2>4. Single'
    BY <1>1 DEF NodeInv, Single
  <2>5. Agrees(Head(pending), chain) /\ Within(metaDB, chain) /\ Head(pending) \in Seq(Outcomes)
    BY <1>2, <2>2 DEF NodeInv, Truth
  <2>6. Within(metaDB', chain)
    BY <2>1, <2>5, StoredWithin
  <2>7. Truth'
    BY <1>1, <2>2, <2>6 DEF NodeInv, Truth
  <2> QED BY <2>3, <2>4, <2>7
<1> QED BY <1>3, <1>4

\* A client is told what the index says.
LEMMA WaitKeeps ==
  ASSUME NodeInv, NEW id, WaitForTransaction(id)
  PROVE  Lists' /\ Single' /\ Truth' /\ vars' = vars
<1>1. /\ id \in DOMAIN metaDB /\ told' = Put(told, id, metaDB[id]) /\ vars' = vars
      /\ sent' = sent /\ mempool' = mempool /\ results' = results /\ pending' = pending
      /\ metaDB' = metaDB /\ chain' = chain
  BY DEF WaitForTransaction, GetTransaction, vars
<1>2. queue' = queue
  BY <1>1 DEF vars
<1>3. Within(told', chain)
  BY <1>1 DEF NodeInv, Truth, Within, Put
<1> QED BY <1>1, <1>2, <1>3 DEF NodeInv, Lists, Single, Truth

\* Every step of the node is one of Staking, or leaves its variables alone.
LEMMA NodeStep ==
  ASSUME NodeInv, [NodeNext]_node
  PROVE  [Next]_vars /\ Lists' /\ Single' /\ Truth'
<1>1. CASE NodeNewBlock \/ NodeFinished \/ UNCHANGED node \/ NodeAcceptedFees
  <2>1. /\ sent' = sent /\ mempool' = mempool /\ results' = results /\ pending' = pending
        /\ metaDB' = metaDB /\ told' = told /\ chain' = chain
    BY <1>1 DEF NodeNewBlock, NodeFinished, node, NodeAcceptedFees
  <2>2. queue' = queue
    BY <1>1 DEF NodeNewBlock, NewBlock, NodeFinished, Finished, node, vars,
                NodeAcceptedFees, AcceptedFees
  <2>3. [Next]_vars
    BY <1>1 DEF NodeNewBlock, NodeFinished, node, NodeAcceptedFees, Next, Accepted
  <2> QED BY <2>1, <2>2, <2>3 DEF NodeInv, Lists, Single, Truth
<1>2. CASE \E t \in Txs : SendAndExecute(t)
  BY <1>2, SendKeeps DEF Next
<1>3. CASE \E id \in DOMAIN mempool : ExecuteAgain(id)
  BY <1>3, AgainKeeps DEF Next
<1>4. CASE NodeAcceptBlock
  BY <1>4, AcceptKeeps DEF Next, NodeAcceptBlock
<1>5. CASE NodeRejectBlock
  BY <1>5, RejectKeeps DEF Next, NodeRejectBlock
<1>6. CASE NodeAcceptedMint
  <2>1. queue' = queue \/ (queue # <<>> /\ queue' = Tail(queue))
    BY <1>6 DEF NodeAcceptedMint, AcceptedMint
  <2> QED BY <1>6, <2>1, WriteKeeps DEF NodeAcceptedMint, Next, Accepted
<1>7. CASE NodeAcceptedAdd
  <2>1. queue # <<>> /\ queue' = Tail(queue)
    BY <1>7 DEF NodeAcceptedAdd, AcceptedAdd
  <2> QED BY <1>7, <2>1, WriteKeeps DEF NodeAcceptedAdd, Next, Accepted
<1>8. CASE \E id \in Waited : WaitForTransaction(id)
  BY <1>8, WaitKeeps
<1> QED BY <1>1, <1>2, <1>3, <1>4, <1>5, <1>6, <1>7, <1>8 DEF NodeNext

\* Before anything is sent.
LEMMA NodeInvInit == NodeInit => NodeInv
<1> SUFFICES ASSUME NodeInit PROVE NodeInv
  OBVIOUS
<1>1. /\ Init /\ sent = 0 /\ mempool = EmptyMap /\ results = <<>> /\ pending = <<>>
      /\ metaDB = EmptyMap /\ told = EmptyMap /\ chain = EmptyMap /\ queue = <<>>
  BY DEF NodeInit, Init
<1>2. DOMAIN EmptyMap = {} /\ IsMap(EmptyMap, 1 .. 0, Txs)
  BY EmptyMapType DEF EmptyMap
<1>3. Typed
  BY <1>1, InitTyped
<1>4. Lists
  BY <1>1, <1>2 DEF Lists
<1>5. Single
  BY <1>1, <1>2 DEF Single
<1>6. Truth
  BY <1>1, <1>2 DEF Truth, Within
<1> QED BY <1>3, <1>4, <1>5, <1>6 DEF NodeInv

\* The inductive invariant of the node.
THEOREM NodeInvHolds == NodeSpec => []NodeInv
<1>1. NodeInv /\ [NodeNext]_node => NodeInv'
  BY NodeStep, NextTyped DEF NodeInv
<1> QED BY <1>1, NodeInvInit, PTL DEF NodeSpec

\* A node that counts, indexes and executes again what was rejected is a node
\* of module Staking: all that is proved of Staking's Spec holds of it.
THEOREM NodeImplementsStaking == NodeSpec => Spec
<1>1. NodeInit => Init
  BY DEF NodeInit
<1>2. NodeInv /\ [NodeNext]_node => [Next]_vars
  BY NodeStep
<1> QED BY <1>1, <1>2, NodeInvHolds, PTL DEF NodeSpec, Spec

\* The index and the clients only speak of accepted transactions, with the
\* result they have on the chain.
THEOREM IndexIsTruthful == NodeSpec => []IndexTruthful
<1>1. NodeInv => IndexTruthful
  BY DEF NodeInv, Truth, Within, IndexTruthful
<1> QED BY <1>1, NodeInvHolds, PTL


-----------------------------------------------------------------------------
(* What the results of a block add up to.                                  *)

\* What one result adds to a total.
Due(r, kinds, f) == IF r.Success /\ r.tx.kind \in kinds THEN r[f] ELSE 0

\* Successful results have the amounts that the totals add up.
LEMMA DueInt ==
  ASSUME NEW r \in Outcomes, NEW kinds, NEW f \in {"stake", "reward"}
  PROVE  /\ Due(r, kinds, f) \in Int
         /\ r.Success => r[f] \in Int
<1>1. ASSUME r.Success PROVE r[f] \in Int
  <2>1. r \in Passed
    BY <1>1 DEF Outcomes
  <2>2. r["stake"] \in Uint64 /\ r["reward"] \in Uint64
    BY <2>1 DEF Passed
  <2> QED BY <2>2, EmissionAssumption DEF Uint64
<1> QED BY <1>1 DEF Due

\* Any selection of a sequence's indices is finite.
LEMMA IndicesFinite ==
  ASSUME NEW len \in Nat, NEW S, S \subseteq 1 .. len
  PROVE  IsFiniteSet(S)
<1>1. 1 \in Int /\ len \in Int
  OBVIOUS
<1>2. IsFiniteSet(1 .. len)
  BY <1>1, FS_Interval
<1> QED BY <1>2, FS_Subset

\* A total is an integer.
LEMMA TotalInt ==
  ASSUME NEW rs \in Seq(Outcomes), NEW kinds, NEW f \in {"stake", "reward"}
  PROVE  Total(rs, kinds, f) \in Int
<1> DEFINE S == {i \in 1 .. Len(rs) : rs[i].Success /\ rs[i].tx.kind \in kinds}
           g == [i \in S |-> rs[i][f]]
<1>1. /\ Len(rs) \in Nat /\ DOMAIN rs = 1 .. Len(rs)
      /\ \A i \in 1 .. Len(rs) : rs[i] \in Outcomes
  OBVIOUS
<1>2. Total(rs, kinds, f) = SumFunctionOnSet(g, S)
  BY <1>1 DEF Total
<1>3. IsFiniteSet(S)
  <2>1. S \subseteq 1 .. Len(rs)
    OBVIOUS
  <2>2. Len(rs) \in Nat
    BY <1>1
  <2> HIDE DEF S
  <2> QED BY <2>1, <2>2, IndicesFinite
<1>4. \A i \in S : g[i] \in Int
  BY <1>1, DueInt
<1> HIDE DEF S, g
<1> QED BY <1>2, <1>3, <1>4, SumInt

\* A total grows by what the next result adds.
LEMMA TotalAppend ==
  ASSUME NEW rs \in Seq(Outcomes), NEW r \in Outcomes, NEW kinds,
         NEW f \in {"stake", "reward"}
  PROVE  Total(Append(rs, r), kinds, f) = Total(rs, kinds, f) + Due(r, kinds, f)
<1> DEFINE n == Len(rs) + 1
           q == Append(rs, r)
           S == {i \in 1 .. Len(rs) : rs[i].Success /\ rs[i].tx.kind \in kinds}
           T == {i \in 1 .. n : q[i].Success /\ q[i].tx.kind \in kinds}
           g == [i \in S |-> rs[i][f]]
           h == [i \in T |-> q[i][f]]
<1>1. /\ Len(rs) \in Nat /\ DOMAIN rs = 1 .. Len(rs) /\ DOMAIN q = 1 .. n
      /\ q[n] = r /\ \A i \in 1 .. Len(rs) : q[i] = rs[i] /\ rs[i] \in Outcomes
  OBVIOUS
<1>2. Total(rs, kinds, f) = SumFunctionOnSet(g, S)
  BY <1>1 DEF Total
<1>3. Total(q, kinds, f) = SumFunctionOnSet(h, T)
  BY <1>1 DEF Total
<1> HIDE DEF q
<1>4. IsFiniteSet(S)
  <2>1. S \subseteq 1 .. Len(rs)
    OBVIOUS
  <2>2. Len(rs) \in Nat
    BY <1>1
  <2> HIDE DEF S
  <2> QED BY <2>1, <2>2, IndicesFinite
<1>5. \A i \in S : g[i] \in Int /\ i \in 1 .. Len(rs)
  BY <1>1, DueInt
<1>6. SumFunctionOnSet(g, S) \in Int
  BY <1>4, <1>5, SumInt
<1>7. 1 .. n = (1 .. Len(rs)) \cup {n} /\ n \notin 1 .. Len(rs)
  BY <1>1
<1>8. CASE r.Success /\ r.tx.kind \in kinds
  <2>1. T = S \cup {n}
    BY <1>1, <1>7, <1>8
  <2>2. n \notin S
    BY <1>7
  <2>3. /\ \A i \in S : h[i] = g[i]
        /\ h[n] = r[f] /\ h[n] \in Int
    BY <1>1, <1>5, <1>8, <2>1, DueInt
  <2>4. Due(r, kinds, f) = h[n]
    BY <1>8, <2>3 DEF Due
  <2> HIDE DEF S, T, g, h, n
  <2>5. SumFunctionOnSet(h, S \cup {n}) = SumFunctionOnSet(h, S) + h[n]
    BY <1>4, <1>5, <2>2, <2>3, SumAdd
  <2>6. SumFunctionOnSet(h, S) = SumFunctionOnSet(g, S)
    BY <1>4, <2>3, SumSame
  <2> QED BY <1>2, <1>3, <1>6, <2>1, <2>4, <2>5, <2>6 DEF q
<1>9. CASE ~ (r.Success /\ r.tx.kind \in kinds)
  <2>1. T = S
    BY <1>1, <1>7, <1>9
  <2>2. \A i \in S : h[i] = g[i]
    BY <1>1, <1>5, <2>1
  <2>3. Due(r, kinds, f) = 0
    BY <1>9 DEF Due
  <2> HIDE DEF S, T, g, h, n
  <2>4. SumFunctionOnSet(h, S) = SumFunctionOnSet(g, S)
    BY <1>4, <2>2, SumSame
  <2> QED BY <1>2, <1>3, <1>6, <2>1, <2>3, <2>4 DEF q
<1> QED BY <1>2, <1>6, <1>8, <1>9

\* No results, no total.
LEMMA TotalEmpty ==
  ASSUME NEW kinds, NEW f
  PROVE  Total(<<>>, kinds, f) = 0
<1>1. {i \in DOMAIN <<>> : <<>>[i].Success /\ <<>>[i].tx.kind \in kinds} = {}
  OBVIOUS
<1> QED BY <1>1, SumEmpty DEF Total


-----------------------------------------------------------------------------
(* What a transaction moves is what its result says.                       *)

\* What a result adds to the stakes of validators and of delegators and to the
\* rewards paid.
RewardKinds == {"claimValidator", "withdraw", "claimDelegation", "undelegate"}
Reported(r) ==
  Moves(Due(r, {"register"}, "stake") - Due(r, {"withdraw"}, "stake"),
        Due(r, {"delegate"}, "stake") - Due(r, {"undelegate"}, "stake"),
        Due(r, RewardKinds, "reward"))

\* A failed transaction reports nothing and moves nothing but the fee.
LEMMA FailedReports ==
  ASSUME NEW t, NEW id, ~ (Checks(t) /\ Pays(t)), Moves(0, 0, 0)
  PROVE  Reported(Result(id, t))
<1> DEFINE r == Result(id, t)
<1>1. r.Success = FALSE
  BY DEF Result
<1> HIDE DEF r
<1>2. \A kinds, f : Due(r, kinds, f) = 0
  BY <1>1 DEF Due
<1> DEFINE d == 0 - 0
<1>3. d = 0
  OBVIOUS
<1> HIDE DEF d
<1>4. Moves(d, d, 0)
  BY <1>3
<1> QED BY <1>2, <1>4 DEF Reported, r, d

\* A successful one reports its stake and its reward.
LEMMA PassedReports ==
  ASSUME NEW t, NEW id, Checks(t), Pays(t), NEW reg, NEW del, NEW gain, Moves(reg, del, gain),
         LET due(kinds, x) == IF t.kind \in kinds THEN x ELSE 0
         IN /\ reg = due({"register"}, Stake(t)) - due({"withdraw"}, Stake(t))
            /\ del = due({"delegate"}, Stake(t)) - due({"undelegate"}, Stake(t))
            /\ gain = due(RewardKinds, Reward(t))
  PROVE  Reported(Result(id, t))
<1> DEFINE r == Result(id, t)
           due(kinds, x) == IF t.kind \in kinds THEN x ELSE 0
           x == Stake(t)
           y == Reward(t)
<1>1. r = [id |-> id, tx |-> t, Success |-> TRUE, stake |-> x, reward |-> y]
  BY DEF Result
<1> HIDE DEF r, x, y
<1>2. r.Success = TRUE /\ r.tx = t /\ r["stake"] = x /\ r["reward"] = y
  BY <1>1
<1>3. \A kinds : Due(r, kinds, "stake") = due(kinds, x) /\ Due(r, kinds, "reward") = due(kinds, y)
  BY <1>2 DEF Due
<1>4. /\ reg = Due(r, {"register"}, "stake") - Due(r, {"withdraw"}, "stake")
      /\ del = Due(r, {"delegate"}, "stake") - Due(r, {"undelegate"}, "stake")
      /\ gain = Due(r, RewardKinds, "reward")
  BY <1>3 DEF x, y
<1> QED BY <1>4 DEF Reported, r


\* A registration or a delegation reports the stake it puts in.
LEMMA StakeReports ==
  ASSUME TypeOK, NEW t \in Txs, NEW id, t.kind \in {"register", "delegate"}, Apply(t)
  PROVE  Reported(Result(id, t))
<1> DEFINE v == FeePaid(t.actor)
           ok == CanSubBalance(v.balance, t.actor, t.amount)
<1>1. t.actor \in Addresses /\ t.nodeID \in NodeIDs /\ BeginTx(t.actor)
  BY TxFields, ApplyBegins
<1>2. Stake(t) = t.amount /\ Reward(t) = 0 /\ (Pays(t) <=> ok) /\ t.amount \in Int
  BY TxFields, StakingAssumption, EmissionAssumption DEF Stake, Reward, Pays, Uint64
<1>3. ASSUME ~ Checks(t), Refuse(t.actor)
      PROVE  Reported(Result(id, t))
  <2>1. Moves(0, 0, 0)
    BY <1>1, <1>3, OnlyFee DEF Refuse
  <2> QED BY <1>3, <2>1, FailedReports
<1>4. CASE t.kind = "register"
  <2>1. /\ t.start \in Heights /\ t.end \in Heights /\ t.amount \in StakeAmounts
        /\ t.feeRate \in FeeRates /\ t.rewardAddress \in RewardAddresses
    BY <1>4, TxFields
  <2>2. Checks(t) <=> RegisterChecks(v, t.actor, t.nodeID, t.start, t.end, t.amount, t.feeRate)
    BY <1>4 DEF Checks
  <2>3. \/ ExecuteRegister(t.actor, t.nodeID, t.start, t.end, t.amount, t.feeRate,
                           t.rewardAddress)
        \/ ~ Checks(t) /\ Refuse(t.actor)
    BY <1>4, <2>2 DEF Apply, RegisterTx
  <2>4. ASSUME ExecuteRegister(t.actor, t.nodeID, t.start, t.end, t.amount, t.feeRate,
                               t.rewardAddress)
        PROVE  Reported(Result(id, t))
    <3>1. IF ok THEN Moves(t.amount, 0, 0) ELSE Moves(0, 0, 0)
      BY <1>1, <2>1, <2>4, RegisterMoney
    <3>2. Checks(t)
      BY <2>2, <2>4 DEF ExecuteRegister
    <3> HIDE DEF ok, v
    <3>3. CASE ok
      <4>1. Moves(t.amount, 0, 0) /\ Pays(t)
        BY <1>2, <3>1, <3>3
      <4> QED BY <1>2, <1>4, <3>2, <4>1, PassedReports DEF RewardKinds
    <3>4. CASE ~ ok
      BY <1>2, <3>1, <3>4, FailedReports
    <3> QED BY <3>3, <3>4
  <2> QED BY <1>3, <2>3, <2>4
<1>5. CASE t.kind = "delegate"
  <2>1. /\ t.start \in Heights /\ t.end \in Heights /\ t.amount \in StakeAmounts
        /\ t.rewardAddress \in RewardAddresses
    BY <1>5, TxFields
  <2>2. Checks(t) <=> DelegateChecks(v, t.actor, t.nodeID, t.start, t.end, t.amount)
    BY <1>5 DEF Checks
  <2>3. \/ ExecuteDelegate(t.actor, t.nodeID, t.start, t.end, t.amount, t.rewardAddress)
        \/ ~ Checks(t) /\ Refuse(t.actor)
    BY <1>5, <2>2 DEF Apply, DelegateTx
  <2>4. ASSUME ExecuteDelegate(t.actor, t.nodeID, t.start, t.end, t.amount, t.rewardAddress)
        PROVE  Reported(Result(id, t))
    <3>1. IF ok THEN Moves(0, t.amount, 0) ELSE Moves(0, 0, 0)
      BY <1>1, <2>1, <2>4, DelegateMoney
    <3>2. Checks(t)
      BY <2>2, <2>4 DEF ExecuteDelegate
    <3> HIDE DEF ok, v
    <3>3. CASE ok
      <4>1. Moves(0, t.amount, 0) /\ Pays(t)
        BY <1>2, <3>1, <3>3
      <4> QED BY <1>2, <1>5, <3>2, <4>1, PassedReports DEF RewardKinds
    <3>4. CASE ~ ok
      BY <1>2, <3>1, <3>4, FailedReports
    <3> QED BY <3>3, <3>4
  <2> QED BY <1>3, <2>3, <2>4
<1> QED BY <1>4, <1>5

\* A withdrawal reports the stake it takes out and the reward it pays.
LEMMA PayoutReports ==
  ASSUME TypeOK, NEW t \in Txs, NEW id, t.kind \in {"withdraw", "undelegate"}, Apply(t)
  PROVE  Reported(Result(id, t))
<1> DEFINE v  == FeePaid(t.actor)
           x  == Stake(t)
           y  == Reward(t)
           ok == CanPayOut(v.balance, t.rewardAddress, y, t.actor, x)
<1>1. /\ t.actor \in Addresses /\ t.nodeID \in NodeIDs /\ BeginTx(t.actor)
      /\ t.rewardAddress \in RewardAddresses
  BY TxFields, ApplyBegins
<1>2. Pays(t) <=> ok
  BY DEF Pays
<1>3. ASSUME ~ Checks(t), Refuse(t.actor)
      PROVE  Reported(Result(id, t))
  <2>1. Moves(0, 0, 0)
    BY <1>1, <1>3, OnlyFee DEF Refuse
  <2> QED BY <1>3, <2>1, FailedReports
<1>4. CASE t.kind = "withdraw"
  <2>1. x = view.registered[t.nodeID].StakedAmount /\ y = WithdrawReward(em, t.nodeID)
    BY <1>4 DEF Stake, Reward
  <2>2. Checks(t) <=> WithdrawChecks(v, t.actor, t.nodeID)
    BY <1>4 DEF Checks
  <2>3. \/ ExecuteWithdraw(t.actor, t.nodeID, t.rewardAddress)
        \/ ~ Checks(t) /\ Refuse(t.actor)
    BY <1>4, <2>2 DEF Apply, WithdrawTx
  <2>4. ASSUME ExecuteWithdraw(t.actor, t.nodeID, t.rewardAddress)
        PROVE  Reported(Result(id, t))
    <3> HIDE DEF x, y
    <3>1. /\ IF ok THEN Moves(-x, 0, y) ELSE Moves(0, 0, 0)
          /\ x \in Int /\ y \in Int
      BY <1>1, <2>1, <2>4, WithdrawMoney, EmissionAssumption DEF Uint64
    <3>2. Checks(t)
      BY <2>2, <2>4 DEF ExecuteWithdraw
    <3> HIDE DEF ok, v
    <3>3. CASE ok
      <4>1. Moves(-x, 0, y) /\ Pays(t)
        BY <1>2, <3>1, <3>3
      <4> QED BY <1>4, <3>1, <3>2, <4>1, PassedReports DEF RewardKinds, x, y
    <3>4. CASE ~ ok
      BY <1>2, <3>1, <3>4, FailedReports
    <3> QED BY <3>3, <3>4
  <2> QED BY <1>3, <2>3, <2>4
<1>5. CASE t.kind = "undelegate"
  <2>1. /\ x = view.delegated[<<t.nodeID, t.actor>>].StakedAmount
        /\ y = UndelegateReward(em, t.nodeID, t.actor)
    BY <1>5 DEF Stake, Reward
  <2>2. Checks(t) <=> UndelegateChecks(v, t.actor, t.nodeID)
    BY <1>5 DEF Checks
  <2>3. \/ ExecuteUndelegate(t.actor, t.nodeID, t.rewardAddress)
        \/ ~ Checks(t) /\ Refuse(t.actor)
    BY <1>5, <2>2 DEF Apply, UndelegateTx
  <2>4. ASSUME ExecuteUndelegate(t.actor, t.nodeID, t.rewardAddress)
        PROVE  Reported(Result(id, t))
    <3> HIDE DEF x, y
    <3>1. /\ IF ok THEN Moves(0, -x, y) ELSE Moves(0, 0, 0)
          /\ x \in Int /\ y \in Int
      BY <1>1, <2>1, <2>4, UndelegateMoney, EmissionAssumption DEF Uint64
    <3>2. Checks(t)
      BY <2>2, <2>4 DEF ExecuteUndelegate
    <3> HIDE DEF ok, v
    <3>3. CASE ok
      <4>1. Moves(0, -x, y) /\ Pays(t)
        BY <1>2, <3>1, <3>3
      <4> QED BY <1>5, <3>1, <3>2, <4>1, PassedReports DEF RewardKinds, x, y
    <3>4. CASE ~ ok
      BY <1>2, <3>1, <3>4, FailedReports
    <3> QED BY <3>3, <3>4
  <2> QED BY <1>3, <2>3, <2>4
<1> QED BY <1>4, <1>5


\* A claim reports the reward it pays.
LEMMA ClaimReports ==
  ASSUME Typed, NEW t \in Txs, NEW id, t.kind \in {"claimValidator", "claimDelegation"},
         Apply(t)
  PROVE  Reported(Result(id, t))
<1> DEFINE v  == FeePaid(t.actor)
           y  == Reward(t)
           ok == CanAddBalance(v.balance, t.actor, y)
<1>1. /\ t.actor \in Addresses /\ t.nodeID \in NodeIDs /\ BeginTx(t.actor) /\ TypeOK
      /\ CanSubBalance(view.balance, t.actor, TxFee)
  BY TxFields, ApplyBegins DEF Typed
<1>2. (Pays(t) <=> ok) /\ Stake(t) = 0
  BY DEF Pays, Stake
<1>3. ASSUME ~ Checks(t), Refuse(t.actor)
      PROVE  Reported(Result(id, t))
  <2>1. Moves(0, 0, 0)
    BY <1>1, <1>3, OnlyFee DEF Refuse
  <2> QED BY <1>3, <2>1, FailedReports
<1>4. ASSUME Checks(t), view' = PayReward(v, t.actor, y)
      PROVE  Reported(Result(id, t))
  <2>1. y \in Uint64
    BY <1>1, <1>4, AmountTypes
  <2> HIDE DEF y
  <2>2. IF ok THEN Moves(0, 0, y) ELSE Moves(0, 0, 0)
    BY <1>1, <1>4, <2>1, PayRewardMoney
  <2> HIDE DEF ok, v
  <2>3. CASE ok
    <3>1. Moves(0, 0, y) /\ Pays(t)
      BY <1>2, <2>2, <2>3
    <3> QED BY <1>2, <1>4, <3>1, PassedReports DEF RewardKinds, y
  <2>4. CASE ~ ok
    BY <1>2, <2>2, <2>4, FailedReports
  <2> QED BY <2>3, <2>4
<1>5. CASE t.kind = "claimValidator"
  <2>1. y = WithdrawReward(em, t.nodeID)
    BY <1>5 DEF Reward
  <2>2. Checks(t) <=> ClaimValidatorChecks(v, t.actor, t.nodeID)
    BY <1>5 DEF Checks
  <2>3. \/ ExecuteClaimValidator(t.actor, t.nodeID)
        \/ ~ Checks(t) /\ Refuse(t.actor)
    BY <1>5, <2>2 DEF Apply, ClaimValidatorTx
  <2>4. ASSUME ExecuteClaimValidator(t.actor, t.nodeID)
        PROVE  Checks(t) /\ view' = PayReward(v, t.actor, y)
    BY <2>1, <2>2, <2>4 DEF ExecuteClaimValidator
  <2> QED BY <1>3, <1>4, <2>3, <2>4
<1>6. CASE t.kind = "claimDelegation"
  <2>1. y = CalculateUserDelegationRewards(em, t.nodeID, t.userStakeAddress)
    BY <1>6 DEF Reward
  <2>2. Checks(t) <=> ClaimDelegationChecks(v, t.actor, t.nodeID, t.userStakeAddress)
    BY <1>6 DEF Checks
  <2>3. \/ ExecuteClaimDelegation(t.actor, t.nodeID, t.userStakeAddress)
        \/ ~ Checks(t) /\ Refuse(t.actor)
    BY <1>6, <2>2 DEF Apply, ClaimDelegationTx
  <2>4. ASSUME ExecuteClaimDelegation(t.actor, t.nodeID, t.userStakeAddress)
        PROVE  Checks(t) /\ view' = PayReward(v, t.actor, y)
    BY <2>1, <2>2, <2>4 DEF ExecuteClaimDelegation
  <2> QED BY <1>3, <1>4, <2>3, <2>4
<1> QED BY <1>5, <1>6

\* Every transaction moves what its result says.
LEMMA ApplyReports ==
  ASSUME Typed, NEW t \in Txs, NEW id, Apply(t)
  PROVE  Reported(Result(id, t))
<1>1. TypeOK
  BY DEF Typed
<1>2. t.kind \in {"register", "delegate", "withdraw", "undelegate", "claimValidator",
                  "claimDelegation"}
  BY TxFields
<1> QED BY <1>1, <1>2, StakeReports, PayoutReports, ClaimReports


-----------------------------------------------------------------------------
(* The metrics follow the chain state, a few blocks behind.                *)

\* What the metrics and a chain state have in common: stakes of validators, of
\* delegators, and how much more the accounts own than at genesis.
Points == [val : Int, del : Int, net : Int]

Gauges(m) ==
  [val |-> m.validatorStakeAmount, del |-> m.delegatorStakeAmount,
   net |-> m.mintedNAI - m.feesDistributed]

Sheet(v) ==
  [val |-> Staked(v.registered), del |-> Staked(v.delegated),
   net |-> Wealth(v) - GenesisSupply]

\* A block with the results rs and these fees leads from p to q.
Adds(p, rs, fees, q) ==
  /\ q.val = p.val + (Total(rs, {"register"}, "stake") - Total(rs, {"withdraw"}, "stake"))
  /\ q.del = p.del + (Total(rs, {"delegate"}, "stake") - Total(rs, {"undelegate"}, "stake"))
  /\ q.net = p.net + (Total(rs, RewardKinds, "reward") - fees)

\* Blocks with the results rss and the fees lead from p to q, point by point; the
\* first may be counted in p already.
Trail(f, rss, fees, step, p, q) ==
  /\ f \in [0 .. Len(rss) -> Points]
  /\ f[0] = p /\ f[Len(rss)] = q
  /\ \A i \in 1 .. Len(rss) :
       IF i = 1 /\ step # "fees" THEN f[1] = f[0]
       ELSE Adds(f[i - 1], rss[i], fees[i], f[i])

\* The blocks that Accepted has not finished lead from the metrics to the chain
\* state, and the processing block from there to the view.
Metrics ==
  [feesDistributed : Int, mintedNAI : Int, validatorStakeAmount : Int,
   delegatorStakeAmount : Int]
Books ==
  /\ metrics \in Metrics
  /\ Len(queue) = 0 => accepted.step = "fees"
  /\ ~ block.processing => block.txs = 0
  /\ block.fees = TxFee * block.txs
  /\ Adds(Sheet(ledger), results, block.fees, Sheet(view))
  /\ \E f : Trail(f, pending, queue, accepted.step, Gauges(metrics), Sheet(ledger))

\* No block is so full that its fees overflow.
FeesFit == TxFee * MaxTxs < Word

\* Fees add up.
LEMMA FeesAdd ==
  ASSUME FeesFit, NEW n \in 0 .. MaxTxs, n < MaxTxs
  PROVE  Wrap(TxFee * n + TxFee) = TxFee * (n + 1)
<1>1. TxFee \in Nat /\ MaxTxs \in Nat /\ n \in Nat
  BY StakingAssumption, EmissionAssumption DEF Uint64
<1>2. TxFee * n + TxFee = TxFee * (n + 1)
  BY <1>1
<1>3. TxFee * (n + 1) <= TxFee * MaxTxs /\ TxFee * (n + 1) \in Nat
  <2>1. PICK k \in Nat : MaxTxs = n + 1 + k
    <3>1. MaxTxs - (n + 1) \in Nat /\ MaxTxs = n + 1 + (MaxTxs - (n + 1))
      BY <1>1
    <3> QED BY <3>1
  <2>2. TxFee * MaxTxs = TxFee * (n + 1) + TxFee * k /\ TxFee * k \in Nat /\ TxFee * (n + 1) \in Nat
    BY <1>1, <2>1
  <2> QED BY <1>1, <2>2
<1>4. TxFee * MaxTxs \in Int
  BY <1>1
<1> DEFINE x == TxFee * (n + 1)
           y == TxFee * MaxTxs
<1>5. x <= y /\ x \in Nat /\ y < Word /\ y \in Int /\ Word \in Nat
  BY <1>3, <1>4, EmissionAssumption DEF FeesFit
<1> HIDE DEF x, y
<1>6. x \in Uint64
  BY <1>5 DEF Uint64
<1>7. Wrap(x) = x
  BY <1>6, WrapValue
<1> QED BY <1>2, <1>7 DEF x

\* The points of a chain state and of the metrics.
LEMMA PointTypes ==
  /\ \A v : IsLedger(v) => Sheet(v) \in Points
  /\ \A m \in Metrics : Gauges(m) \in Points
  /\ GenesisSupply \in Int
<1>1. GenesisSupply \in Int
  <2>1. GenesisSupply \in Uint64
    BY WrapType DEF GenesisSupply
  <2> QED BY <2>1, EmissionAssumption DEF Uint64
<1>2. ASSUME NEW v, IsLedger(v) PROVE Sheet(v) \in Points
  <2>1. /\ Staked(v.registered) \in Int /\ Staked(v.delegated) \in Int
        /\ SumFunctionOnSet(v.balance, Addresses) \in Int
    BY <1>2, LedgerStakes
  <2>2. Wealth(v) \in Int
    BY <2>1 DEF Wealth
  <2> QED BY <1>1, <2>1, <2>2 DEF Sheet, Points
<1>3. \A m \in Metrics : Gauges(m) \in Points
  BY DEF Metrics, Gauges, Points
<1> QED BY <1>1, <1>2, <1>3

\* A block without transactions leads nowhere.
LEMMA AddsNothing ==
  ASSUME NEW p \in Points
  PROVE  Adds(p, <<>>, 0, p)
<1>1. p.val \in Int /\ p.del \in Int /\ p.net \in Int
  BY DEF Points
<1>2. \A kinds, f : Total(<<>>, kinds, f) = 0
  BY TotalEmpty
<1> QED BY <1>1, <1>2 DEF Adds


\* One more result of the processing block.
LEMMA AddsResult ==
  ASSUME Typed, Typed', NEW p \in Points, NEW fees \in Int, results \in Seq(Outcomes),
         Adds(p, results, fees, Sheet(view)), NEW r \in Outcomes, Reported(r),
         results' = Append(results, r)
  PROVE  Adds(p, results', fees + TxFee, Sheet(view'))
<1> DEFINE T(kinds, f) == Total(results, kinds, f)
           D(kinds, f) == Due(r, kinds, f)
           s == Sheet(view)
           q == Sheet(view')
<1>1. \A kinds : \A f \in {"stake", "reward"} :
        /\ T(kinds, f) \in Int /\ D(kinds, f) \in Int
        /\ Total(results', kinds, f) = T(kinds, f) + D(kinds, f)
  BY TotalAppend, TotalInt, DueInt
<1>2. TxFee \in Int /\ GenesisSupply \in Int
  BY PointTypes, StakingAssumption, EmissionAssumption DEF Uint64
<1>3. /\ s.val \in Int /\ s.del \in Int /\ s.net \in Int
      /\ p.val \in Int /\ p.del \in Int /\ p.net \in Int
  BY PointTypes DEF Points, Typed, TypeOK
<1>4. /\ q.val = s.val + (D({"register"}, "stake") - D({"withdraw"}, "stake"))
      /\ q.del = s.del + (D({"delegate"}, "stake") - D({"undelegate"}, "stake"))
      /\ q.net = s.net + (D(RewardKinds, "reward") - TxFee)
  <2>1. /\ q.val = Staked(view'.registered) /\ q.del = Staked(view'.delegated)
        /\ q.net = Wealth(view') - GenesisSupply
        /\ s.val = Staked(view.registered) /\ s.del = Staked(view.delegated)
        /\ s.net = Wealth(view) - GenesisSupply
    BY DEF Sheet
  <2>2. Wealth(view) \in Int
    <3>1. /\ Staked(view.registered) \in Int /\ Staked(view.delegated) \in Int
          /\ SumFunctionOnSet(view.balance, Addresses) \in Int
      BY LedgerStakes DEF Typed, TypeOK
    <3> QED BY <3>1 DEF Wealth
  <2>3. /\ Staked(view'.registered) = Staked(view.registered)
             + (D({"register"}, "stake") - D({"withdraw"}, "stake"))
        /\ Staked(view'.delegated) = Staked(view.delegated)
             + (D({"delegate"}, "stake") - D({"undelegate"}, "stake"))
        /\ Wealth(view') = Wealth(view) + D(RewardKinds, "reward") - TxFee
    BY DEF Reported, Moves
  <2>4. D(RewardKinds, "reward") \in Int
    BY <1>1
  <2> HIDE DEF s, q, D
  <2>5. q.net = s.net + (D(RewardKinds, "reward") - TxFee)
    BY <1>2, <2>1, <2>2, <2>3, <2>4
  <2> QED BY <2>1, <2>3, <2>5
<1>5. /\ s.val = p.val + (T({"register"}, "stake") - T({"withdraw"}, "stake"))
      /\ s.del = p.del + (T({"delegate"}, "stake") - T({"undelegate"}, "stake"))
      /\ s.net = p.net + (T(RewardKinds, "reward") - fees)
  BY DEF Adds
<1>6. /\ T({"register"}, "stake") \in Int /\ T({"withdraw"}, "stake") \in Int
      /\ T({"delegate"}, "stake") \in Int /\ T({"undelegate"}, "stake") \in Int
      /\ T(RewardKinds, "reward") \in Int
      /\ D({"register"}, "stake") \in Int /\ D({"withdraw"}, "stake") \in Int
      /\ D({"delegate"}, "stake") \in Int /\ D({"undelegate"}, "stake") \in Int
      /\ D(RewardKinds, "reward") \in Int
  BY <1>1
<1> DEFINE t1 == T({"register"}, "stake")
           t2 == T({"withdraw"}, "stake")
           t3 == T({"delegate"}, "stake")
           t4 == T({"undelegate"}, "stake")
           t5 == T(RewardKinds, "reward")
           d1 == D({"register"}, "stake")
           d2 == D({"withdraw"}, "stake")
           d3 == D({"delegate"}, "stake")
           d4 == D({"undelegate"}, "stake")
           d5 == D(RewardKinds, "reward")
<1> HIDE DEF T, D, s, q
<1>7. /\ q.val = p.val + ((t1 + d1) - (t2 + d2))
      /\ q.del = p.del + ((t3 + d3) - (t4 + d4))
      /\ q.net = p.net + ((t5 + d5) - (fees + TxFee))
  <2>1. /\ t1 \in Int /\ t2 \in Int /\ t3 \in Int /\ t4 \in Int /\ t5 \in Int
        /\ d1 \in Int /\ d2 \in Int /\ d3 \in Int /\ d4 \in Int /\ d5 \in Int
    BY <1>6
  <2> DEFINE p1 == p.val
             p2 == p.del
             p3 == p.net
             s1 == s.val
             s2 == s.del
             s3 == s.net
             q1 == q.val
             q2 == q.del
             q3 == q.net
  <2>2. /\ q1 = s1 + (d1 - d2) /\ q2 = s2 + (d3 - d4) /\ q3 = s3 + (d5 - TxFee)
        /\ s1 = p1 + (t1 - t2) /\ s2 = p2 + (t3 - t4) /\ s3 = p3 + (t5 - fees)
        /\ p1 \in Int /\ p2 \in Int /\ p3 \in Int
    BY <1>3, <1>4, <1>5
  <2> HIDE DEF t1, t2, t3, t4, t5, d1, d2, d3, d4, d5, p1, p2, p3, s1, s2, s3, q1, q2, q3
  <2>3. q1 = p1 + ((t1 + d1) - (t2 + d2))
    BY <2>1, <2>2
  <2>4. q2 = p2 + ((t3 + d3) - (t4 + d4))
    BY <2>1, <2>2
  <2>5. q3 = p3 + ((t5 + d5) - (fees + TxFee))
    BY <1>2, <2>1, <2>2
  <2> QED BY <2>3, <2>4, <2>5 DEF p1, p2, p3, q1, q2, q3
<1>8. Adds(p, results', fees + TxFee, q)
  BY <1>1, <1>7 DEF Adds
<1> QED BY <1>8 DEF q

\* A transaction is executed in the processing block.
LEMMA BooksApply ==
  ASSUME FeesFit, NodeInv, Typed', Books, NEW t \in Txs, NEW id \in Nat, Apply(t),
         results' = Append(results, Result(id, t)),
         pending' = pending, metrics' = metrics
  PROVE  Books'
<1> DEFINE r == Result(id, t)
           p == Sheet(ledger)
<1>1. /\ block' = [block EXCEPT !.txs = @ + 1, !.fees = Wrap(@ + TxFee)]
      /\ block.txs < MaxTxs /\ ledger' = ledger /\ queue' = queue /\ accepted' = accepted
      /\ CanSubBalance(view.balance, t.actor, TxFee)
  BY ApplyBegins DEF BeginTx
<1>2. Typed /\ TypeOK /\ results \in Seq(Outcomes) /\ block.fees = TxFee * block.txs
  BY DEF NodeInv, Typed, Lists, Books
<1>3. r \in Outcomes /\ Reported(r) /\ results' = Append(results, r)
  BY <1>1, <1>2, ResultType, ApplyReports
<1>4. /\ block.txs \in 0 .. MaxTxs /\ block.fees \in Int
      /\ block \in [processing : BOOLEAN, txs : 0 .. MaxTxs, fees : Uint64]
  BY <1>2, EmissionAssumption DEF TypeOK, Uint64
<1>5. /\ block'.txs = block.txs + 1 /\ block'.fees = Wrap(block.fees + TxFee)
      /\ block'.processing
  BY <1>1, <1>4, ApplyBegins DEF BeginTx
<1>6. Wrap(TxFee * block.txs + TxFee) = TxFee * (block.txs + 1)
  BY <1>1, <1>4, FeesAdd
<1>7. block'.fees = TxFee * block'.txs
  BY <1>2, <1>5, <1>6
<1>8. block'.fees = block.fees + TxFee
  <2>1. TxFee \in Nat /\ block.txs \in Nat
    BY <1>4, StakingAssumption, EmissionAssumption DEF Uint64
  <2>2. TxFee * (block.txs + 1) = TxFee * block.txs + TxFee
    BY <2>1
  <2> QED BY <1>2, <1>5, <1>6, <2>2
<1>9. p \in Points /\ Adds(p, results, block.fees, Sheet(view))
  BY <1>2, PointTypes DEF TypeOK, Books
<1> HIDE DEF r, p
<1>10. Adds(p, results', block.fees + TxFee, Sheet(view'))
  BY <1>2, <1>3, <1>4, <1>9, AddsResult
<1>11. Adds(p, results', block'.fees, Sheet(view'))
  BY <1>8, <1>10
<1>12. Adds(Sheet(ledger'), results', block'.fees, Sheet(view'))
  BY <1>1, <1>11 DEF p
<1> QED BY <1>1, <1>5, <1>7, <1>12 DEF Books


\* The block is accepted: the trail grows by one point.
LEMMA BooksAccept ==
  ASSUME NodeInv, Books, NodeAcceptBlock
  PROVE  Books'
<1>1. /\ queue' = Append(queue, block.fees) /\ pending' = Append(pending, results)
      /\ results' = <<>> /\ ledger' = view /\ view' = view /\ block' = NoBlock
      /\ accepted' = accepted /\ metrics' = metrics
  BY DEF NodeAcceptBlock, AcceptBlock
<1>2. /\ results \in Seq(Outcomes) /\ pending \in Seq(Seq(Outcomes))
      /\ Len(pending) = Len(queue) /\ queue \in Seq(Uint64) /\ IsLedger(view)
      /\ Len(pending) \in Nat
  BY DEF NodeInv, Lists, Typed, TypeOK
<1> DEFINE p == Gauges(metrics)
           q == Sheet(ledger)
           s == Sheet(view)
           n == Len(pending)
           step == accepted.step
<1>3. s \in Points /\ Adds(q, results, block.fees, s)
  BY <1>2, PointTypes DEF Books
<1>4. PICK f : Trail(f, pending, queue, step, p, q)
  BY DEF Books
<1>5. n = 0 => step = "fees"
  BY <1>2 DEF Books
<1> HIDE DEF p, q, s, step
<1> DEFINE g == [i \in 0 .. n + 1 |-> IF i <= n THEN f[i] ELSE s]
<1>6. /\ f \in [0 .. n -> Points] /\ f[0] = p /\ f[n] = q
      /\ \A i \in 1 .. n : IF i = 1 /\ step # "fees" THEN f[1] = f[0]
                           ELSE Adds(f[i - 1], pending[i], queue[i], f[i])
  BY <1>4 DEF Trail
<1>7. /\ Len(pending') = n + 1 /\ pending'[n + 1] = results /\ queue'[n + 1] = block.fees
      /\ \A i \in 1 .. n : pending'[i] = pending[i] /\ queue'[i] = queue[i]
  BY <1>1, <1>2
<1> HIDE DEF n
<1>8. n \in Nat
  BY <1>2 DEF n
<1>9. /\ g \in [0 .. n + 1 -> Points] /\ g[n + 1] = s /\ g[n] = q
      /\ \A i \in 0 .. n : g[i] = f[i]
  BY <1>3, <1>6, <1>8
<1> HIDE DEF g
<1>10. ASSUME NEW i \in 1 .. n + 1
       PROVE  IF i = 1 /\ step # "fees" THEN g[1] = g[0]
              ELSE Adds(g[i - 1], pending'[i], queue'[i], g[i])
  <2>1. CASE i = n + 1
    <3>1. ~ (i = 1 /\ step # "fees") /\ i - 1 = n
      BY <1>5, <1>8, <2>1
    <3>2. Adds(g[i - 1], pending'[i], queue'[i], g[i])
      BY <1>3, <1>7, <1>9, <2>1, <3>1
    <3> QED BY <3>1, <3>2
  <2>2. CASE i # n + 1
    <3>1. i \in 1 .. n /\ i \in 0 .. n /\ i - 1 \in 0 .. n /\ 0 \in 0 .. n
      BY <1>8, <2>2
    <3>2. pending'[i] = pending[i] /\ queue'[i] = queue[i] /\ g[i] = f[i] /\ g[i - 1] = f[i - 1]
          /\ g[0] = f[0]
      BY <1>7, <1>9, <3>1
    <3>3. CASE i = 1 /\ step # "fees"
      BY <1>6, <3>1, <3>2, <3>3
    <3>4. CASE ~ (i = 1 /\ step # "fees")
      <4>1. Adds(f[i - 1], pending[i], queue[i], f[i])
        BY <1>6, <3>1, <3>4
      <4> QED BY <3>2, <3>4, <4>1
    <3> QED BY <3>3, <3>4
  <2> QED BY <2>1, <2>2
<1>11. g[0] = p
  BY <1>6, <1>8, <1>9
<1>12. Trail(g, pending', queue', step, p, s)
  BY <1>7, <1>9, <1>10, <1>11 DEF Trail
<1>13. Trail(g, pending', queue', accepted'.step, Gauges(metrics'), Sheet(ledger'))
  BY <1>1, <1>12 DEF step, p, s
<1>14. Adds(s, <<>>, 0, s)
  BY <1>3, AddsNothing
<1>15. block'.fees = 0 /\ block'.txs = 0 /\ TxFee * 0 = 0
  BY <1>1, StakingAssumption, EmissionAssumption DEF NoBlock, Uint64
<1>16. Len(queue') # 0
  BY <1>1, <1>2
<1>17. Adds(Sheet(ledger'), results', block'.fees, Sheet(view'))
  BY <1>1, <1>14, <1>15 DEF s
<1>18. metrics' \in Metrics
  BY <1>1 DEF Books
<1> QED BY <1>13, <1>15, <1>16, <1>17, <1>18 DEF Books

\* Controller.Accepted counts the results: the metrics move to the next point.
LEMMA BooksCount ==
  ASSUME NodeInv, Books, NodeAcceptedFees
  PROVE  Books'
<1>1. /\ queue # <<>> /\ accepted.step = "fees"
      /\ accepted' = [accepted EXCEPT !.step = "mint"]
      /\ ledger' = ledger /\ view' = view /\ block' = block /\ queue' = queue
      /\ metrics' = CountResults(metrics, Head(pending), Head(queue))
      /\ results' = results /\ pending' = pending
  BY DEF NodeAcceptedFees, AcceptedFees
<1>2. /\ pending \in Seq(Seq(Outcomes)) /\ Len(pending) = Len(queue) /\ queue \in Seq(Uint64)
      /\ accepted \in [step : {"fees", "mint", "add"}, minted : Uint64]
      /\ metrics \in Metrics
  BY DEF NodeInv, Lists, Typed, TypeOK, Books
<1> DEFINE rs == Head(pending)
           fee == Head(queue)
           n == Len(pending)
           p == Gauges(metrics)
           q == Sheet(ledger)
           p1 == Gauges(metrics')
<1>3. /\ n \in Nat /\ n >= 1 /\ rs = pending[1] /\ fee = queue[1]
      /\ rs \in Seq(Outcomes) /\ fee \in Int
  BY <1>1, <1>2, EmissionAssumption DEF Uint64
<1>4. accepted'.step = "mint"
  BY <1>1, <1>2
<1>5. PICK f : Trail(f, pending, queue, "fees", p, q)
  BY <1>1 DEF Books
<1> HIDE DEF rs, fee, n, q
<1>6. /\ f \in [0 .. n -> Points] /\ f[0] = p /\ f[n] = q
      /\ \A i \in 1 .. n : Adds(f[i - 1], pending[i], queue[i], f[i])
  BY <1>5 DEF Trail, n
<1>7. Adds(p, rs, fee, f[1]) /\ f[1] \in Points
  <2>1. 1 \in 1 .. n /\ 1 - 1 = 0 /\ 1 \in 0 .. n
    BY <1>3
  <2> QED BY <1>3, <1>6, <2>1
<1>8. metrics' \in Metrics /\ p1 = f[1]
  <2> DEFINE t1 == Total(rs, {"register"}, "stake")
             t2 == Total(rs, {"withdraw"}, "stake")
             t3 == Total(rs, {"delegate"}, "stake")
             t4 == Total(rs, {"undelegate"}, "stake")
             t5 == Total(rs, RewardKinds, "reward")
             m  == metrics
             m1 == metrics'
             y  == f[1]
  <2>1. t1 \in Int /\ t2 \in Int /\ t3 \in Int /\ t4 \in Int /\ t5 \in Int
    BY <1>3, TotalInt
  <2>2. m1 = [feesDistributed |-> m.feesDistributed + fee,
              mintedNAI |-> m.mintedNAI + t5,
              validatorStakeAmount |-> m.validatorStakeAmount + t1 - t2,
              delegatorStakeAmount |-> m.delegatorStakeAmount + t3 - t4]
    BY <1>1 DEF CountResults, RewardKinds, rs, fee
  <2>3. /\ y.val = p.val + (t1 - t2) /\ y.del = p.del + (t3 - t4)
        /\ y.net = p.net + (t5 - fee)
    BY <1>7 DEF Adds
  <2> HIDE DEF t1, t2, t3, t4, t5, y
  <2>4. m1 \in Metrics
    <3> DEFINE a == m.feesDistributed + fee
               b == m.mintedNAI + t5
               c == m.validatorStakeAmount + t1 - t2
               d == m.delegatorStakeAmount + t3 - t4
    <3>1. a \in Int /\ b \in Int /\ c \in Int /\ d \in Int
      BY <1>2, <1>3, <2>1 DEF Metrics
    <3>2. m1 = [feesDistributed |-> a, mintedNAI |-> b, validatorStakeAmount |-> c,
                delegatorStakeAmount |-> d]
      BY <2>2
    <3> HIDE DEF a, b, c, d, m1
    <3> QED BY <3>1, <3>2 DEF Metrics
  <2>5. /\ p1.val = p.val + (t1 - t2) /\ p1.del = p.del + (t3 - t4)
        /\ p1.net = p.net + (t5 - fee)
    BY <1>2, <1>3, <2>1, <2>2 DEF Metrics, Gauges
  <2>6. p1 \in Points
    BY <2>4, PointTypes
  <2>7. y \in Points
    BY <1>7 DEF y
  <2> HIDE DEF p, p1
  <2>8. p1 = y
    BY <2>3, <2>5, <2>6, <2>7 DEF Points
  <2> QED BY <2>4, <2>8 DEF y
<1> HIDE DEF p, p1
<1> DEFINE g == [f EXCEPT ![0] = f[1]]
<1>9. /\ g \in [0 .. n -> Points] /\ g[0] = f[1]
      /\ \A i \in 1 .. n : g[i] = f[i]
  BY <1>3, <1>6, <1>7
<1> HIDE DEF g
<1>10. g[n] = q /\ g[1] = g[0]
  BY <1>3, <1>6, <1>9
<1>11. ASSUME NEW i \in 1 .. n, i # 1
       PROVE  Adds(g[i - 1], pending[i], queue[i], g[i])
  <2>1. i - 1 \in 1 .. n
    BY <1>3, <1>11
  <2> QED BY <1>6, <1>9, <2>1
<1>12. Trail(g, pending, queue, "mint", p1, q)
  <2>1. \A i \in 1 .. n : IF i = 1 /\ "mint" # "fees" THEN g[1] = g[0]
                          ELSE Adds(g[i - 1], pending[i], queue[i], g[i])
    BY <1>10, <1>11
  <2> QED BY <1>8, <1>9, <1>10, <2>1 DEF Trail, n
<1>13. Trail(g, pending', queue', accepted'.step, Gauges(metrics'), Sheet(ledger'))
  BY <1>1, <1>4, <1>12 DEF p1, q
<1>14. Len(queue') # 0
  BY <1>1, <1>2, <1>3 DEF n
<1> QED BY <1>1, <1>8, <1>13, <1>14 DEF Books


\* Accepted goes on with the block, or is done with it: the trail starts at the
\* next point, which the metrics have reached.
LEMMA BooksWrite ==
  ASSUME NodeInv, Books, Write, ledger' = ledger, view' = view, block' = block,
         accepted.step # "fees", queue # <<>>,
         \/ queue' = queue /\ accepted'.step # "fees"
         \/ queue' = Tail(queue) /\ accepted'.step = "fees"
  PROVE  Books'
<1>1. results' = results /\ metrics' = metrics
  BY DEF Write
<1>2. /\ pending \in Seq(Seq(Outcomes)) /\ Len(pending) = Len(queue) /\ queue \in Seq(Uint64)
  BY DEF NodeInv, Lists, Typed, TypeOK
<1> DEFINE n == Len(pending)
           p == Gauges(metrics)
           q == Sheet(ledger)
           step == accepted.step
<1>3. PICK f : Trail(f, pending, queue, step, p, q)
  BY DEF Books
<1>4. n \in Nat /\ n >= 1 /\ Len(queue) >= 1
  BY <1>2
<1> HIDE DEF p, q
<1>5. /\ f \in [0 .. n -> Points] /\ f[0] = p /\ f[n] = q /\ f[1] = f[0]
      /\ \A i \in 1 .. n : i # 1 => Adds(f[i - 1], pending[i], queue[i], f[i])
  <2>1. /\ f \in [0 .. n -> Points] /\ f[0] = p /\ f[n] = q
        /\ \A i \in 1 .. n : IF i = 1 /\ step # "fees" THEN f[1] = f[0]
                             ELSE Adds(f[i - 1], pending[i], queue[i], f[i])
    BY <1>3 DEF Trail
  <2>2. 1 \in 1 .. n
    BY <1>4
  <2> QED BY <2>1, <2>2
<1>6. CASE queue' = queue /\ accepted'.step # "fees"
  <2>1. pending' = pending
    BY <1>2, <1>6 DEF Write
  <2>2. \A i \in 1 .. n : IF i = 1 /\ accepted'.step # "fees" THEN f[1] = f[0]
                          ELSE Adds(f[i - 1], pending[i], queue[i], f[i])
    BY <1>5, <1>6
  <2>3. Trail(f, pending, queue, accepted'.step, p, q)
    BY <1>5, <2>2 DEF Trail
  <2>4. Trail(f, pending', queue', accepted'.step, Gauges(metrics'), Sheet(ledger'))
    BY <1>1, <1>6, <2>1, <2>3 DEF p, q
  <2> QED BY <1>1, <1>4, <1>6, <2>4 DEF Books
<1>7. CASE queue' = Tail(queue) /\ accepted'.step = "fees"
  <2>1. queue' # queue
    BY <1>2, <1>4, <1>7
  <2>2. pending' = Tail(pending)
    BY <2>1 DEF Write
  <2>3. /\ Len(pending') = n - 1
        /\ \A i \in 1 .. n - 1 : pending'[i] = pending[i + 1] /\ queue'[i] = queue[i + 1]
    BY <1>2, <1>4, <1>7, <2>2
  <2> HIDE DEF n
  <2> DEFINE g == [i \in 0 .. n - 1 |-> f[i + 1]]
  <2>4. /\ g \in [0 .. n - 1 -> Points] /\ g[0] = f[1] /\ g[n - 1] = f[n]
        /\ \A i \in 0 .. n - 1 : g[i] = f[i + 1]
    BY <1>4, <1>5
  <2> HIDE DEF g
  <2>5. ASSUME NEW i \in 1 .. n - 1
        PROVE  Adds(g[i - 1], pending'[i], queue'[i], g[i])
    <3>1. /\ i + 1 \in 1 .. n /\ i + 1 # 1 /\ (i + 1) - 1 = i /\ (i - 1) + 1 = i
          /\ i \in 0 .. n - 1 /\ i - 1 \in 0 .. n - 1
      BY <1>4
    <3>2. Adds(f[i], pending[i + 1], queue[i + 1], f[i + 1])
      BY <1>5, <3>1
    <3>3. g[i - 1] = f[i] /\ g[i] = f[i + 1]
      BY <2>4, <3>1
    <3> QED BY <2>3, <3>2, <3>3
  <2>6. g[0] = p /\ g[n - 1] = q
    BY <1>5, <2>4
  <2>7. Trail(g, pending', queue', "fees", p, q)
    BY <2>3, <2>4, <2>5, <2>6 DEF Trail
  <2>8. Trail(g, pending', queue', accepted'.step, Gauges(metrics'), Sheet(ledger'))
    BY <1>1, <1>7, <2>7 DEF p, q
  <2> QED BY <1>1, <1>7, <2>8 DEF Books
<1> QED BY <1>6, <1>7

\* A block is rejected: the view is the chain state.
LEMMA BooksReject ==
  ASSUME NodeInv, Books, NodeRejectBlock
  PROVE  Books'
<1>0. /\ results' = <<>> /\ view' = ledger /\ block'.fees = 0 /\ block'.txs = 0
      /\ ledger' = ledger /\ queue' = queue /\ accepted' = accepted /\ pending' = pending
      /\ metrics' = metrics
  BY DEF NodeRejectBlock, RejectBlock, NoBlock
<1> DEFINE s == Sheet(ledger)
<1>1. s \in Points
  BY PointTypes DEF NodeInv, Typed, TypeOK
<1> HIDE DEF s
<1>2. Adds(s, <<>>, 0, s)
  BY <1>1, AddsNothing
<1>3. Adds(Sheet(ledger'), results', block'.fees, Sheet(view'))
  BY <1>0, <1>2 DEF s
<1>4. TxFee * 0 = 0
  BY StakingAssumption, EmissionAssumption DEF Uint64
<1> QED BY <1>0, <1>3, <1>4 DEF Books

\* A block is begun: it has no transactions yet.
LEMMA BooksBegin ==
  ASSUME NodeInv, Books, NodeNewBlock
  PROVE  Books'
<1>1. /\ ~ block.processing /\ block'.processing /\ block'.fees = 0 /\ block'.txs = 0
      /\ results' = results /\ view' = view /\ ledger' = ledger /\ queue' = queue
      /\ accepted' = accepted /\ pending' = pending /\ metrics' = metrics
  BY DEF NodeNewBlock, NewBlock, NoBlock
<1>2. TxFee * 0 = 0
  BY StakingAssumption, EmissionAssumption DEF Uint64
<1>3. block.fees = 0
  BY <1>1, <1>2 DEF Books
<1> QED BY <1>1, <1>2, <1>3 DEF Books

\* Every step keeps the books.
LEMMA BooksNext ==
  ASSUME FeesFit, NodeInv, NodeInv', Books, [NodeNext]_node
  PROVE  Books'
<1>1. Typed' /\ sent \in Nat /\ IsMap(mempool, 1 .. sent, Txs)
  BY DEF NodeInv, Lists
<1>2. CASE NodeNewBlock
  BY <1>2, BooksBegin
<1>3. CASE NodeAcceptBlock
  BY <1>3, BooksAccept
<1>4. CASE NodeRejectBlock
  BY <1>4, BooksReject
<1>5. CASE \E t \in Txs : SendAndExecute(t)
  <2>1. PICK t \in Txs : SendAndExecute(t)
    BY <1>5
  <2> DEFINE id == sent + 1
  <2>2. /\ Apply(t) /\ results' = Append(results, Result(id, t)) /\ pending' = pending
        /\ metrics' = metrics /\ id \in Nat
    BY <1>1, <2>1 DEF SendAndExecute
  <2> HIDE DEF id
  <2> QED BY <1>1, <2>2, BooksApply
<1>6. CASE \E id \in DOMAIN mempool : ExecuteAgain(id)
  <2>1. PICK id \in DOMAIN mempool : ExecuteAgain(id)
    BY <1>6
  <2> DEFINE t == mempool[id]
  <2>2. /\ Apply(t) /\ results' = Append(results, Result(id, t)) /\ pending' = pending
        /\ metrics' = metrics /\ id \in Nat /\ t \in Txs
    BY <1>1, <2>1 DEF ExecuteAgain, IsMap
  <2> HIDE DEF t
  <2> QED BY <1>1, <2>2, BooksApply
<1>7. CASE NodeAcceptedFees
  BY <1>7, BooksCount
<1>8. CASE NodeAcceptedMint
  <2>1. /\ Write /\ queue # <<>> /\ accepted.step = "mint" /\ ledger' = ledger
        /\ view' = view /\ block' = block
        /\ \/ queue' = queue /\ accepted'.step = "add"
           \/ queue' = Tail(queue) /\ accepted'.step = "fees"
    BY <1>8 DEF NodeAcceptedMint, AcceptedMint, Idle
  <2> QED BY <2>1, BooksWrite
<1>9. CASE NodeAcceptedAdd
  <2>1. /\ Write /\ queue # <<>> /\ accepted.step = "add" /\ ledger' = ledger
        /\ view' = view /\ block' = block
        /\ queue' = Tail(queue) /\ accepted'.step = "fees"
    BY <1>9 DEF NodeAcceptedAdd, AcceptedAdd, Idle
  <2> QED BY <2>1, BooksWrite
<1>10. CASE (\E id \in Waited : WaitForTransaction(id)) \/ NodeFinished \/ UNCHANGED node
  <2>1. /\ vars' = vars /\ results' = results /\ pending' = pending /\ metrics' = metrics
    BY <1>10 DEF WaitForTransaction, NodeFinished, Finished, node, vars
  <2> QED BY <2>1 DEF Books, vars
<1> QED BY <1>2, <1>3, <1>4, <1>5, <1>6, <1>7, <1>8, <1>9, <1>10 DEF NodeNext

\* At genesis there is nothing to count.
LEMMA BooksInit == NodeInit => Books
<1> SUFFICES ASSUME NodeInit PROVE Books
  OBVIOUS
<1> DEFINE s == Sheet(ledger)
           p == Gauges(metrics)
           f == [i \in 0 .. 0 |-> s]
<1>1. /\ ledger = [balance |-> GenesisBalance, registered |-> EmptyMap,
                   delegated |-> EmptyMap]
      /\ view = ledger /\ block = NoBlock /\ queue = <<>> /\ accepted = Idle
      /\ results = <<>> /\ pending = <<>>
      /\ metrics = [feesDistributed |-> 0, mintedNAI |-> 0,
                    validatorStakeAmount |-> 0, delegatorStakeAmount |-> 0]
  BY DEF NodeInit, Init
<1>2. metrics \in Metrics /\ p = [val |-> 0, del |-> 0, net |-> 0]
  BY <1>1 DEF Metrics, Gauges
<1>3. s = [val |-> 0, del |-> 0, net |-> 0]
  <2>1. Staked(EmptyMap) = 0
    <3>1. DOMAIN EmptyMap = {}
      BY DEF EmptyMap
    <3> QED BY <3>1, SumEmpty DEF Staked
  <2>2. SumFunctionOnSet(GenesisBalance, Addresses) \in Uint64
    <3>1. \A a \in Addresses : GenesisBalance[a] \in Nat
      BY StakingAssumption, EmissionAssumption DEF Uint64
    <3>2. SumFunctionOnSet(GenesisBalance, Addresses) \in Nat
      BY <3>1, SumNat, EmissionAssumption
    <3> QED BY <3>2, GenesisFits, EmissionAssumption DEF Uint64
  <2>3. GenesisSupply = SumFunctionOnSet(GenesisBalance, Addresses)
    BY <2>2, WrapValue DEF GenesisSupply
  <2>4. SumFunctionOnSet(GenesisBalance, Addresses) \in Int
    BY <2>2, EmissionAssumption DEF Uint64
  <2> DEFINE g == SumFunctionOnSet(GenesisBalance, Addresses)
  <2>5. /\ ledger.balance = GenesisBalance /\ ledger.registered = EmptyMap
        /\ ledger.delegated = EmptyMap
    BY <1>1
  <2>6. Wealth(ledger) = g + 0 + 0
    BY <2>1, <2>5 DEF Wealth
  <2> HIDE DEF g
  <2>7. Wealth(ledger) - GenesisSupply = 0
    BY <2>3, <2>4, <2>6 DEF g
  <2> QED BY <2>1, <2>5, <2>7 DEF Sheet
<1>4. s \in Points
  BY <1>3 DEF Points
<1> HIDE DEF s, p
<1>5. Adds(s, <<>>, 0, s)
  BY <1>4, AddsNothing
<1>6. Trail(f, <<>>, <<>>, "fees", p, s)
  <2>1. Len(<<>>) = 0 /\ 1 .. 0 = {}
    OBVIOUS
  <2>2. f \in [0 .. 0 -> Points] /\ f[0] = s /\ s = p
    BY <1>2, <1>3, <1>4
  <2> HIDE DEF f
  <2> QED BY <2>1, <2>2 DEF Trail
<1>7. /\ block.fees = 0 /\ block.txs = 0 /\ TxFee * 0 = 0 /\ accepted.step = "fees"
  BY <1>1, StakingAssumption, EmissionAssumption DEF NoBlock, Idle, Uint64
<1>8. Adds(Sheet(ledger), results, block.fees, Sheet(view))
  BY <1>1, <1>5, <1>7 DEF s
<1>9. \E h : Trail(h, pending, queue, accepted.step, Gauges(metrics), Sheet(ledger))
  BY <1>1, <1>6, <1>7 DEF p, s
<1> QED BY <1>2, <1>7, <1>8, <1>9 DEF Books

\* Whenever Accepted has caught up, the metrics are those of the chain state,
\* provided no block's fees overflow.  Any lag, any rejections and executions
\* again, and whatever a transaction that the balancer let pass fails for.
THEOREM MetricsAgree ==
  ASSUME FeesFit
  PROVE  NodeSpec => []MetricsMatchLedger
<1>1. Books /\ NodeInv => MetricsMatchLedger
  <2> SUFFICES ASSUME Books, NodeInv, queue = <<>>
               PROVE  /\ metrics.validatorStakeAmount = Staked(ledger.registered)
                      /\ metrics.delegatorStakeAmount = Staked(ledger.delegated)
                      /\ Wealth(ledger) + metrics.feesDistributed
                           = GenesisSupply + metrics.mintedNAI
    BY DEF MetricsMatchLedger
  <2> DEFINE p == Gauges(metrics)
             q == Sheet(ledger)
  <2>1. PICK f : Trail(f, pending, queue, accepted.step, p, q)
    BY DEF Books
  <2>2. Len(pending) = 0
    BY DEF NodeInv, Lists
  <2>3. p = q
    <3> HIDE DEF p, q
    <3> QED BY <2>1, <2>2 DEF Trail
  <2>4. /\ p.val = metrics.validatorStakeAmount /\ p.del = metrics.delegatorStakeAmount
        /\ p.net = metrics.mintedNAI - metrics.feesDistributed
        /\ q.val = Staked(ledger.registered) /\ q.del = Staked(ledger.delegated)
        /\ q.net = Wealth(ledger) - GenesisSupply
    BY DEF Gauges, Sheet
  <2>5. GenesisSupply \in Int /\ Wealth(ledger) \in Int
    <3>1. /\ Staked(ledger.registered) \in Int /\ Staked(ledger.delegated) \in Int
          /\ SumFunctionOnSet(ledger.balance, Addresses) \in Int
      BY LedgerStakes DEF NodeInv, Typed, TypeOK
    <3> QED BY <3>1, PointTypes DEF Wealth
  <2>6. metrics.mintedNAI \in Int /\ metrics.feesDistributed \in Int
    BY DEF Books, Metrics
  <2> HIDE DEF p, q
  <2>7. metrics.mintedNAI - metrics.feesDistributed = Wealth(ledger) - GenesisSupply
    BY <2>3, <2>4
  <2> QED BY <2>3, <2>4, <2>5, <2>6, <2>7
<1>2. NodeInv /\ NodeInv' /\ Books /\ [NodeNext]_node => Books'
  BY BooksNext
<1> QED BY <1>1, <1>2, BooksInit, NodeInvHolds, PTL DEF NodeSpec

=============================================================================
