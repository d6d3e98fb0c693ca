--------------------------- MODULE StakingProofs ---------------------------
(***************************************************************************)
(* Theorems about Staking, for every value of the constants.               *)
(***************************************************************************)
EXTENDS Staking, EmissionProofs, SumProofs, SequenceTheorems

-----------------------------------------------------------------------------
(* The chain state.                                                        *)

\* SubBalance stays in range when the balance suffices, AddBalance when the
\* sum does not overflow.
LEMMA BalanceType ==
  ASSUME NEW b \in [Addresses -> Uint64], NEW a \in Addresses, NEW x \in Uint64
  PROVE  /\ CanSubBalance(b, a, x) => SubBalance(b, a, x) \in [Addresses -> Uint64]
         /\ CanAddBalance(b, a, x) => AddBalance(b, a, x) \in [Addresses -> Uint64]
  BY EmissionAssumption DEF CanSubBalance, SubBalance, CanAddBalance, AddBalance, Uint64

\* A reward and a stake paid out one after the other.
LEMMA PayOutType ==
  ASSUME NEW b \in [Addresses -> Uint64], NEW r \in Addresses, NEW x \in Uint64,
         NEW a \in Addresses, NEW y \in Uint64, CanPayOut(b, r, x, a, y)
  PROVE  PayOut(b, r, x, a, y) \in [Addresses -> Uint64]
  BY BalanceType DEF CanPayOut, PayOut

\* The fee of a transaction leaves the records alone.
LEMMA FeePaidType ==
  ASSUME TypeOK, NEW actor \in Addresses, CanSubBalance(view.balance, actor, TxFee)
  PROVE  /\ IsLedger(FeePaid(actor))
         /\ FeePaid(actor).balance \in [Addresses -> Uint64]
         /\ FeePaid(actor).registered = view.registered
         /\ FeePaid(actor).delegated = view.delegated
<1>1. view.balance \in [Addresses -> Uint64]
  BY DEF TypeOK, IsLedger
<1> DEFINE b == SubBalance(view.balance, actor, TxFee)
<1>2. b \in [Addresses -> Uint64]
  BY <1>1, BalanceType, StakingAssumption
<1>3. FeePaid(actor) = [view EXCEPT !.balance = b]
  BY DEF FeePaid
<1> HIDE DEF b
<1>4. IsLedger(view)
  BY DEF TypeOK
<1> DEFINE w == [view EXCEPT !.balance = b]
<1>5. /\ IsLedger(w) /\ w.balance = b
      /\ w.registered = view.registered /\ w.delegated = view.delegated
  BY <1>2, <1>4 DEF IsLedger
<1> HIDE DEF w
<1>6. FeePaid(actor) = w
  BY <1>3 DEF w
<1> QED BY <1>2, <1>5, <1>6

-----------------------------------------------------------------------------
(* What a transaction does to the types and to the supply.                 *)
TxSafe == IsEmission(em') /\ IsLedger(view') /\ em'.TotalSupply = em.TotalSupply

\* A refused transaction pays its fee.
LEMMA RefuseSafe ==
  ASSUME TypeOK, NEW actor \in Addresses, BeginTx(actor), Refuse(actor)
  PROVE  TxSafe
  BY FeePaidType DEF TxSafe, Refuse, BeginTx, TypeOK

\* RegisterValidatorStake.
LEMMA RegisterSafe ==
  ASSUME TypeOK, NEW actor \in Addresses, NEW n \in NodeIDs, NEW s \in Heights,
         NEW t \in Heights, NEW x \in StakeAmounts, NEW f \in FeeRates,
         NEW r \in RewardAddresses, BeginTx(actor),
         ExecuteRegister(actor, n, s, t, x, f, r)
  PROVE  /\ TxSafe
         /\ view'.delegated = view.delegated
         /\ \/ view'.registered = view.registered
            \/ view'.registered =
                 Put(view.registered, n,
                     [StakeEndBlock |-> t, StakedAmount |-> x,
                      RewardAddress |-> r, OwnerAddress |-> actor])
<1> DEFINE v == FeePaid(actor)
           rec == [StakeEndBlock |-> t, StakedAmount |-> x,
                   RewardAddress |-> r, OwnerAddress |-> actor]
<1>1. CanSubBalance(view.balance, actor, TxFee)
  BY DEF BeginTx
<1>2. /\ IsLedger(v) /\ v.balance \in [Addresses -> Uint64]
      /\ v.registered = view.registered /\ v.delegated = view.delegated
  BY <1>1, FeePaidType
<1>3. x \in Uint64 /\ r \in Addresses
  BY StakingAssumption
<1>4. f \in Percent
  BY StakingAssumption DEF ExecuteRegister, RegisterChecks, Percent
<1>5. em' = RegisterValidatorStake(em, n, s, t, x, f)
  BY DEF ExecuteRegister
<1>6. IsEmission(em') /\ em'.TotalSupply = em.TotalSupply
  <2>1. IsEmission(em)
    BY DEF TypeOK
  <2> DEFINE g == RegisterValidatorStake(em, n, s, t, x, f)
  <2>2. IsEmission(g) /\ g.TotalSupply = em.TotalSupply
    BY <1>3, <1>4, <2>1, RegisterType
  <2> HIDE DEF g
  <2>3. em' = g
    BY <1>5 DEF g
  <2> QED BY <2>2, <2>3
<1>7. \/ view' = v
      \/ /\ CanSubBalance(v.balance, actor, x)
         /\ view' = [v EXCEPT !.balance = SubBalance(v.balance, actor, x),
                              !.registered = Put(v.registered, n, rec)]
  BY DEF ExecuteRegister
<1> HIDE DEF v
<1>8. rec \in RegisterRecord
  BY <1>3 DEF RegisterRecord
<1> DEFINE reg == Put(v.registered, n, rec)
<1> HIDE DEF rec
<1>9. /\ IsLedger(view') /\ view'.delegated = v.delegated
      /\ view'.registered = v.registered \/ view'.registered = reg
  <2>1. CASE view' = v
    BY <2>1, <1>2
  <2>2. CASE /\ CanSubBalance(v.balance, actor, x)
             /\ view' = [v EXCEPT !.balance = SubBalance(v.balance, actor, x),
                                  !.registered = Put(v.registered, n, rec)]
    <3>1. SubBalance(v.balance, actor, x) \in [Addresses -> Uint64]
      BY <2>2, <1>2, <1>3, BalanceType
    <3>2. IsMap(reg, NodeIDs, RegisterRecord)
      BY <1>2, <1>8 DEF IsLedger, IsMap, Put
    <3> DEFINE b == SubBalance(v.balance, actor, x)
    <3>3. view' = [v EXCEPT !.balance = b, !.registered = reg]
      BY <2>2
    <3> HIDE DEF b, reg
    <3> QED BY <1>2, <3>1, <3>2, <3>3 DEF IsLedger, b
  <2> QED BY <1>7, <2>1, <2>2
<1> QED BY <1>2, <1>6, <1>9 DEF TxSafe, rec

\* WithdrawValidatorStake.
LEMMA WithdrawSafe ==
  ASSUME TypeOK, NEW actor \in Addresses, NEW n \in NodeIDs,
         NEW r \in RewardAddresses, BeginTx(actor), ExecuteWithdraw(actor, n, r)
  PROVE  /\ TxSafe
         /\ view'.delegated = view.delegated
         /\ view'.registered = view.registered
              \/ view'.registered = Delete(view.registered, n)
<1> DEFINE v == FeePaid(actor)
           stake == v.registered[n].StakedAmount
           reward == WithdrawReward(em, n)
           ok == CanPayOut(v.balance, r, reward, actor, stake)
           paid == [v EXCEPT !.balance = PayOut(v.balance, r, reward, actor, stake),
                             !.registered = Delete(v.registered, n)]
<1>1. IsEmission(em) /\ CanSubBalance(view.balance, actor, TxFee) /\ r \in Addresses
  BY StakingAssumption DEF BeginTx, TypeOK
<1>2. /\ IsLedger(v) /\ v.balance \in [Addresses -> Uint64]
      /\ v.registered = view.registered /\ v.delegated = view.delegated
  BY <1>1, FeePaidType
<1>3. n \in DOMAIN v.registered /\ HasValidator(em, n)
  BY DEF ExecuteWithdraw, WithdrawChecks
<1>4. stake \in Uint64
  BY <1>2, <1>3 DEF IsLedger, IsMap, RegisterRecord
<1>5. reward \in Uint64
  <2>1. IsValidator(ValidatorOf(em, n))
    BY <1>1, <1>3, ValidatorOfType DEF HasValidator
  <2> QED BY <2>1 DEF IsValidator, WithdrawReward
<1>6. em' = WithdrawValidatorStake(em, n)
  BY DEF ExecuteWithdraw
<1>7. IsEmission(em') /\ em'.TotalSupply = em.TotalSupply
  BY <1>1, <1>3, <1>6, WithdrawType
<1>8. view' = v \/ (ok /\ view' = paid)
  BY DEF ExecuteWithdraw
<1> HIDE DEF v, stake, reward
<1>9. ASSUME ok
      PROVE  /\ IsLedger(paid) /\ paid.delegated = v.delegated
             /\ paid.registered = Delete(v.registered, n)
  <2> DEFINE b == PayOut(v.balance, r, reward, actor, stake)
             m == Delete(v.registered, n)
  <2>1. b \in [Addresses -> Uint64]
    BY <1>1, <1>2, <1>4, <1>5, <1>9, PayOutType
  <2>2. IsMap(m, NodeIDs, RegisterRecord)
    BY <1>2, DeleteType DEF IsLedger
  <2>3. paid = [v EXCEPT !.balance = b, !.registered = m]
    OBVIOUS
  <2> HIDE DEF paid, ok, b, m
  <2>4. IsLedger(paid) /\ paid.delegated = v.delegated /\ paid.registered = m
    BY <1>2, <2>1, <2>2, <2>3 DEF IsLedger
  <2> QED BY <2>4 DEF m
<1> HIDE DEF paid, ok
<1> QED BY <1>2, <1>7, <1>8, <1>9 DEF TxSafe

\* UndelegateUserStake.
LEMMA UndelegateSafe ==
  ASSUME TypeOK, NEW actor \in Addresses, NEW n \in NodeIDs,
         NEW r \in RewardAddresses, BeginTx(actor), ExecuteUndelegate(actor, n, r)
  PROVE  /\ TxSafe
         /\ view'.registered = view.registered
         /\ view'.delegated = view.delegated
              \/ view'.delegated = Delete(view.delegated, <<n, actor>>)
<1> DEFINE v == FeePaid(actor)
           key == <<n, actor>>
           stake == v.delegated[key].StakedAmount
           reward == UndelegateReward(em, n, actor)
           ok == CanPayOut(v.balance, r, reward, actor, stake)
           paid == [v EXCEPT !.balance = PayOut(v.balance, r, reward, actor, stake),
                             !.delegated = Delete(v.delegated, key)]
<1>1. IsEmission(em) /\ CanSubBalance(view.balance, actor, TxFee) /\ r \in Addresses
  BY StakingAssumption DEF BeginTx, TypeOK
<1>2. /\ IsLedger(v) /\ v.balance \in [Addresses -> Uint64]
      /\ v.registered = view.registered /\ v.delegated = view.delegated
  BY <1>1, FeePaidType
<1>3. key \in DOMAIN v.delegated /\ HasDelegator(em, n, actor)
  BY DEF ExecuteUndelegate, UndelegateChecks
<1>6. em' = UndelegateUserStake(em, n, actor)
  BY DEF ExecuteUndelegate
<1>8. view' = v \/ (ok /\ view' = paid)
  BY DEF ExecuteUndelegate
<1> HIDE DEF v, key
<1>4. stake \in Uint64
  BY <1>2, <1>3 DEF IsLedger, IsMap, DelegateRecord
<1>5. reward \in Uint64
  <2>1. IsValidator(ValidatorOf(em, n))
    BY <1>1, <1>3, ValidatorOfType DEF HasValidator, HasDelegator
  <2>2. ValidatorOf(em, n).AccumulatedDelegatedReward \in Uint64
    BY <2>1 DEF IsValidator
  <2>3. CalculateUserDelegationRewards(em, n, actor) \in Uint64
    BY WrapType DEF CalculateUserDelegationRewards
  <2> QED BY <2>2, <2>3 DEF UndelegateReward
<1>7. IsEmission(em') /\ em'.TotalSupply = em.TotalSupply
  BY <1>1, <1>3, <1>6, UndelegateType
<1> HIDE DEF stake, reward
<1>9. ASSUME ok
      PROVE  /\ IsLedger(paid) /\ paid.registered = v.registered
             /\ paid.delegated = Delete(v.delegated, key)
  <2> DEFINE b == PayOut(v.balance, r, reward, actor, stake)
             m == Delete(v.delegated, key)
  <2>1. b \in [Addresses -> Uint64]
    BY <1>1, <1>2, <1>4, <1>5, <1>9, PayOutType
  <2>2. IsMap(m, NodeIDs \X Addresses, DelegateRecord)
    BY <1>2, DeleteType DEF IsLedger
  <2>3. paid = [v EXCEPT !.balance = b, !.delegated = m]
    OBVIOUS
  <2> HIDE DEF paid, ok, b, m
  <2>4. IsLedger(paid) /\ paid.registered = v.registered /\ paid.delegated = m
    BY <1>2, <2>1, <2>2, <2>3 DEF IsLedger
  <2> QED BY <2>4 DEF m
<1> HIDE DEF paid, ok
<1> QED BY <1>2, <1>7, <1>8, <1>9 DEF TxSafe, key

\* DelegateUserStake.
LEMMA DelegateSafe ==
  ASSUME TypeOK, NEW actor \in Addresses, NEW n \in NodeIDs, NEW s \in Heights,
         NEW t \in Heights, NEW x \in StakeAmounts, NEW r \in RewardAddresses,
         BeginTx(actor), ExecuteDelegate(actor, n, s, t, x, r)
  PROVE  /\ TxSafe
         /\ view'.registered = view.registered
         /\ \/ view'.delegated = view.delegated
            \/ view'.delegated =
                 Put(view.delegated, <<n, actor>>,
                     [StakeStartBlock |-> s, StakeEndBlock |-> t,
                      StakedAmount |-> x, RewardAddress |-> r])
<1> DEFINE v == FeePaid(actor)
           key == <<n, actor>>
           rec == [StakeStartBlock |-> s, StakeEndBlock |-> t,
                   StakedAmount |-> x, RewardAddress |-> r]
           b == SubBalance(v.balance, actor, x)
           m == Put(v.delegated, key, rec)
<1>1. /\ IsEmission(em) /\ CanSubBalance(view.balance, actor, TxFee)
      /\ r \in Addresses /\ x \in Uint64
  BY StakingAssumption DEF BeginTx, TypeOK
<1>2. /\ IsLedger(v) /\ v.balance \in [Addresses -> Uint64]
      /\ v.registered = view.registered /\ v.delegated = view.delegated
  BY <1>1, FeePaidType
<1>3. HasValidator(em, n)
  BY DEF ExecuteDelegate, DelegateChecks, DelegateUserStakeOk
<1>4. em' = DelegateUserStake(em, n, actor, s, t, x)
  BY DEF ExecuteDelegate
<1>5. \/ view' = v
      \/ /\ CanSubBalance(v.balance, actor, x)
         /\ view' = [v EXCEPT !.balance = b, !.delegated = m]
  BY DEF ExecuteDelegate
<1>6. IsEmission(em') /\ em'.TotalSupply = em.TotalSupply
  <2> HIDE DEF v, key, rec, b, m
  <2> DEFINE g == DelegateUserStake(em, n, actor, s, t, x)
  <2>1. IsEmission(g) /\ g.TotalSupply = em.TotalSupply
    BY <1>1, <1>3, DelegateType
  <2> HIDE DEF g
  <2>2. em' = g
    BY <1>4 DEF g
  <2> QED BY <2>1, <2>2
<1> HIDE DEF v
<1>7. CanSubBalance(v.balance, actor, x) => b \in [Addresses -> Uint64]
  BY <1>1, <1>2, BalanceType
<1>8. IsMap(m, NodeIDs \X Addresses, DelegateRecord)
  <2>1. rec \in DelegateRecord /\ key \in NodeIDs \X Addresses
    BY <1>1 DEF DelegateRecord
  <2>2. IsMap(v.delegated, NodeIDs \X Addresses, DelegateRecord)
    BY <1>2 DEF IsLedger
  <2> HIDE DEF rec, key
  <2> QED BY <2>1, <2>2 DEF IsMap, Put
<1> HIDE DEF b, m
<1>9. ASSUME b \in [Addresses -> Uint64]
      PROVE  LET w == [v EXCEPT !.balance = b, !.delegated = m]
             IN IsLedger(w) /\ w.registered = v.registered /\ w.delegated = m
  BY <1>2, <1>8, <1>9 DEF IsLedger
<1>10. /\ IsLedger(view') /\ view'.registered = view.registered
       /\ view'.delegated = v.delegated \/ view'.delegated = m
  BY <1>2, <1>5, <1>7, <1>9
<1> QED BY <1>2, <1>6, <1>10 DEF TxSafe, m

\* ClaimValidatorStakeRewards and ClaimDelegationStakeRewards pay a reward and
\* change no terms and no records.
LEMMA PayRewardType ==
  ASSUME NEW v, IsLedger(v), NEW a \in Addresses, NEW x \in Uint64
  PROVE  /\ IsLedger(PayReward(v, a, x))
         /\ PayReward(v, a, x).registered = v.registered
         /\ PayReward(v, a, x).delegated = v.delegated
<1> DEFINE b == AddBalance(v.balance, a, x)
<1>1. v.balance \in [Addresses -> Uint64]
  BY DEF IsLedger
<1>2. CanAddBalance(v.balance, a, x) => b \in [Addresses -> Uint64]
  BY <1>1, BalanceType
<1>3. \/ PayReward(v, a, x) = v
      \/ CanAddBalance(v.balance, a, x) /\ PayReward(v, a, x) = [v EXCEPT !.balance = b]
  BY DEF PayReward
<1> HIDE DEF b
<1>4. ASSUME b \in [Addresses -> Uint64]
      PROVE  LET w == [v EXCEPT !.balance = b]
             IN IsLedger(w) /\ w.registered = v.registered /\ w.delegated = v.delegated
  BY <1>4 DEF IsLedger
<1> QED BY <1>2, <1>3, <1>4

\* ClaimValidatorStakeRewards.
LEMMA ClaimValidatorSafe ==
  ASSUME TypeOK, NEW actor \in Addresses, NEW n \in NodeIDs,
         BeginTx(actor), ExecuteClaimValidator(actor, n)
  PROVE  /\ TxSafe /\ SameTerms(em, em')
         /\ view'.registered = view.registered /\ view'.delegated = view.delegated
<1>1. IsEmission(em) /\ CanSubBalance(view.balance, actor, TxFee)
  BY DEF BeginTx, TypeOK
<1> DEFINE v == FeePaid(actor)
           reward == WithdrawReward(em, n)
<1>2. /\ IsLedger(v)
      /\ v.registered = view.registered /\ v.delegated = view.delegated
  BY <1>1, FeePaidType
<1>3. HasValidator(em, n)
  BY DEF ExecuteClaimValidator, ClaimValidatorChecks
<1>4. em' = ClaimValidatorRewards(em, n) /\ view' = PayReward(v, actor, reward)
  BY DEF ExecuteClaimValidator
<1>5. reward \in Uint64
  <2>1. IsValidator(ValidatorOf(em, n))
    BY <1>1, <1>3, ValidatorOfType DEF HasValidator
  <2> QED BY <2>1 DEF IsValidator, WithdrawReward
<1> HIDE DEF v, reward
<1>6. IsEmission(em') /\ SameTerms(em, em') /\ em'.TotalSupply = em.TotalSupply
  BY <1>1, <1>3, <1>4, ClaimType
<1>7. /\ IsLedger(view') /\ view'.registered = v.registered
      /\ view'.delegated = v.delegated
  BY <1>2, <1>4, <1>5, PayRewardType
<1> QED BY <1>2, <1>6, <1>7 DEF TxSafe

\* ClaimDelegationStakeRewards.
LEMMA ClaimDelegationSafe ==
  ASSUME TypeOK, NEW actor \in Addresses, NEW n \in NodeIDs, NEW u \in Addresses,
         BeginTx(actor), ExecuteClaimDelegation(actor, n, u)
  PROVE  /\ TxSafe /\ SameTerms(em, em')
         /\ view'.registered = view.registered /\ view'.delegated = view.delegated
<1>1. IsEmission(em) /\ CanSubBalance(view.balance, actor, TxFee)
  BY DEF BeginTx, TypeOK
<1> DEFINE v == FeePaid(actor)
           reward == CalculateUserDelegationRewards(em, n, u)
<1>2. /\ IsLedger(v)
      /\ v.registered = view.registered /\ v.delegated = view.delegated
  BY <1>1, FeePaidType
<1>3. HasValidator(em, n)
  BY DEF ExecuteClaimDelegation, ClaimDelegationChecks, HasDelegator
<1>4. em' = ClaimDelegatorRewards(em, n, u) /\ view' = PayReward(v, actor, reward)
  BY DEF ExecuteClaimDelegation
<1>5. reward \in Uint64
  BY WrapType DEF CalculateUserDelegationRewards
<1> HIDE DEF v, reward
<1>6. IsEmission(em') /\ SameTerms(em, em') /\ em'.TotalSupply = em.TotalSupply
  BY <1>1, <1>3, <1>4, ClaimType
<1>7. /\ IsLedger(view') /\ view'.registered = v.registered
      /\ view'.delegated = v.delegated
  BY <1>2, <1>4, <1>5, PayRewardType
<1> QED BY <1>2, <1>6, <1>7 DEF TxSafe

\* Every transaction.
LEMMA ExecuteTxSafe ==
  ASSUME TypeOK, ExecuteTx
  PROVE  TxSafe /\ \E actor \in Addresses : BeginTx(actor)
<1>1. PICK actor \in Addresses, n \in NodeIDs :
        \/ \E s, t \in Heights, x \in StakeAmounts, f \in FeeRates,
             r \in RewardAddresses :
             RegisterTx(actor, n, s, t, x, f, r)
        \/ \E r \in RewardAddresses : WithdrawTx(actor, n, r)
        \/ \E s, t \in Heights, x \in StakeAmounts, r \in RewardAddresses :
             DelegateTx(actor, n, s, t, x, r)
        \/ \E r \in RewardAddresses : UndelegateTx(actor, n, r)
        \/ ClaimValidatorTx(actor, n)
        \/ \E u \in Addresses : ClaimDelegationTx(actor, n, u)
  BY DEF ExecuteTx
<1>2. ASSUME NEW s \in Heights, NEW t \in Heights, NEW x \in StakeAmounts,
             NEW f \in FeeRates, NEW r \in RewardAddresses,
             RegisterTx(actor, n, s, t, x, f, r)
      PROVE  TxSafe /\ BeginTx(actor)
  BY <1>2, RegisterSafe, RefuseSafe DEF RegisterTx
<1>3. ASSUME NEW r \in RewardAddresses, WithdrawTx(actor, n, r)
      PROVE  TxSafe /\ BeginTx(actor)
  BY <1>3, WithdrawSafe, RefuseSafe DEF WithdrawTx
<1>4. ASSUME NEW s \in Heights, NEW t \in Heights, NEW x \in StakeAmounts,
             NEW r \in RewardAddresses, DelegateTx(actor, n, s, t, x, r)
      PROVE  TxSafe /\ BeginTx(actor)
  BY <1>4, DelegateSafe, RefuseSafe DEF DelegateTx
<1>5. ASSUME NEW r \in RewardAddresses, UndelegateTx(actor, n, r)
      PROVE  TxSafe /\ BeginTx(actor)
  BY <1>5, UndelegateSafe, RefuseSafe DEF UndelegateTx
<1>6. ASSUME ClaimValidatorTx(actor, n)
      PROVE  TxSafe /\ BeginTx(actor)
  BY <1>6, ClaimValidatorSafe, RefuseSafe DEF ClaimValidatorTx
<1>7. ASSUME NEW u \in Addresses, ClaimDelegationTx(actor, n, u)
      PROVE  TxSafe /\ BeginTx(actor)
  BY <1>7, ClaimDelegationSafe, RefuseSafe DEF ClaimDelegationTx
<1> QED BY <1>1, <1>2, <1>3, <1>4, <1>5, <1>6, <1>7

-----------------------------------------------------------------------------
(* Type correctness.  A block that is being processed leaves room for one  *)
(* more height, without which AcceptBlock would leave Heights.             *)
Typed == TypeOK /\ (block.processing => height < MaxHeight)

\* What the six staking transactions share.
LEMMA TxTyped ==
  ASSUME Typed, ExecuteTx
  PROVE  Typed'
<1>1. TypeOK
  BY DEF Typed
<1>2. IsEmission(em') /\ IsLedger(view')
  BY <1>1, ExecuteTxSafe DEF TxSafe
<1>3. PICK actor \in Addresses : BeginTx(actor)
  BY <1>1, ExecuteTxSafe
<1>4. /\ block' = [block EXCEPT !.txs = @ + 1, !.fees = Wrap(@ + TxFee)]
      /\ block.txs < MaxTxs /\ block.processing
      /\ ledger' = ledger /\ height' = height /\ queue' = queue /\ accepted' = accepted
  BY <1>3 DEF BeginTx
<1>5. /\ block \in [processing : BOOLEAN, txs : 0 .. MaxTxs, fees : Uint64]
      /\ IsLedger(ledger) /\ height \in Heights /\ queue \in Seq(Uint64)
      /\ accepted \in [step : {"fees", "mint", "add"}, minted : Uint64]
  BY <1>1 DEF TypeOK
<1>6. Wrap(block.fees + TxFee) \in Uint64
  BY WrapType
<1>7. /\ block' \in [processing : BOOLEAN, txs : 0 .. MaxTxs, fees : Uint64]
      /\ block'.processing = block.processing
  <2> DEFINE T == 0 .. MaxTxs
             x == block.txs + 1
             y == Wrap(block.fees + TxFee)
  <2>1. x \in T
    BY <1>4, <1>5, StakingAssumption
  <2>2. block \in [processing : BOOLEAN, txs : T, fees : Uint64] /\ y \in Uint64
    BY <1>5, <1>6
  <2>3. block' = [block EXCEPT !.txs = x, !.fees = y]
    BY <1>4
  <2> HIDE DEF T, x, y
  <2>4. /\ block' \in [processing : BOOLEAN, txs : T, fees : Uint64]
        /\ block'.processing = block.processing
    BY <2>1, <2>2, <2>3
  <2> QED BY <2>4 DEF T
<1>8. TypeOK'
  BY <1>2, <1>4, <1>5, <1>7 DEF TypeOK
<1> QED BY <1>4, <1>7, <1>8 DEF Typed

\* The steps of Controller.Accepted.
LEMMA AcceptedTyped ==
  ASSUME Typed, Accepted
  PROVE  /\ Typed' /\ SameTerms(em, em')
         /\ accepted'.step # "add" =>
              em'.TotalSupply = em.TotalSupply \/ em'.TotalSupply <= MaxSupply
         /\ accepted.step = "add" => em'.TotalSupply <= MaxSupply
<1> USE DEF Typed
<1>1. /\ IsEmission(em) /\ IsLedger(ledger) /\ IsLedger(view) /\ height \in Heights
      /\ block \in [processing : BOOLEAN, txs : 0 .. MaxTxs, fees : Uint64]
      /\ queue \in Seq(Uint64)
      /\ accepted \in [step : {"fees", "mint", "add"}, minted : Uint64]
  BY DEF TypeOK
<1>2. Idle \in [step : {"fees", "mint", "add"}, minted : Uint64] /\ Idle.step = "fees"
  BY ZeroType DEF Idle
<1>3. queue # <<>> => Tail(queue) \in Seq(Uint64)
  BY <1>1
<1>4. CASE AcceptedFees
  <2>1. \/ em' = em
        \/ \E order \in MapOrders : em' = DistributeFees(em, Head(queue), height, order)
    BY <1>4 DEF AcceptedFees
  <2>2. IsEmission(em') /\ SameTerms(em, em') /\ em'.TotalSupply = em.TotalSupply
    <3>1. CASE em' = em
      BY <3>1, <1>1 DEF SameTerms
    <3>2. CASE \E order \in MapOrders :
                 em' = DistributeFees(em, Head(queue), height, order)
      BY <3>2, <1>1, FeesType
    <3> QED BY <2>1, <3>1, <3>2
  <2>3. /\ accepted' = [accepted EXCEPT !.step = "mint"] /\ accepted.step = "fees"
        /\ UNCHANGED <<ledger, view, block, height, queue>>
    BY <1>4 DEF AcceptedFees
  <2>4. accepted' \in [step : {"fees", "mint", "add"}, minted : Uint64]
    BY <1>1, <2>3
  <2> QED BY <1>1, <2>2, <2>3, <2>4 DEF TypeOK
<1>5. CASE AcceptedMint
  <2>1. PICK order \in MapOrders : em' = MintNewNAI(em, height, order)
    BY <1>5 DEF AcceptedMint
  <2>2. /\ IsEmission(em') /\ SameTerms(em, em') /\ MintedNAI(em, height) \in Uint64
        /\ MintedNAI(em, height) = 0 => em'.TotalSupply = em.TotalSupply
    BY <1>1, <2>1, MintType
  <2>3. /\ accepted.step = "mint" /\ queue # <<>>
        /\ UNCHANGED <<ledger, view, block, height>>
        /\ \/ /\ accepted' = [step |-> "add", minted |-> MintedNAI(em, height)]
              /\ queue' = queue
           \/ MintedNAI(em, height) = 0 /\ accepted' = Idle /\ queue' = Tail(queue)
    BY <1>5 DEF AcceptedMint
  <2>4. /\ accepted' \in [step : {"fees", "mint", "add"}, minted : Uint64]
        /\ queue' \in Seq(Uint64)
    <3>1. [step |-> "add", minted |-> MintedNAI(em, height)]
            \in [step : {"fees", "mint", "add"}, minted : Uint64]
      BY <2>2
    <3>2. accepted' \in [step : {"fees", "mint", "add"}, minted : Uint64]
      BY <1>2, <2>3, <3>1
    <3>3. queue' = queue \/ queue' = Tail(queue)
      BY <2>3
    <3>4. queue' \in Seq(Uint64)
      BY <1>1, <1>3, <2>3, <3>3
    <3> QED BY <3>2, <3>4
  <2>5. accepted'.step # "add" => em'.TotalSupply = em.TotalSupply
    BY <2>2, <2>3
  <2>6. Typed'
    BY <1>1, <2>2, <2>3, <2>4 DEF TypeOK
  <2> QED BY <2>2, <2>3, <2>5, <2>6
<1>6. CASE AcceptedAdd
  <2>1. /\ em' = AddToTotalSupply(em, accepted.minted) /\ accepted.minted \in Uint64
        /\ queue # <<>> /\ accepted' = Idle /\ queue' = Tail(queue)
        /\ UNCHANGED <<ledger, view, block, height>>
    BY <1>1, <1>6 DEF AcceptedAdd
  <2>2. IsEmission(em') /\ SameTerms(em, em') /\ em'.TotalSupply <= MaxSupply
    BY <1>1, <2>1, AddToTotalSupplyType
  <2> QED BY <1>1, <1>2, <1>3, <2>1, <2>2 DEF TypeOK
<1> QED BY <1>4, <1>5, <1>6 DEF Accepted

\* The balancer and the chain state at genesis.
LEMMA GenesisType ==
  IsEmission(New(GenesisSupply)) /\ New(GenesisSupply).TotalSupply <= MaxSupply
<1>1. GenesisSupply \in Uint64
  BY WrapType DEF GenesisSupply
<1> QED BY <1>1, NewType, GenesisWithinCap

\* The initial state.
LEMMA InitTyped ==
  ASSUME Init
  PROVE  Typed
<1>1. IsEmission(em)
  BY GenesisType DEF Init
<1>2. IsLedger(ledger) /\ view = ledger
  <2>1. /\ IsMap(EmptyMap, NodeIDs, RegisterRecord)
        /\ IsMap(EmptyMap, NodeIDs \X Addresses, DelegateRecord)
    BY EmptyMapType
  <2> QED BY <2>1, StakingAssumption DEF Init, IsLedger
<1>3. /\ block \in [processing : BOOLEAN, txs : 0 .. MaxTxs, fees : Uint64]
      /\ ~ block.processing /\ height \in Heights /\ queue \in Seq(Uint64)
      /\ accepted \in [step : {"fees", "mint", "add"}, minted : Uint64]
  BY ZeroType, EmissionAssumption, StakingAssumption
     DEF Init, NoBlock, Idle, Heights
<1> QED BY <1>1, <1>2, <1>3 DEF Typed, TypeOK

\* Every step keeps the types.
LEMMA NextTyped ==
  ASSUME Typed, [Next]_vars
  PROVE  Typed'
<1> USE DEF Typed
<1>1. /\ IsEmission(em) /\ IsLedger(ledger) /\ IsLedger(view) /\ height \in Heights
      /\ block \in [processing : BOOLEAN, txs : 0 .. MaxTxs, fees : Uint64]
      /\ queue \in Seq(Uint64)
      /\ accepted \in [step : {"fees", "mint", "add"}, minted : Uint64]
  BY DEF TypeOK
<1>2. /\ NoBlock \in [processing : BOOLEAN, txs : 0 .. MaxTxs, fees : Uint64]
      /\ [NoBlock EXCEPT !.processing = TRUE]
           \in [processing : BOOLEAN, txs : 0 .. MaxTxs, fees : Uint64]
      /\ ~ NoBlock.processing
      /\ Idle \in [step : {"fees", "mint", "add"}, minted : Uint64]
  <2>1. 0 \in 0 .. MaxTxs
    BY StakingAssumption
  <2> DEFINE T == 0 .. MaxTxs
  <2> HIDE DEF T
  <2>2. /\ NoBlock \in [processing : BOOLEAN, txs : T, fees : Uint64]
        /\ [NoBlock EXCEPT !.processing = TRUE]
             \in [processing : BOOLEAN, txs : T, fees : Uint64]
        /\ ~ NoBlock.processing
    BY <2>1, ZeroType DEF NoBlock, T
  <2>3. Idle \in [step : {"fees", "mint", "add"}, minted : Uint64]
    BY ZeroType DEF Idle
  <2> QED BY <2>2, <2>3 DEF T
<1>3. CASE NewBlock
  BY <1>1, <1>2, <1>3 DEF NewBlock, TypeOK
<1>4. CASE ExecuteTx
  BY <1>4, TxTyped
<1>5. CASE AcceptBlock
  <2>1. height' \in Heights
    BY <1>1, <1>5, EmissionAssumption DEF AcceptBlock, Heights
  <2>2. queue' \in Seq(Uint64)
    BY <1>1, <1>5 DEF AcceptBlock
  <2>3. /\ ledger' = view /\ view' = view /\ em' = em /\ accepted' = accepted
        /\ block' = NoBlock
    BY <1>5 DEF AcceptBlock
  <2> QED BY <1>1, <1>2, <2>1, <2>2, <2>3 DEF TypeOK
<1>6. CASE RejectBlock
  BY <1>1, <1>2, <1>6 DEF RejectBlock, TypeOK
<1>7. CASE Accepted
  BY <1>7, AcceptedTyped
<1>8. CASE Restart
  <2>1. /\ em' = New(GenesisSupply) /\ view' = ledger /\ block' = NoBlock
        /\ accepted' = Idle /\ ledger' = ledger /\ height' = height
        /\ queue' = <<>> \/ queue' = queue
    BY <1>8 DEF Restart
  <2>2. IsEmission(em')
    BY <2>1, GenesisType
  <2>3. queue' \in Seq(Uint64)
    <3>1. <<>> \in Seq(Uint64) /\ queue \in Seq(Uint64)
      BY <1>1 DEF TypeOK
    <3> QED BY <2>1, <3>1
  <2> QED BY <1>1, <1>2, <2>1, <2>2, <2>3 DEF TypeOK
<1>9. CASE UNCHANGED vars
  BY <1>9 DEF vars, TypeOK
<1> QED BY <1>3, <1>4, <1>5, <1>6, <1>7, <1>8, <1>9 DEF Next, Finished

\* TypeOK holds throughout: the balancer's maps, pointers and uint64 counters,
\* the chain state's records and balances, and the bookkeeping of blocks stay
\* in their types whatever is executed, accepted, rejected or restarted.
THEOREM TypeCorrect == Spec => []TypeOK
<1>1. Init => Typed
  BY InitTyped
<1>2. Typed /\ [Next]_vars => Typed'
  BY NextTyped
<1>3. Typed => TypeOK
  BY DEF Typed
<1> QED BY <1>1, <1>2, <1>3, PTL DEF Spec

-----------------------------------------------------------------------------
\* SupplyWithinCap holds throughout: outside the two steps of a mint the total
\* supply respects the cap, with any lag of the acceptor, any rejected blocks
\* and any restarts.
THEOREM SupplyCapped == Spec => []SupplyWithinCap
<1>1. Init => SupplyWithinCap
  BY GenesisType DEF Init, SupplyWithinCap
<1>2. ASSUME Typed, SupplyWithinCap, [Next]_vars
      PROVE  SupplyWithinCap'
  <2>1. TypeOK
    BY <1>2 DEF Typed
  <2>2. CASE ExecuteTx
    <3>1. PICK actor \in Addresses : BeginTx(actor)
      BY <2>1, <2>2, ExecuteTxSafe
    <3>2. em'.TotalSupply = em.TotalSupply /\ accepted' = accepted
      BY <2>1, <2>2, <3>1, ExecuteTxSafe DEF TxSafe, BeginTx
    <3> QED BY <1>2, <3>2 DEF SupplyWithinCap
  <2>3. CASE Accepted
    <3>1. accepted'.step # "add" =>
            em'.TotalSupply = em.TotalSupply \/ em'.TotalSupply <= MaxSupply
      BY <1>2, <2>3, AcceptedTyped
    <3>2. accepted.step = "add" => em'.TotalSupply <= MaxSupply
      BY <1>2, <2>3, AcceptedTyped
    <3> QED BY <1>2, <3>1, <3>2 DEF SupplyWithinCap
  <2>4. CASE NewBlock \/ AcceptBlock \/ RejectBlock \/ UNCHANGED vars
    BY <1>2, <2>4 DEF NewBlock, AcceptBlock, RejectBlock, vars, SupplyWithinCap
  <2>5. CASE Restart
    BY <2>5, GenesisType DEF Restart, SupplyWithinCap
  <2> QED BY <1>2, <2>2, <2>3, <2>4, <2>5 DEF Next, Finished
<1>3. Spec => []Typed
  BY InitTyped, NextTyped, PTL DEF Spec
<1> QED BY <1>1, <1>2, <1>3, PTL DEF Spec

-----------------------------------------------------------------------------
(* RecordsBacked.  It is not inductive: UndelegateUserStake drops a        *)
(* validator whose StakedAmount is 0, so a record must not have stake 0.   *)
Backed ==
  /\ RecordsBacked
  /\ \A n \in DOMAIN view.registered : view.registered[n].StakedAmount > 0

\* Backing depends on the terms of the stakes only.
LEMMA SameTermsBacked ==
  ASSUME NEW e, IsEmission(e), NEW g, SameTerms(e, g), NEW n, NEW a, NEW rec
  PROVE  /\ RegistrationBacked(e, n, rec) => RegistrationBacked(g, n, rec)
         /\ DelegationBacked(e, n, a, rec) => DelegationBacked(g, n, a, rec)
<1>1. SUFFICES ASSUME HasValidator(e, n)
               PROVE  /\ RegistrationBacked(e, n, rec) => RegistrationBacked(g, n, rec)
                      /\ DelegationBacked(e, n, a, rec) => DelegationBacked(g, n, a, rec)
  BY DEF RegistrationBacked, DelegationBacked, HasDelegator
<1> DEFINE r == e.validators[n]
<1>2. r \in DOMAIN e.heap
  BY <1>1 DEF HasValidator, IsEmission, IsMap
<1>3. ValidatorOf(e, n) = e.heap[r] /\ ValidatorOf(g, n) = g.heap[r] /\ HasValidator(g, n)
  BY <1>1 DEF SameTerms, ValidatorOf, HasValidator
<1> HIDE DEF r
<1>4. /\ g.heap[r].StakedAmount = e.heap[r].StakedAmount
      /\ DOMAIN g.heap[r].delegators = DOMAIN e.heap[r].delegators
      /\ \A x \in DOMAIN e.heap[r].delegators :
           LET c == e.heap[r].delegators[x]
               d == g.heap[r].delegators[x]
           IN /\ d.StakedAmount = c.StakedAmount
              /\ d.StakeStartBlock = c.StakeStartBlock
              /\ d.StakeEndBlock = c.StakeEndBlock
  BY <1>2 DEF SameTerms
<1>5. RegistrationBacked(e, n, rec) => RegistrationBacked(g, n, rec)
  BY <1>3, <1>4 DEF RegistrationBacked
<1>6. DelegationBacked(e, n, a, rec) => DelegationBacked(g, n, a, rec)
  BY <1>3, <1>4 DEF DelegationBacked, HasDelegator
<1> QED BY <1>5, <1>6

\* A step that changes no terms and no records.
LEMMA SameTermsKeepsBacked ==
  ASSUME TypeOK, Backed, SameTerms(em, em'),
         view'.registered = view.registered, view'.delegated = view.delegated
  PROVE  Backed'
<1>1. IsEmission(em)
  BY DEF TypeOK
<1>2. \A n \in DOMAIN view.registered : RegistrationBacked(em', n, view.registered[n])
  BY <1>1, SameTermsBacked DEF Backed, RecordsBacked
<1>3. \A k \in DOMAIN view.delegated :
        DelegationBacked(em', k[1], k[2], view.delegated[k])
  BY <1>1, SameTermsBacked DEF Backed, RecordsBacked
<1> QED BY <1>2, <1>3 DEF Backed, RecordsBacked

\* Backing depends on the node's validator only.
LEMMA OtherBacked ==
  ASSUME NEW e, NEW g, NEW n, HasValidator(g, n), ValidatorOf(g, n) = ValidatorOf(e, n),
         NEW a, NEW rec
  PROVE  /\ RegistrationBacked(e, n, rec) => RegistrationBacked(g, n, rec)
         /\ DelegationBacked(e, n, a, rec) => DelegationBacked(g, n, a, rec)
  BY DEF RegistrationBacked, DelegationBacked, HasDelegator

\* A refused transaction touches no record.
LEMMA RefuseBacked ==
  ASSUME TypeOK, Backed, NEW actor \in Addresses, BeginTx(actor), Refuse(actor)
  PROVE  Backed'
<1>1. /\ em' = em /\ view'.registered = view.registered
      /\ view'.delegated = view.delegated
  BY FeePaidType DEF Refuse, BeginTx
<1>2. SameTerms(em, em')
  BY <1>1 DEF SameTerms
<1> QED BY <1>1, <1>2, SameTermsKeepsBacked

\* A registration that cannot be paid for leaves a validator without a record
\* behind, never a record without a validator.
LEMMA RegisterBacked ==
  ASSUME TypeOK, Backed, NEW actor \in Addresses, NEW n \in NodeIDs,
         NEW s \in Heights, NEW t \in Heights, NEW x \in StakeAmounts,
         NEW f \in FeeRates, NEW r \in RewardAddresses, BeginTx(actor),
         ExecuteRegister(actor, n, s, t, x, f, r)
  PROVE  Backed'
<1> DEFINE rec == [StakeEndBlock |-> t, StakedAmount |-> x,
                   RewardAddress |-> r, OwnerAddress |-> actor]
<1>1. /\ IsEmission(em) /\ x \in Uint64 /\ f \in Percent
      /\ em' = RegisterValidatorStake(em, n, s, t, x, f)
  <2>1. IsEmission(em)
    BY DEF TypeOK
  <2>2. x \in Uint64
    BY StakingAssumption
  <2>3. f \in Percent
    BY StakingAssumption DEF ExecuteRegister, RegisterChecks, Percent
  <2>4. em' = RegisterValidatorStake(em, n, s, t, x, f)
    BY DEF ExecuteRegister
  <2> QED BY <2>1, <2>2, <2>3, <2>4
<1>2. n \notin DOMAIN view.registered /\ x > 0
  <2>1. n \notin DOMAIN FeePaid(actor).registered /\ x >= MinValidatorStake
    BY DEF ExecuteRegister, RegisterChecks
  <2>2. FeePaid(actor).registered = view.registered
    BY FeePaidType DEF BeginTx
  <2>3. x \in Nat
    BY <1>1, EmissionAssumption DEF Uint64
  <2> QED BY <2>1, <2>2, <2>3, StakingAssumption
<1>3. /\ DOMAIN em'.validators = DOMAIN em.validators \cup {n}
      /\ ValidatorOf(em', n).StakedAmount = x
      /\ HasValidator(em, n) =>
           ValidatorOf(em', n).delegators = ValidatorOf(em, n).delegators
      /\ \A m \in DOMAIN em.validators \ {n} : ValidatorOf(em', m) = ValidatorOf(em, m)
  <2> DEFINE g == RegisterValidatorStake(em, n, s, t, x, f)
  <2>1. /\ DOMAIN g.validators = DOMAIN em.validators \cup {n}
        /\ ValidatorOf(g, n).StakedAmount = x
        /\ HasValidator(em, n) =>
             ValidatorOf(g, n).delegators = ValidatorOf(em, n).delegators
        /\ \A m \in DOMAIN em.validators \ {n} : ValidatorOf(g, m) = ValidatorOf(em, m)
    BY <1>1, RegisterType
  <2> HIDE DEF g
  <2>2. em' = g
    BY <1>1 DEF g
  <2> QED BY <2>1, <2>2
<1>4. /\ view'.delegated = view.delegated
      /\ view'.registered = view.registered \/ view'.registered = Put(view.registered, n, rec)
  BY RegisterSafe
<1>5. rec.StakedAmount = x
  OBVIOUS
<1> HIDE DEF rec
<1>6. ASSUME NEW m \in DOMAIN view.registered
      PROVE  RegistrationBacked(em', m, view.registered[m])
  <2>1. RegistrationBacked(em, m, view.registered[m]) /\ m # n
    BY <1>2 DEF Backed, RecordsBacked
  <2>2. HasValidator(em', m) /\ ValidatorOf(em', m) = ValidatorOf(em, m)
    BY <1>3, <2>1 DEF RegistrationBacked, HasValidator
  <2> QED BY <2>1, <2>2, OtherBacked
<1>7. RegistrationBacked(em', n, rec)
  BY <1>3, <1>5 DEF RegistrationBacked, HasValidator
<1>8. ASSUME NEW k \in DOMAIN view.delegated
      PROVE  DelegationBacked(em', k[1], k[2], view.delegated[k])
  <2>1. DelegationBacked(em, k[1], k[2], view.delegated[k])
    BY DEF Backed, RecordsBacked
  <2>2. HasValidator(em, k[1]) /\ HasValidator(em', k[1])
    BY <1>3, <2>1 DEF DelegationBacked, HasDelegator, HasValidator
  <2>3. ValidatorOf(em', k[1]).delegators = ValidatorOf(em, k[1]).delegators
    BY <1>3, <2>2 DEF HasValidator
  <2> QED BY <2>1, <2>2, <2>3 DEF DelegationBacked, HasDelegator
<1>9. \A m \in DOMAIN view'.registered :
        RegistrationBacked(em', m, view'.registered[m]) /\ view'.registered[m].StakedAmount > 0
  BY <1>2, <1>4, <1>5, <1>6, <1>7 DEF Backed, Put
<1> QED BY <1>4, <1>8, <1>9 DEF Backed, RecordsBacked

\* A delegation that cannot be paid for leaves a delegator without a record.
LEMMA DelegateBacked ==
  ASSUME TypeOK, Backed, NEW actor \in Addresses, NEW n \in NodeIDs,
         NEW s \in Heights, NEW t \in Heights, NEW x \in StakeAmounts,
         NEW r \in RewardAddresses, BeginTx(actor),
         ExecuteDelegate(actor, n, s, t, x, r)
  PROVE  Backed'
<1> DEFINE rec == [StakeStartBlock |-> s, StakeEndBlock |-> t,
                   StakedAmount |-> x, RewardAddress |-> r]
           key == <<n, actor>>
           d == NewDelegator(s, t, x)
<1>1. /\ IsEmission(em) /\ x \in Uint64 /\ HasValidator(em, n)
      /\ ~ HasDelegator(em, n, actor)
      /\ em' = DelegateUserStake(em, n, actor, s, t, x)
  BY StakingAssumption DEF TypeOK, ExecuteDelegate, DelegateChecks, DelegateUserStakeOk
<1>2. /\ view'.registered = view.registered
      /\ view'.delegated = view.delegated \/ view'.delegated = Put(view.delegated, key, rec)
  BY DelegateSafe
<1>3. /\ d.StakedAmount = rec.StakedAmount /\ d.StakeStartBlock = rec.StakeStartBlock
      /\ d.StakeEndBlock = rec.StakeEndBlock /\ key[1] = n /\ key[2] = actor
  BY DEF NewDelegator
<1> HIDE DEF rec, key
<1>4. /\ em'.validators = em.validators
      /\ ValidatorOf(em', n).StakedAmount = ValidatorOf(em, n).StakedAmount
      /\ ValidatorOf(em', n).delegators = Put(ValidatorOf(em, n).delegators, actor, d)
      /\ \A m \in DOMAIN em.validators \ {n} : ValidatorOf(em', m) = ValidatorOf(em, m)
  <2> DEFINE g == DelegateUserStake(em, n, actor, s, t, x)
  <2>1. /\ g.validators = em.validators
        /\ ValidatorOf(g, n).StakedAmount = ValidatorOf(em, n).StakedAmount
        /\ ValidatorOf(g, n).delegators = Put(ValidatorOf(em, n).delegators, actor, d)
        /\ \A m \in DOMAIN em.validators \ {n} : ValidatorOf(g, m) = ValidatorOf(em, m)
    BY <1>1, DelegateType
  <2> HIDE DEF g, d
  <2>2. em' = g
    BY <1>1 DEF g
  <2> QED BY <2>1, <2>2
<1> HIDE DEF d
<1>5. ASSUME NEW m \in DOMAIN view.registered
      PROVE  RegistrationBacked(em', m, view.registered[m])
  <2>1. RegistrationBacked(em, m, view.registered[m])
    BY DEF Backed, RecordsBacked
  <2> QED BY <1>4, <2>1 DEF RegistrationBacked, HasValidator
<1>6. ASSUME NEW k \in DOMAIN view.delegated
      PROVE  DelegationBacked(em', k[1], k[2], view.delegated[k])
  <2>1. DelegationBacked(em, k[1], k[2], view.delegated[k])
    BY DEF Backed, RecordsBacked
  <2>2. HasValidator(em', k[1]) /\ HasValidator(em, k[1])
    BY <1>4, <2>1 DEF DelegationBacked, HasDelegator, HasValidator
  <2>3. CASE k[1] # n
    BY <1>4, <2>1, <2>2, <2>3, OtherBacked DEF HasValidator
  <2>4. CASE k[1] = n
    <3>1. k[2] # actor
      BY <1>1, <2>1, <2>4 DEF DelegationBacked
    <3>2. /\ k[2] \in DOMAIN ValidatorOf(em', n).delegators
          /\ ValidatorOf(em', n).delegators[k[2]] = ValidatorOf(em, n).delegators[k[2]]
      BY <1>4, <2>1, <2>4, <3>1 DEF DelegationBacked, HasDelegator, Put
    <3> QED BY <2>1, <2>2, <2>4, <3>2 DEF DelegationBacked, HasDelegator
  <2> QED BY <2>3, <2>4
<1>7. DelegationBacked(em', n, actor, rec)
  <2>1. /\ actor \in DOMAIN ValidatorOf(em', n).delegators
        /\ ValidatorOf(em', n).delegators[actor] = d
    BY <1>4 DEF Put
  <2> QED BY <1>1, <1>3, <1>4, <2>1 DEF DelegationBacked, HasDelegator, HasValidator
<1>8. \A k \in DOMAIN view'.delegated :
        DelegationBacked(em', k[1], k[2], view'.delegated[k])
  BY <1>2, <1>3, <1>6, <1>7 DEF Put
<1> QED BY <1>2, <1>5, <1>8 DEF Backed, RecordsBacked

\* With room in every balance a pay-out cannot overflow.
LEMMA RoomToPayOut ==
  ASSUME TypeOK, NEW actor \in Addresses, CanSubBalance(view.balance, actor, TxFee),
         NEW r \in Addresses, NEW x \in Uint64, NEW y \in Uint64, NEW z \in Uint64,
         x <= z, \A a \in Addresses : view.balance[a] + (z + y) < Word
  PROVE  CanPayOut(FeePaid(actor).balance, r, x, actor, y)
<1> DEFINE b == FeePaid(actor).balance
<1>1. /\ view.balance \in [Addresses -> Uint64] /\ b \in [Addresses -> Uint64]
  BY FeePaidType DEF TypeOK, IsLedger
<1>2. b = SubBalance(view.balance, actor, TxFee)
  BY DEF FeePaid, TypeOK, IsLedger
<1>3. TxFee \in Nat /\ Word \in Nat /\ x \in Nat /\ y \in Nat /\ z \in Nat
  BY StakingAssumption, EmissionAssumption DEF Uint64
<1>4. \A a \in Addresses : b[a] \in Nat /\ view.balance[a] \in Nat
  BY <1>1, EmissionAssumption DEF Uint64
<1>5. \A a \in Addresses : b[a] <= view.balance[a]
  BY <1>1, <1>2, <1>3, <1>4 DEF SubBalance
<1> HIDE DEF b
<1>6. \A a \in Addresses : b[a] + (x + y) < Word
  BY <1>3, <1>4, <1>5
<1>7. CanAddBalance(b, r, x)
  BY <1>3, <1>4, <1>6 DEF CanAddBalance
<1>8. CanAddBalance(AddBalance(b, r, x), actor, y)
  BY <1>1, <1>3, <1>4, <1>6 DEF CanAddBalance, AddBalance
<1> QED BY <1>7, <1>8 DEF CanPayOut, b

\* A withdrawal gives the stake back together with its record.
LEMMA WithdrawBacked ==
  ASSUME TypeOK, Headroom, Backed, NEW actor \in Addresses, NEW n \in NodeIDs,
         NEW r \in RewardAddresses, BeginTx(actor), ExecuteWithdraw(actor, n, r)
  PROVE  Backed'
<1> DEFINE v == FeePaid(actor)
           stake == v.registered[n].StakedAmount
           reward == WithdrawReward(em, n)
<1>1. IsEmission(em) /\ CanSubBalance(view.balance, actor, TxFee) /\ r \in Addresses
  BY StakingAssumption DEF BeginTx, TypeOK
<1>2. /\ IsLedger(v)
      /\ v.registered = view.registered /\ v.delegated = view.delegated
  BY <1>1, FeePaidType
<1>3. n \in DOMAIN view.registered /\ HasValidator(em, n)
  BY <1>2 DEF ExecuteWithdraw, WithdrawChecks
<1>4. em' = WithdrawValidatorStake(em, n)
  BY DEF ExecuteWithdraw
<1>5. CanPayOut(v.balance, r, reward, actor, stake) =>
        view' = [v EXCEPT !.balance = PayOut(v.balance, r, reward, actor, stake),
                          !.registered = Delete(v.registered, n)]
  BY DEF ExecuteWithdraw
<1>6. stake \in Uint64 /\ stake = view.registered[n].StakedAmount
  BY <1>2, <1>3 DEF IsLedger, IsMap, RegisterRecord
<1>7. reward \in Uint64
  <2>1. IsValidator(ValidatorOf(em, n))
    BY <1>1, <1>3, ValidatorOfType DEF HasValidator
  <2> QED BY <2>1 DEF IsValidator, WithdrawReward
<1>8. \A a \in Addresses : view.balance[a] + (reward + stake) < Word
  BY <1>3, <1>6 DEF Headroom, HasValidator
<1>9. CanPayOut(v.balance, r, reward, actor, stake)
  <2>1. reward <= reward
    BY <1>7, EmissionAssumption DEF Uint64
  <2> HIDE DEF stake, reward
  <2> QED BY <1>1, <1>6, <1>7, <1>8, <2>1, RoomToPayOut
<1>10. view'.registered = Delete(view.registered, n) /\ view'.delegated = view.delegated
  <2> DEFINE b == PayOut(v.balance, r, reward, actor, stake)
             m == Delete(v.registered, n)
  <2>1. view' = [v EXCEPT !.balance = b, !.registered = m]
    BY <1>5, <1>9
  <2> HIDE DEF b, m, v
  <2>2. view'.registered = m /\ view'.delegated = v.delegated
    BY <1>2, <2>1 DEF IsLedger
  <2> QED BY <1>2, <2>2 DEF m
<1> HIDE DEF v, stake, reward
<1>11. /\ em'.validators = em.validators
       /\ ValidatorOf(em', n).delegators = ValidatorOf(em, n).delegators
       /\ \A m \in DOMAIN em.validators \ {n} : ValidatorOf(em', m) = ValidatorOf(em, m)
  BY <1>1, <1>3, <1>4, WithdrawType
<1>12. ASSUME NEW m \in DOMAIN view.registered \ {n}
       PROVE  RegistrationBacked(em', m, view.registered[m])
  <2>1. RegistrationBacked(em, m, view.registered[m])
    BY DEF Backed, RecordsBacked
  <2> QED BY <1>11, <2>1 DEF RegistrationBacked, HasValidator
<1>13. ASSUME NEW k \in DOMAIN view.delegated
       PROVE  DelegationBacked(em', k[1], k[2], view.delegated[k])
  <2>1. DelegationBacked(em, k[1], k[2], view.delegated[k])
    BY DEF Backed, RecordsBacked
  <2>2. HasValidator(em, k[1]) /\ HasValidator(em', k[1])
    BY <1>11, <2>1 DEF DelegationBacked, HasDelegator, HasValidator
  <2>3. ValidatorOf(em', k[1]).delegators = ValidatorOf(em, k[1]).delegators
    BY <1>11, <2>2 DEF HasValidator
  <2> QED BY <2>1, <2>2, <2>3 DEF DelegationBacked, HasDelegator
<1>14. \A m \in DOMAIN view'.registered :
         RegistrationBacked(em', m, view'.registered[m]) /\ view'.registered[m].StakedAmount > 0
  BY <1>10, <1>12 DEF Backed, Delete
<1> QED BY <1>10, <1>13, <1>14 DEF Backed, RecordsBacked

\* Undelegating gives the stake back together with its record, and drops the
\* validator only if neither a record nor another delegator needs it.
LEMMA UndelegateBacked ==
  ASSUME TypeOK, Headroom, Backed, NEW actor \in Addresses, NEW n \in NodeIDs,
         NEW r \in RewardAddresses, BeginTx(actor), ExecuteUndelegate(actor, n, r)
  PROVE  Backed'
<1> DEFINE v == FeePaid(actor)
           key == <<n, actor>>
           stake == v.delegated[key].StakedAmount
           reward == UndelegateReward(em, n, actor)
           full == CalculateUserDelegationRewards(em, n, actor)
<1>1. IsEmission(em) /\ CanSubBalance(view.balance, actor, TxFee) /\ r \in Addresses
  BY StakingAssumption DEF BeginTx, TypeOK
<1>2. /\ IsLedger(v)
      /\ v.registered = view.registered /\ v.delegated = view.delegated
  BY <1>1, FeePaidType
<1>3. key \in DOMAIN view.delegated /\ HasDelegator(em, n, actor)
  BY <1>2 DEF ExecuteUndelegate, UndelegateChecks
<1>4. em' = UndelegateUserStake(em, n, actor)
  BY DEF ExecuteUndelegate
<1>5. CanPayOut(v.balance, r, reward, actor, stake) =>
        view' = [v EXCEPT !.balance = PayOut(v.balance, r, reward, actor, stake),
                          !.delegated = Delete(v.delegated, key)]
  BY DEF ExecuteUndelegate
<1>6. stake \in Uint64 /\ stake = view.delegated[key].StakedAmount
  <2> HIDE DEF key
  <2> QED BY <1>2, <1>3 DEF IsLedger, IsMap, DelegateRecord
<1>7. reward \in Uint64 /\ full \in Uint64 /\ reward <= full
  <2>1. IsValidator(ValidatorOf(em, n))
    BY <1>1, <1>3, ValidatorOfType DEF HasValidator, HasDelegator
  <2>2. ValidatorOf(em, n).AccumulatedDelegatedReward \in Uint64
    BY <2>1 DEF IsValidator
  <2>3. full \in Uint64
    BY WrapType DEF CalculateUserDelegationRewards
  <2> HIDE DEF full
  <2>4. reward = IF full > ValidatorOf(em, n).AccumulatedDelegatedReward
                   THEN ValidatorOf(em, n).AccumulatedDelegatedReward ELSE full
    BY DEF UndelegateReward, full
  <2> QED BY <2>2, <2>3, <2>4, EmissionAssumption DEF Uint64
<1>8. \A a \in Addresses : view.balance[a] + (full + stake) < Word
  BY <1>3, <1>6 DEF Headroom, HasDelegator, HasValidator
<1>9. CanPayOut(v.balance, r, reward, actor, stake)
  <2> HIDE DEF stake, reward, full
  <2> QED BY <1>1, <1>6, <1>7, <1>8, RoomToPayOut
<1>10. view'.delegated = Delete(view.delegated, key) /\ view'.registered = view.registered
  <2> DEFINE b == PayOut(v.balance, r, reward, actor, stake)
             m == Delete(v.delegated, key)
  <2>1. view' = [v EXCEPT !.balance = b, !.delegated = m]
    BY <1>5, <1>9
  <2> HIDE DEF b, m, v
  <2>2. view'.delegated = m /\ view'.registered = v.registered
    BY <1>2, <2>1 DEF IsLedger
  <2> QED BY <1>2, <2>2 DEF m
<1> HIDE DEF v, stake, reward, full
<1>11. /\ \A m \in DOMAIN em.validators \ {n} :
            HasValidator(em', m) /\ ValidatorOf(em', m) = ValidatorOf(em, m)
       /\ \/ /\ HasValidator(em', n)
             /\ ValidatorOf(em', n).StakedAmount = ValidatorOf(em, n).StakedAmount
             /\ ValidatorOf(em', n).delegators = Delete(ValidatorOf(em, n).delegators, actor)
          \/ /\ ValidatorOf(em, n).StakedAmount = 0
             /\ DOMAIN ValidatorOf(em, n).delegators = {actor}
  BY <1>1, <1>3, <1>4, UndelegateType
<1>12. ASSUME NEW m \in DOMAIN view.registered
       PROVE  RegistrationBacked(em', m, view.registered[m])
  <2>1. RegistrationBacked(em, m, view.registered[m]) /\ view.registered[m].StakedAmount > 0
    BY DEF Backed, RecordsBacked
  <2>2. CASE m # n
    BY <1>11, <2>1, <2>2, OtherBacked DEF RegistrationBacked, HasValidator
  <2>3. CASE m = n
    BY <1>11, <2>1, <2>3 DEF RegistrationBacked
  <2> QED BY <2>2, <2>3
<1>13. ASSUME NEW k \in DOMAIN view.delegated \ {key}
       PROVE  DelegationBacked(em', k[1], k[2], view.delegated[k])
  <2>1. DelegationBacked(em, k[1], k[2], view.delegated[k])
    BY DEF Backed, RecordsBacked
  <2>2. k \in NodeIDs \X Addresses
    BY DEF TypeOK, IsLedger, IsMap
  <2>3. CASE k[1] # n
    BY <1>11, <2>1, <2>3, OtherBacked DEF DelegationBacked, HasDelegator, HasValidator
  <2>4. CASE k[1] = n
    <3>1. k[2] # actor
      BY <2>2, <2>4
    <3>2. HasDelegator(em, n, k[2])
      BY <2>1, <2>4 DEF DelegationBacked
    <3>3. /\ HasValidator(em', n)
          /\ ValidatorOf(em', n).delegators = Delete(ValidatorOf(em, n).delegators, actor)
      BY <1>11, <3>1, <3>2 DEF HasDelegator
    <3>4. /\ k[2] \in DOMAIN ValidatorOf(em', n).delegators
          /\ ValidatorOf(em', n).delegators[k[2]] = ValidatorOf(em, n).delegators[k[2]]
      BY <3>1, <3>2, <3>3 DEF HasDelegator, Delete
    <3> QED BY <2>1, <2>4, <3>3, <3>4 DEF DelegationBacked, HasDelegator
  <2> QED BY <2>3, <2>4
<1>14. \A k \in DOMAIN view'.delegated :
         DelegationBacked(em', k[1], k[2], view'.delegated[k])
  <2> HIDE DEF key
  <2> QED BY <1>10, <1>13 DEF Delete
<1> QED BY <1>10, <1>12, <1>14 DEF Backed, RecordsBacked

\* Every transaction keeps the records backed.
LEMMA ExecuteTxBacked ==
  ASSUME TypeOK, Headroom, Backed, ExecuteTx
  PROVE  Backed'
<1>1. PICK actor \in Addresses, n \in NodeIDs :
        \/ \E s, t \in Heights, x \in StakeAmounts, f \in FeeRates,
             r \in RewardAddresses :
             RegisterTx(actor, n, s, t, x, f, r)
        \/ \E r \in RewardAddresses : WithdrawTx(actor, n, r)
        \/ \E s, t \in Heights, x \in StakeAmounts, r \in RewardAddresses :
             DelegateTx(actor, n, s, t, x, r)
        \/ \E r \in RewardAddresses : UndelegateTx(actor, n, r)
        \/ ClaimValidatorTx(actor, n)
        \/ \E u \in Addresses : ClaimDelegationTx(actor, n, u)
  BY DEF ExecuteTx
<1>2. ASSUME NEW s \in Heights, NEW t \in Heights, NEW x \in StakeAmounts,
             NEW f \in FeeRates, NEW r \in RewardAddresses,
             RegisterTx(actor, n, s, t, x, f, r)
      PROVE  Backed'
  BY <1>2, RegisterBacked, RefuseBacked DEF RegisterTx
<1>3. ASSUME NEW r \in RewardAddresses, WithdrawTx(actor, n, r)
      PROVE  Backed'
  BY <1>3, WithdrawBacked, RefuseBacked DEF WithdrawTx
<1>4. ASSUME NEW s \in Heights, NEW t \in Heights, NEW x \in StakeAmounts,
             NEW r \in RewardAddresses, DelegateTx(actor, n, s, t, x, r)
      PROVE  Backed'
  BY <1>4, DelegateBacked, RefuseBacked DEF DelegateTx
<1>5. ASSUME NEW r \in RewardAddresses, UndelegateTx(actor, n, r)
      PROVE  Backed'
  BY <1>5, UndelegateBacked, RefuseBacked DEF UndelegateTx
<1>6. ASSUME ClaimValidatorTx(actor, n)
      PROVE  Backed'
  BY <1>6, ClaimValidatorSafe, SameTermsKeepsBacked, RefuseBacked DEF ClaimValidatorTx
<1>7. ASSUME NEW u \in Addresses, ClaimDelegationTx(actor, n, u)
      PROVE  Backed'
  BY <1>7, ClaimDelegationSafe, SameTermsKeepsBacked, RefuseBacked DEF ClaimDelegationTx
<1> QED BY <1>1, <1>2, <1>3, <1>4, <1>5, <1>6, <1>7

\* On a node that rejects no block and is never restarted, and as long as no
\* pay-out would overflow a balance, every stake of the chain state is known to
\* the balancer under the same terms, however far Controller.Accepted lags.
THEOREM StakesBacked ==
  ASSUME ~ MayReject, ~ MayRestart
  PROVE  Spec /\ []Headroom => []RecordsBacked
<1>1. Init => Backed
  BY EmptyMapType DEF Init, Backed, RecordsBacked
<1>2. ASSUME Typed, Headroom, Backed, [Next]_vars
      PROVE  Backed'
  <2>1. TypeOK
    BY <1>2 DEF Typed
  <2>2. CASE ExecuteTx
    BY <1>2, <2>1, <2>2, ExecuteTxBacked
  <2>3. CASE Accepted
    <3>1. SameTerms(em, em')
      BY <1>2, <2>3, AcceptedTyped
    <3>2. view' = view
      BY <2>3 DEF Accepted, AcceptedFees, AcceptedMint, AcceptedAdd
    <3> QED BY <1>2, <2>1, <3>1, <3>2, SameTermsKeepsBacked
  <2>4. CASE NewBlock \/ AcceptBlock \/ UNCHANGED vars
    <3>1. em' = em /\ view' = view
      BY <2>4 DEF NewBlock, AcceptBlock, vars
    <3> QED BY <1>2, <3>1 DEF Backed, RecordsBacked
  <2>5. ~ RejectBlock /\ ~ Restart
    BY DEF RejectBlock, Restart
  <2> QED BY <1>2, <2>2, <2>3, <2>4, <2>5 DEF Next, Finished
<1>3. Spec => []Typed
  BY InitTyped, NextTyped, PTL DEF Spec
<1>4. Backed => RecordsBacked
  BY DEF Backed
<1> QED BY <1>1, <1>2, <1>3, <1>4, PTL DEF Spec

-----------------------------------------------------------------------------
(* Money: what a transaction does to the balances, to the stakes of the    *)
(* records and to the reward pools.                                        *)

\* A balance changes and the total with it.
LEMMA BalanceSum ==
  ASSUME NEW b \in [Addresses -> Uint64], NEW c \in [Addresses -> Uint64],
         NEW a \in Addresses, \A x \in Addresses \ {a} : c[x] = b[x]
  PROVE  SumFunctionOnSet(c, Addresses) = SumFunctionOnSet(b, Addresses) + (c[a] - b[a])
<1>1. IsFiniteSet(Addresses) /\ \A x \in Addresses : b[x] \in Int /\ c[x] \in Int
  BY EmissionAssumption DEF Uint64
<1>2. SumFunctionOnSet(c, Addresses) = SumFunctionOnSet(b, Addresses) - b[a] + c[a]
  BY <1>1, SumUpdate
<1>3. SumFunctionOnSet(b, Addresses) \in Int
  BY <1>1, SumInt
<1> QED BY <1>1, <1>2, <1>3

\* SubBalance and AddBalance.
LEMMA BalanceMoved ==
  ASSUME NEW b \in [Addresses -> Uint64], NEW a \in Addresses, NEW x \in Uint64
  PROVE  /\ SumFunctionOnSet(b, Addresses) \in Int
         /\ CanSubBalance(b, a, x) =>
              SumFunctionOnSet(SubBalance(b, a, x), Addresses)
                = SumFunctionOnSet(b, Addresses) - x
         /\ CanAddBalance(b, a, x) =>
              SumFunctionOnSet(AddBalance(b, a, x), Addresses)
                = SumFunctionOnSet(b, Addresses) + x
<1>1. b[a] \in Int /\ x \in Int /\ \A y \in Addresses : b[y] \in Int
  BY EmissionAssumption DEF Uint64
<1>2. SumFunctionOnSet(b, Addresses) \in Int
  BY <1>1, SumInt, EmissionAssumption
<1>3. ASSUME CanSubBalance(b, a, x)
      PROVE  SumFunctionOnSet(SubBalance(b, a, x), Addresses)
               = SumFunctionOnSet(b, Addresses) - x
  <2> DEFINE c == SubBalance(b, a, x)
  <2>1. c \in [Addresses -> Uint64]
    BY <1>3, BalanceType
  <2>2. c[a] - b[a] = -x /\ \A y \in Addresses \ {a} : c[y] = b[y]
    BY <1>1 DEF SubBalance
  <2> HIDE DEF c
  <2>3. SumFunctionOnSet(c, Addresses) = SumFunctionOnSet(b, Addresses) + (c[a] - b[a])
    BY <2>1, <2>2, BalanceSum
  <2>4. SumFunctionOnSet(c, Addresses) = SumFunctionOnSet(b, Addresses) - x
    BY <1>1, <1>2, <2>2, <2>3
  <2> QED BY <2>4 DEF c
<1>4. ASSUME CanAddBalance(b, a, x)
      PROVE  SumFunctionOnSet(AddBalance(b, a, x), Addresses)
               = SumFunctionOnSet(b, Addresses) + x
  <2> DEFINE c == AddBalance(b, a, x)
  <2>1. c \in [Addresses -> Uint64]
    BY <1>4, BalanceType
  <2>2. c[a] - b[a] = x /\ \A y \in Addresses \ {a} : c[y] = b[y]
    BY <1>1 DEF AddBalance
  <2> HIDE DEF c
  <2>3. SumFunctionOnSet(c, Addresses) = SumFunctionOnSet(b, Addresses) + (c[a] - b[a])
    BY <2>1, <2>2, BalanceSum
  <2>4. SumFunctionOnSet(c, Addresses) = SumFunctionOnSet(b, Addresses) + x
    BY <2>2, <2>3
  <2> QED BY <2>4 DEF c
<1> QED BY <1>2, <1>3, <1>4

\* A reward and a stake reach the balances together.
LEMMA PayOutMoved ==
  ASSUME NEW b \in [Addresses -> Uint64], NEW r \in Addresses, NEW x \in Uint64,
         NEW a \in Addresses, NEW y \in Uint64, CanPayOut(b, r, x, a, y)
  PROVE  SumFunctionOnSet(PayOut(b, r, x, a, y), Addresses)
           = SumFunctionOnSet(b, Addresses) + x + y
<1> DEFINE c == AddBalance(b, r, x)
<1>1. CanAddBalance(b, r, x) /\ CanAddBalance(c, a, y)
  BY DEF CanPayOut
<1>2. c \in [Addresses -> Uint64]
  BY <1>1, BalanceType
<1>3. SumFunctionOnSet(c, Addresses) = SumFunctionOnSet(b, Addresses) + x
  BY <1>1, BalanceMoved
<1>4. PayOut(b, r, x, a, y) = AddBalance(c, a, y)
  BY DEF PayOut
<1> HIDE DEF c
<1>5. SumFunctionOnSet(AddBalance(c, a, y), Addresses) = SumFunctionOnSet(c, Addresses) + y
  BY <1>1, <1>2, BalanceMoved
<1> QED BY <1>3, <1>4, <1>5

\* The stakes of a set of records.
HasStakes(m) == IsFiniteSet(DOMAIN m) /\ \A k \in DOMAIN m : m[k].StakedAmount \in Int

\* A record is made.
LEMMA StakedPut ==
  ASSUME NEW m, HasStakes(m), NEW k, k \notin DOMAIN m, NEW rec, rec.StakedAmount \in Int
  PROVE  Staked(Put(m, k, rec)) = Staked(m) + rec.StakedAmount
<1> DEFINE S == DOMAIN m
           f == [x \in S |-> m[x].StakedAmount]
           p == Put(m, k, rec)
           g == [x \in S \cup {k} |-> p[x].StakedAmount]
<1>1. DOMAIN p = S \cup {k} /\ p[k] = rec /\ \A x \in S : p[x] = m[x]
  BY DEF Put
<1> HIDE DEF p
<1>2. /\ \A x \in S : g[x] = f[x] /\ g[x] \in Int
      /\ g[k] = rec.StakedAmount /\ g[k] \in Int
  BY <1>1 DEF HasStakes
<1>3. Staked(m) = SumFunctionOnSet(f, S) /\ Staked(p) = SumFunctionOnSet(g, S \cup {k})
  BY <1>1 DEF Staked
<1>4. IsFiniteSet(S)
  BY DEF HasStakes
<1> HIDE DEF f, g, S
<1>5. SumFunctionOnSet(g, S \cup {k}) = SumFunctionOnSet(g, S) + g[k]
  BY <1>2, <1>4, SumAdd DEF S
<1>6. SumFunctionOnSet(g, S) = SumFunctionOnSet(f, S)
  BY <1>2, <1>4, SumSame
<1> QED BY <1>2, <1>3, <1>5, <1>6 DEF p

\* A record is taken away.
LEMMA StakedDelete ==
  ASSUME NEW m, HasStakes(m), NEW k \in DOMAIN m
  PROVE  Staked(Delete(m, k)) = Staked(m) - m[k].StakedAmount
<1> DEFINE S == DOMAIN m
           f == [x \in S |-> m[x].StakedAmount]
           p == Delete(m, k)
           g == [x \in S \ {k} |-> p[x].StakedAmount]
<1>1. DOMAIN p = S \ {k} /\ \A x \in S \ {k} : p[x] = m[x]
  BY DEF Delete
<1> HIDE DEF p
<1>2. /\ \A x \in S \ {k} : g[x] = f[x]
      /\ \A x \in S : f[x] \in Int
      /\ f[k] = m[k].StakedAmount
  BY <1>1 DEF HasStakes
<1>3. Staked(m) = SumFunctionOnSet(f, S) /\ Staked(p) = SumFunctionOnSet(g, S \ {k})
  BY <1>1 DEF Staked
<1>4. IsFiniteSet(S) /\ IsFiniteSet(S \ {k}) /\ k \in S
  BY FS_RemoveElement DEF HasStakes
<1> HIDE DEF f, g, S
<1>5. SumFunctionOnSet(f, S) = f[k] + SumFunctionOnSet(f, S \ {k})
  BY <1>2, <1>4, SumRemove
<1>6. SumFunctionOnSet(g, S \ {k}) = SumFunctionOnSet(f, S \ {k})
  BY <1>2, <1>4, SumSame
<1>7. SumFunctionOnSet(f, S \ {k}) \in Int
  BY <1>2, <1>4, SumInt
<1> QED BY <1>2, <1>3, <1>4, <1>5, <1>6, <1>7 DEF p

\* The sum of stakes is a number.
LEMMA StakedInt ==
  ASSUME NEW m, HasStakes(m)
  PROVE  Staked(m) \in Int
<1> DEFINE f == [x \in DOMAIN m |-> m[x].StakedAmount]
<1>1. \A x \in DOMAIN m : f[x] \in Int
  BY DEF HasStakes
<1>2. Staked(m) = SumFunctionOnSet(f, DOMAIN m)
  BY DEF Staked
<1> HIDE DEF f
<1> QED BY <1>1, <1>2, SumInt DEF HasStakes

\* The records of a chain state.
LEMMA LedgerStakes ==
  ASSUME NEW v, IsLedger(v)
  PROVE  /\ HasStakes(v.registered) /\ HasStakes(v.delegated)
         /\ Staked(v.registered) \in Int /\ Staked(v.delegated) \in Int
         /\ v.balance \in [Addresses -> Uint64]
         /\ SumFunctionOnSet(v.balance, Addresses) \in Int
<1>1. /\ IsMap(v.registered, NodeIDs, RegisterRecord)
      /\ IsMap(v.delegated, NodeIDs \X Addresses, DelegateRecord)
      /\ v.balance \in [Addresses -> Uint64]
  BY DEF IsLedger
<1>2. IsFiniteSet(NodeIDs) /\ IsFiniteSet(NodeIDs \X Addresses)
  BY EmissionAssumption, FS_Product
<1>3. HasStakes(v.registered)
  <2>1. \A k \in DOMAIN v.registered : v.registered[k].StakedAmount \in Uint64
    BY <1>1 DEF IsMap, RegisterRecord
  <2> QED BY <1>1, <1>2, <2>1, FS_Subset, EmissionAssumption DEF IsMap, HasStakes, Uint64
<1>4. HasStakes(v.delegated)
  <2>1. \A k \in DOMAIN v.delegated : v.delegated[k].StakedAmount \in Uint64
    BY <1>1 DEF IsMap, DelegateRecord
  <2> QED BY <1>1, <1>2, <2>1, FS_Subset, EmissionAssumption DEF IsMap, HasStakes, Uint64
<1>5. SumFunctionOnSet(v.balance, Addresses) \in Int
  <2>1. \A a \in Addresses : v.balance[a] \in Int
    BY <1>1, EmissionAssumption DEF Uint64
  <2> QED BY <2>1, SumInt, EmissionAssumption
<1> QED BY <1>1, <1>3, <1>4, <1>5, StakedInt

\* What every object of the balancer is owed is a number.
LEMMA PoolsInt ==
  ASSUME NEW e, IsEmission(e)
  PROVE  /\ IsFiniteSet(DOMAIN e.heap) /\ Pools(e) \in Int
         /\ \A r \in DOMAIN e.heap : Owed(e.heap[r]) \in Int
<1>1. e.allocated \in Nat /\ DOMAIN e.heap = 1 .. e.allocated
  BY DEF IsEmission, EmissionFields
<1>2. IsFiniteSet(DOMAIN e.heap)
  BY <1>1, FS_Interval
<1>3. \A v : IsValidator(v) => Owed(v) \in Int
  <2>1. ASSUME NEW v, IsValidator(v)
        PROVE  v.AccumulatedStakedReward \in Uint64 /\ v.AccumulatedDelegatedReward \in Uint64
    BY <2>1 DEF IsValidator
  <2> QED BY <2>1, EmissionAssumption DEF Owed, Uint64
<1>4. \A r \in DOMAIN e.heap : Owed(e.heap[r]) \in Int
  BY <1>3 DEF IsEmission
<1> DEFINE f == [r \in DOMAIN e.heap |-> Owed(e.heap[r])]
<1>5. \A r \in DOMAIN e.heap : f[r] \in Int
  BY <1>4
<1>6. Pools(e) = SumFunctionOnSet(f, DOMAIN e.heap)
  BY DEF Pools
<1> HIDE DEF f
<1> QED BY <1>2, <1>4, <1>5, <1>6, SumInt

\* One object changes.
LEMMA PoolsChange ==
  ASSUME NEW e, IsEmission(e), NEW g, NEW r \in DOMAIN e.heap,
         DOMAIN g.heap = DOMAIN e.heap, Owed(g.heap[r]) \in Int,
         \A x \in DOMAIN e.heap \ {r} : g.heap[x] = e.heap[x]
  PROVE  Pools(g) = Pools(e) + (Owed(g.heap[r]) - Owed(e.heap[r]))
<1> DEFINE S == DOMAIN e.heap
           p == [x \in S |-> Owed(e.heap[x])]
           q == [x \in S |-> Owed(g.heap[x])]
<1>1. IsFiniteSet(S) /\ Pools(e) \in Int /\ \A x \in S : Owed(e.heap[x]) \in Int
  BY PoolsInt
<1>2. \A x \in S \ {r} : p[x] = q[x]
  OBVIOUS
<1>3. \A x \in S : p[x] \in Int /\ q[x] \in Int
  BY <1>1
<1>4. Pools(e) = SumFunctionOnSet(p, S) /\ Pools(g) = SumFunctionOnSet(q, S)
  BY DEF Pools
<1>5. p[r] = Owed(e.heap[r]) /\ q[r] = Owed(g.heap[r]) /\ r \in S
  OBVIOUS
<1> HIDE DEF S, p, q
<1>6. SumFunctionOnSet(q, S) = SumFunctionOnSet(p, S) - p[r] + q[r]
  BY <1>1, <1>2, <1>3, <1>5, SumUpdate
<1> QED BY <1>1, <1>3, <1>4, <1>5, <1>6

\* An object is made to which nothing is owed yet.
LEMMA PoolsGrow ==
  ASSUME NEW e, IsEmission(e), NEW g, NEW r, r \notin DOMAIN e.heap,
         DOMAIN g.heap = DOMAIN e.heap \cup {r}, Owed(g.heap[r]) = 0,
         \A x \in DOMAIN e.heap : g.heap[x] = e.heap[x]
  PROVE  Pools(g) = Pools(e)
<1> DEFINE S == DOMAIN e.heap
           p == [x \in S |-> Owed(e.heap[x])]
           q == [x \in S \cup {r} |-> Owed(g.heap[x])]
<1>1. IsFiniteSet(S) /\ Pools(e) \in Int /\ \A x \in S : Owed(e.heap[x]) \in Int
  BY PoolsInt
<1>2. /\ \A x \in S : p[x] = q[x] /\ q[x] \in Int
      /\ q[r] = 0
  BY <1>1
<1>3. Pools(e) = SumFunctionOnSet(p, S) /\ Pools(g) = SumFunctionOnSet(q, S \cup {r})
  BY DEF Pools
<1>4. r \notin S
  OBVIOUS
<1> HIDE DEF S, p, q
<1>5. SumFunctionOnSet(q, S \cup {r}) = SumFunctionOnSet(q, S) + q[r]
  BY <1>1, <1>2, <1>4, SumAdd
<1>6. SumFunctionOnSet(q, S) = SumFunctionOnSet(p, S)
  BY <1>1, <1>2, SumSame
<1> QED BY <1>1, <1>2, <1>3, <1>5, <1>6

\* The object of a node is replaced.
LEMMA PoolsWith ==
  ASSUME NEW e, IsEmission(e), NEW n, HasValidator(e, n), NEW v, Owed(v) \in Int,
         NEW g, g.heap = WithValidator(e, n, v).heap
  PROVE  Pools(g) = Pools(e) + (Owed(v) - Owed(ValidatorOf(e, n)))
<1> DEFINE r == e.validators[n]
<1>1. r \in DOMAIN e.heap /\ ValidatorOf(e, n) = e.heap[r]
  BY DEF IsEmission, IsMap, HasValidator, ValidatorOf
<1>2. g.heap = [e.heap EXCEPT ![r] = v]
  BY DEF WithValidator, IsEmission, EmissionFields
<1> HIDE DEF r
<1>3. /\ DOMAIN g.heap = DOMAIN e.heap /\ g.heap[r] = v
      /\ \A x \in DOMAIN e.heap \ {r} : g.heap[x] = e.heap[x]
  BY <1>1, <1>2 DEF IsEmission
<1> QED BY <1>1, <1>3, PoolsChange

\* What a validator is owed.
LEMMA OwedType ==
  ASSUME NEW e, IsEmission(e), NEW n, HasValidator(e, n)
  PROVE  LET v == ValidatorOf(e, n)
         IN /\ IsValidator(v) /\ v.AccumulatedStakedReward \in Uint64
            /\ v.AccumulatedDelegatedReward \in Uint64
            /\ v.AccumulatedStakedReward \in Int /\ v.AccumulatedDelegatedReward \in Int
            /\ Owed(v) = v.AccumulatedStakedReward + v.AccumulatedDelegatedReward
<1> DEFINE v == ValidatorOf(e, n)
<1>1. IsValidator(v)
  BY ValidatorOfType DEF HasValidator
<1> HIDE DEF v
<1>2. v.AccumulatedStakedReward \in Uint64 /\ v.AccumulatedDelegatedReward \in Uint64
  BY <1>1 DEF IsValidator
<1> QED BY <1>1, <1>2, EmissionAssumption DEF Owed, Uint64, v

\* A registration pays nothing.
LEMMA RegisterPools ==
  ASSUME NEW e, IsEmission(e), NEW n \in NodeIDs, NEW s, NEW t, NEW x, NEW f
  PROVE  Pools(RegisterValidatorStake(e, n, s, t, x, f)) = Pools(e)
<1> DEFINE g   == RegisterValidatorStake(e, n, s, t, x, f)
           ref == IF HasValidator(e, n) THEN e.validators[n] ELSE e.allocated + 1
           old == IF HasValidator(e, n) THEN e.heap[ref] ELSE NewValidator(n)
           v   == [old EXCEPT !.IsActive = TRUE, !.StakedAmount = x,
                              !.DelegationFeeRate = f]
<1>1. e.allocated \in Nat /\ DOMAIN e.heap = 1 .. e.allocated
  BY DEF IsEmission, EmissionFields
<1>2. g.heap = Put(e.heap, ref, v)
  BY DEF RegisterValidatorStake, IsEmission, EmissionFields
<1>3. CASE HasValidator(e, n)
  <2>1. ref \in DOMAIN e.heap /\ ref = e.validators[n] /\ old = e.heap[ref]
    BY <1>3 DEF IsEmission, IsMap, HasValidator
  <2>2. IsValidator(old)
    BY <2>1 DEF IsEmission
  <2>3. /\ v.AccumulatedStakedReward = old.AccumulatedStakedReward
        /\ v.AccumulatedDelegatedReward = old.AccumulatedDelegatedReward
    <3> HIDE DEF old
    <3> QED BY <2>2 DEF IsValidator
  <2> HIDE DEF g, ref, old, v
  <2>4. /\ DOMAIN g.heap = DOMAIN e.heap /\ g.heap[ref] = v
        /\ \A y \in DOMAIN e.heap \ {ref} : g.heap[y] = e.heap[y]
    BY <1>2, <2>1 DEF Put
  <2>5. Owed(v) = Owed(e.heap[ref]) /\ Owed(e.heap[ref]) \in Int /\ Pools(e) \in Int
    BY <2>1, <2>3, PoolsInt DEF Owed
  <2>6. Pools(g) = Pools(e) + (Owed(g.heap[ref]) - Owed(e.heap[ref]))
    BY <2>1, <2>4, <2>5, PoolsChange
  <2>7. Pools(g) = Pools(e)
    BY <2>4, <2>5, <2>6
  <2> QED BY <2>7 DEF g
<1>4. CASE ~ HasValidator(e, n)
  <2>1. ref \notin DOMAIN e.heap
    BY <1>1, <1>4
  <2>2. v.AccumulatedStakedReward = 0 /\ v.AccumulatedDelegatedReward = 0
    BY <1>4 DEF NewValidator
  <2> HIDE DEF g, ref, old, v
  <2>3. /\ DOMAIN g.heap = DOMAIN e.heap \cup {ref} /\ g.heap[ref] = v
        /\ \A y \in DOMAIN e.heap : g.heap[y] = e.heap[y]
    BY <1>2, <2>1 DEF Put
  <2>4. Owed(v) = 0
    BY <2>2 DEF Owed
  <2>5. Pools(g) = Pools(e)
    BY <2>1, <2>3, <2>4, PoolsGrow
  <2> QED BY <2>5 DEF g
<1> QED BY <1>3, <1>4

\* A withdrawal, or a claim, takes the validator's own reward.
LEMMA WithdrawPools ==
  ASSUME NEW e, IsEmission(e), NEW n, HasValidator(e, n)
  PROVE  /\ Pools(WithdrawValidatorStake(e, n)) = Pools(e) - WithdrawReward(e, n)
         /\ Pools(ClaimValidatorRewards(e, n)) = Pools(e) - WithdrawReward(e, n)
         /\ WithdrawReward(e, n) \in Uint64
<1> DEFINE v == ValidatorOf(e, n)
           w == [v EXCEPT !.AccumulatedStakedReward = 0,
                          !.IsActive = FALSE, !.StakedAmount = 0]
           c == [v EXCEPT !.AccumulatedStakedReward = 0]
           g == WithdrawValidatorStake(e, n)
           h == ClaimValidatorRewards(e, n)
<1>1. /\ IsValidator(v) /\ v.AccumulatedStakedReward \in Uint64
      /\ v.AccumulatedStakedReward \in Int /\ v.AccumulatedDelegatedReward \in Int
      /\ Owed(v) = v.AccumulatedStakedReward + v.AccumulatedDelegatedReward
  BY OwedType
<1>2. WithdrawReward(e, n) = v.AccumulatedStakedReward
  BY DEF WithdrawReward
<1>3. g.heap = WithValidator(e, n, w).heap /\ h.heap = WithValidator(e, n, c).heap
  BY DEF WithdrawValidatorStake, ClaimValidatorRewards
<1>4. Pools(e) \in Int
  BY PoolsInt
<1>5. \A x : Owed(x) - Owed(ValidatorOf(e, n)) = Owed(x) - Owed(v)
  OBVIOUS
<1> HIDE DEF v, g, h
<1>6. Owed(w) = v.AccumulatedDelegatedReward /\ Owed(c) = v.AccumulatedDelegatedReward
  BY <1>1 DEF Owed, IsValidator
<1> HIDE DEF w, c
<1>7. Pools(g) = Pools(e) + (Owed(w) - Owed(v)) /\ Pools(h) = Pools(e) + (Owed(c) - Owed(v))
  BY <1>1, <1>3, <1>6, PoolsWith DEF v
<1>8. /\ Pools(g) = Pools(e) - v.AccumulatedStakedReward
      /\ Pools(h) = Pools(e) - v.AccumulatedStakedReward
  BY <1>1, <1>4, <1>6, <1>7
<1> QED BY <1>1, <1>2, <1>8 DEF g, h

\* An amount is not changed by Wrap, and anything else by multiples of Word.
LEMMA WrapValue ==
  /\ \A x \in Uint64 : Wrap(x) = x
  /\ \A x \in Int : \E k \in Int : Wrap(x) = x + k * Word
<1>1. Word \in Nat /\ Word > 0
  BY EmissionAssumption
<1>2. ASSUME NEW x \in Uint64 PROVE Wrap(x) = x
  BY <1>1 DEF Wrap, Uint64
<1>3. ASSUME NEW x \in Int PROVE \E k \in Int : Wrap(x) = x + k * Word
  <2>1. x \div Word \in Int /\ x = Word * (x \div Word) + (x % Word)
    BY <1>1
  <2>2. - (x \div Word) \in Int /\ x % Word \in Int
    BY <1>1, <2>1
  <2>3. (- (x \div Word)) * Word = - (Word * (x \div Word))
    BY <1>1, <2>1
  <2>4. Wrap(x) = x + (- (x \div Word)) * Word
    BY <1>1, <2>1, <2>2, <2>3 DEF Wrap
  <2> QED BY <2>2, <2>4
<1> QED BY <1>2, <1>3

\* The remainder is the only number below Word that differs by a multiple.
LEMMA RemainderUnique ==
  ASSUME NEW y \in Int, NEW d \in Int, NEW m \in Uint64, y = Word * d + m
  PROVE  y % Word = m
<1>1. Word \in Nat /\ Word > 0 /\ m \in Int /\ 0 <= m /\ m < Word
  BY EmissionAssumption DEF Uint64
<1> DEFINE q == y \div Word
           r == y % Word
<1>2. q \in Int /\ r \in Int /\ 0 <= r /\ r < Word /\ y = Word * q + r
  BY <1>1
<1> HIDE DEF q, r
<1> DEFINE z == d - q
<1>3. z \in Int /\ Word * z = r - m
  <2>1. Word * z = Word * d - Word * q
    BY <1>1, <1>2
  <2>2. Word * d \in Int /\ Word * q \in Int
    BY <1>1, <1>2
  <2> QED BY <1>1, <1>2, <2>1, <2>2
<1> HIDE DEF z
<1>4. ~ z >= 1
  <2> SUFFICES ASSUME z >= 1 PROVE FALSE
    OBVIOUS
  <2>1. Word * z >= Word
    BY <1>1, <1>3
  <2> QED BY <1>1, <1>2, <1>3, <2>1
<1>5. ~ z <= -1
  <2> SUFFICES ASSUME z <= -1 PROVE FALSE
    OBVIOUS
  <2>1. Word * z <= - Word
    BY <1>1, <1>3
  <2> QED BY <1>1, <1>2, <1>3, <2>1
<1>6. z = 0
  BY <1>3, <1>4, <1>5
<1>7. Word * z = 0
  BY <1>1, <1>6
<1>8. r = m
  BY <1>1, <1>2, <1>3, <1>7
<1> QED BY <1>8 DEF r

\* Numbers that differ by a multiple of Word are the same modulo Word.
LEMMA SameModulo ==
  ASSUME NEW x \in Int, NEW k \in Int
  PROVE  (x + k * Word) % Word = x % Word
<1> DEFINE q == x \div Word
           m == x % Word
           d == q + k
<1>1. Word \in Nat /\ Word > 0
  BY EmissionAssumption
<1>2. q \in Int /\ m \in Uint64 /\ x = Word * q + m /\ m \in Int
  BY <1>1 DEF Uint64
<1> HIDE DEF q, m
<1>3. d \in Int /\ Word * d = Word * q + k * Word /\ Word * q \in Int /\ k * Word \in Int
  BY <1>1, <1>2
<1> HIDE DEF d
<1>4. x + k * Word = Word * d + m /\ x + k * Word \in Int
  BY <1>2, <1>3
<1>5. (x + k * Word) % Word = m
  BY <1>2, <1>3, <1>4, RemainderUnique
<1> QED BY <1>5 DEF m

\* A delegation pays nothing.
LEMMA DelegatePools ==
  ASSUME NEW e, IsEmission(e), NEW n, HasValidator(e, n), NEW a, NEW s, NEW t, NEW x
  PROVE  Pools(DelegateUserStake(e, n, a, s, t, x)) = Pools(e)
<1> DEFINE v == ValidatorOf(e, n)
           p == Put(v.delegators, a, NewDelegator(s, t, x))
           w == [v EXCEPT !.delegators = p]
           g == DelegateUserStake(e, n, a, s, t, x)
<1>1. /\ IsValidator(v) /\ Owed(v) = v.AccumulatedStakedReward + v.AccumulatedDelegatedReward
      /\ v.AccumulatedStakedReward \in Int /\ v.AccumulatedDelegatedReward \in Int
  BY OwedType
<1>2. g.heap = WithValidator(e, n, w).heap
  BY DEF DelegateUserStake, WithValidator, IsEmission, EmissionFields
<1>3. Pools(e) \in Int
  BY PoolsInt
<1> HIDE DEF g, v, p
<1>4. Owed(w) = Owed(v) /\ Owed(v) \in Int
  BY <1>1 DEF Owed, IsValidator
<1> HIDE DEF w
<1>5. Pools(g) = Pools(e) + (Owed(w) - Owed(v))
  BY <1>2, <1>4, PoolsWith DEF v
<1>6. Pools(g) = Pools(e)
  BY <1>3, <1>4, <1>5
<1> QED BY <1>6 DEF g

\* Taking a delegation back takes the reward out of the delegators' pool, which
\* has as much.
LEMMA UndelegatePools ==
  ASSUME NEW e, IsEmission(e), NEW n, NEW a, HasDelegator(e, n, a)
  PROVE  /\ Pools(UndelegateUserStake(e, n, a)) = Pools(e) - UndelegateReward(e, n, a)
         /\ UndelegateReward(e, n, a) \in Uint64
         /\ CalculateUserDelegationRewards(e, n, a) \in Uint64
         /\ UndelegateReward(e, n, a) <= CalculateUserDelegationRewards(e, n, a)
<1> DEFINE v == ValidatorOf(e, n)
           pool == v.AccumulatedDelegatedReward
           asked == CalculateUserDelegationRewards(e, n, a)
           reward == UndelegateReward(e, n, a)
           rest == Wrap(pool - reward)
           p == Delete(v.delegators, a)
           w == [v EXCEPT !.AccumulatedDelegatedReward = rest, !.delegators = p]
           g == UndelegateUserStake(e, n, a)
<1>1. HasValidator(e, n)
  BY DEF HasDelegator
<1>2. /\ IsValidator(v) /\ Owed(v) = v.AccumulatedStakedReward + pool
      /\ v.AccumulatedStakedReward \in Int /\ pool \in Uint64
  BY <1>1, OwedType
<1>3. asked \in Uint64
  BY WrapType DEF CalculateUserDelegationRewards
<1>4. reward = IF asked > pool THEN pool ELSE asked
  BY DEF UndelegateReward
<1>5. g.heap = WithValidator(e, n, w).heap
  BY DEF UndelegateUserStake, WithValidator, IsEmission, EmissionFields
<1>6. Pools(e) \in Int
  BY PoolsInt
<1> HIDE DEF g, v, p, asked, reward, pool
<1>7. reward \in Uint64 /\ reward <= asked /\ pool - reward \in Uint64
      /\ reward \in Int /\ pool \in Int
  BY <1>2, <1>3, <1>4, EmissionAssumption DEF Uint64
<1>8. rest = pool - reward
  BY <1>7, WrapValue
<1> HIDE DEF rest
<1>9. Owed(w) = v.AccumulatedStakedReward + rest
  BY <1>2 DEF Owed, IsValidator
<1>10. Owed(w) = Owed(v) - reward /\ Owed(w) \in Int
  BY <1>2, <1>7, <1>8, <1>9
<1> HIDE DEF w
<1>11. Pools(g) = Pools(e) + (Owed(w) - Owed(v))
  BY <1>1, <1>5, <1>10, PoolsWith DEF v
<1>12. Pools(g) = Pools(e) - reward
  BY <1>2, <1>6, <1>7, <1>10, <1>11
<1> QED BY <1>3, <1>7, <1>12 DEF g, reward, asked

\* A delegator's claim takes its reward out of the pool even when the pool has
\* less: then it wraps around.
LEMMA ClaimPools ==
  ASSUME NEW e, IsEmission(e), NEW n, HasValidator(e, n), NEW a
  PROVE  \E k \in Int : Pools(ClaimDelegatorRewards(e, n, a))
                          = Pools(e) - CalculateUserDelegationRewards(e, n, a) + k * Word
<1> DEFINE v == ValidatorOf(e, n)
           pool == v.AccumulatedDelegatedReward
           asked == CalculateUserDelegationRewards(e, n, a)
           rest == Wrap(pool - asked)
           w == [v EXCEPT !.AccumulatedDelegatedReward = rest]
           g == ClaimDelegatorRewards(e, n, a)
<1>1. /\ IsValidator(v) /\ Owed(v) = v.AccumulatedStakedReward + pool
      /\ v.AccumulatedStakedReward \in Int /\ pool \in Int
  BY OwedType
<1>2. asked \in Int
  BY WrapType, EmissionAssumption DEF CalculateUserDelegationRewards, Uint64
<1>3. g.heap = WithValidator(e, n, w).heap
  BY DEF ClaimDelegatorRewards
<1>4. Pools(e) \in Int
  BY PoolsInt
<1> HIDE DEF g, v, asked, pool
<1>5. PICK k \in Int : rest = (pool - asked) + k * Word
  BY <1>1, <1>2, WrapValue
<1>6. k * Word \in Int
  BY EmissionAssumption
<1> HIDE DEF rest
<1>7. Owed(w) = v.AccumulatedStakedReward + rest
  BY <1>1 DEF Owed, IsValidator
<1>8. Owed(w) - Owed(v) = k * Word - asked /\ Owed(w) \in Int
  BY <1>1, <1>2, <1>5, <1>6, <1>7
<1> HIDE DEF w
<1>9. Pools(g) = Pools(e) + (Owed(w) - Owed(v))
  BY <1>3, <1>8, PoolsWith DEF v
<1>10. Pools(g) = Pools(e) - asked + k * Word
  BY <1>2, <1>4, <1>6, <1>8, <1>9
<1> QED BY <1>10 DEF g, asked

\* What a transaction adds to the stakes of validators and of delegators and to
\* what the accounts own, the fee apart.
Moves(reg, del, gain) ==
  /\ Staked(view'.registered) = Staked(view.registered) + reg
  /\ Staked(view'.delegated) = Staked(view.delegated) + del
  /\ Wealth(view') = Wealth(view) + gain - TxFee

\* The fee leaves the actor's balance.
LEMMA FeeMoney ==
  ASSUME TypeOK, NEW actor \in Addresses, CanSubBalance(view.balance, actor, TxFee)
  PROVE  /\ SumFunctionOnSet(FeePaid(actor).balance, Addresses)
              = SumFunctionOnSet(view.balance, Addresses) - TxFee
         /\ TxFee \in Int
<1>1. FeePaid(actor).balance = SubBalance(view.balance, actor, TxFee)
  BY DEF FeePaid, TypeOK, IsLedger
<1>2. view.balance \in [Addresses -> Uint64] /\ TxFee \in Uint64
  BY StakingAssumption DEF TypeOK, IsLedger
<1> QED BY <1>1, <1>2, BalanceMoved, EmissionAssumption DEF Uint64

\* The changes of the parts give those of the whole.
LEMMA MovesSum ==
  ASSUME TypeOK, NEW actor \in Addresses, CanSubBalance(view.balance, actor, TxFee),
         NEW reg \in Int, NEW del \in Int, NEW gain \in Int, NEW bal \in Int,
         SumFunctionOnSet(view'.balance, Addresses)
           = SumFunctionOnSet(FeePaid(actor).balance, Addresses) + bal,
         Staked(view'.registered) = Staked(view.registered) + reg,
         Staked(view'.delegated) = Staked(view.delegated) + del,
         gain = bal + reg + del
  PROVE  Moves(reg, del, gain)
<1>1. /\ Staked(view.registered) \in Int /\ Staked(view.delegated) \in Int
      /\ SumFunctionOnSet(view.balance, Addresses) \in Int
  BY LedgerStakes DEF TypeOK
<1>2. /\ SumFunctionOnSet(FeePaid(actor).balance, Addresses)
           = SumFunctionOnSet(view.balance, Addresses) - TxFee
      /\ TxFee \in Int
  BY FeeMoney
<1>3. SumFunctionOnSet(view'.balance, Addresses)
        = SumFunctionOnSet(view.balance, Addresses) - TxFee + bal
  BY <1>2
<1> DEFINE a == SumFunctionOnSet(view.balance, Addresses)
           b == Staked(view.registered)
           c == Staked(view.delegated)
           a1 == SumFunctionOnSet(view'.balance, Addresses)
           b1 == Staked(view'.registered)
           c1 == Staked(view'.delegated)
<1>4. Wealth(view) = a + b + c /\ Wealth(view') = a1 + b1 + c1
  BY DEF Wealth
<1>5. a \in Int /\ b \in Int /\ c \in Int /\ a1 = a - TxFee + bal /\ b1 = b + reg
      /\ c1 = c + del
  BY <1>1, <1>3
<1> HIDE DEF a, b, c, a1, b1, c1
<1>6. a1 + b1 + c1 = (a + b + c) + gain - TxFee
  BY <1>2, <1>5
<1> QED BY <1>4, <1>6 DEF Moves

\* Nothing but the fee is paid.
LEMMA OnlyFee ==
  ASSUME TypeOK, NEW actor \in Addresses, BeginTx(actor), view' = FeePaid(actor)
  PROVE  Moves(0, 0, 0)
<1>1. CanSubBalance(view.balance, actor, TxFee)
  BY DEF BeginTx
<1>2. /\ view'.registered = view.registered /\ view'.delegated = view.delegated
      /\ view'.balance \in [Addresses -> Uint64]
  BY <1>1, FeePaidType
<1>3. /\ Staked(view.registered) \in Int /\ Staked(view.delegated) \in Int
  BY LedgerStakes DEF TypeOK
<1>4. SumFunctionOnSet(FeePaid(actor).balance, Addresses) \in Int
  BY <1>1, FeeMoney, LedgerStakes DEF TypeOK
<1>5. /\ Staked(view'.registered) = Staked(view.registered) + 0
      /\ Staked(view'.delegated) = Staked(view.delegated) + 0
  BY <1>2, <1>3
<1>6. SumFunctionOnSet(view'.balance, Addresses)
        = SumFunctionOnSet(FeePaid(actor).balance, Addresses) + 0
  BY <1>4
<1> QED BY <1>1, <1>5, <1>6, MovesSum

\* A registration moves the stake from the balance to the record.
LEMMA RegisterMoney ==
  ASSUME TypeOK, NEW actor \in Addresses, NEW n \in NodeIDs, NEW s \in Heights,
         NEW t \in Heights, NEW x \in StakeAmounts, NEW f \in FeeRates,
         NEW r \in RewardAddresses, BeginTx(actor),
         ExecuteRegister(actor, n, s, t, x, f, r)
  PROVE  /\ Pools(em') = Pools(em)
         /\ IF CanSubBalance(FeePaid(actor).balance, actor, x)
              THEN Moves(x, 0, 0) ELSE Moves(0, 0, 0)
<1> DEFINE v == FeePaid(actor)
           rec == [StakeEndBlock |-> t, StakedAmount |-> x,
                   RewardAddress |-> r, OwnerAddress |-> actor]
           b == SubBalance(v.balance, actor, x)
           reg == Put(v.registered, n, rec)
<1>1. CanSubBalance(view.balance, actor, TxFee) /\ IsEmission(em)
  BY DEF BeginTx, TypeOK
<1>2. /\ IsLedger(v) /\ v.balance \in [Addresses -> Uint64]
      /\ v.registered = view.registered /\ v.delegated = view.delegated
  BY <1>1, FeePaidType
<1>3. x \in Uint64 /\ x \in Int /\ -x \in Int
  BY StakingAssumption, EmissionAssumption DEF Uint64
<1>4. Pools(em') = Pools(em)
  BY <1>1, RegisterPools DEF ExecuteRegister
<1>5. /\ n \notin DOMAIN v.registered
      /\ CanSubBalance(v.balance, actor, x) =>
           view' = [v EXCEPT !.balance = b, !.registered = reg]
      /\ ~ CanSubBalance(v.balance, actor, x) => view' = v
  BY DEF ExecuteRegister, RegisterChecks
<1>6. rec.StakedAmount = x
  OBVIOUS
<1>7. ASSUME CanSubBalance(v.balance, actor, x) PROVE Moves(x, 0, 0)
  <2>1. HasStakes(v.registered) /\ Staked(view.delegated) \in Int
    BY <1>2, LedgerStakes DEF TypeOK
  <2>2. SumFunctionOnSet(b, Addresses) = SumFunctionOnSet(v.balance, Addresses) - x
    BY <1>2, <1>3, <1>7, BalanceMoved
  <2>3. SumFunctionOnSet(v.balance, Addresses) \in Int
    BY <1>2, LedgerStakes
  <2> HIDE DEF v, rec
  <2>4. Staked(reg) = Staked(view.registered) + x
    BY <1>2, <1>3, <1>5, <1>6, <2>1, StakedPut
  <2> HIDE DEF b, reg
  <2>5. view'.balance = b /\ view'.registered = reg /\ view'.delegated = view.delegated
    BY <1>2, <1>5, <1>7 DEF IsLedger
  <2>6. SumFunctionOnSet(view'.balance, Addresses)
          = SumFunctionOnSet(v.balance, Addresses) + (-x)
    BY <1>3, <2>2, <2>3, <2>5
  <2>7. /\ Staked(view'.registered) = Staked(view.registered) + x
        /\ Staked(view'.delegated) = Staked(view.delegated) + 0
    BY <2>1, <2>4, <2>5
  <2>8. 0 = -x + x + 0
    BY <1>3
  <2> QED BY <1>1, <1>3, <2>6, <2>7, <2>8, MovesSum DEF v
<1>8. ASSUME ~ CanSubBalance(v.balance, actor, x) PROVE Moves(0, 0, 0)
  BY <1>5, <1>8, OnlyFee
<1> QED BY <1>4, <1>7, <1>8

\* A delegation moves the stake from the balance to the record.
LEMMA DelegateMoney ==
  ASSUME TypeOK, NEW actor \in Addresses, NEW n \in NodeIDs, NEW s \in Heights,
         NEW t \in Heights, NEW x \in StakeAmounts, NEW r \in RewardAddresses,
         BeginTx(actor), ExecuteDelegate(actor, n, s, t, x, r)
  PROVE  /\ Pools(em') = Pools(em)
         /\ IF CanSubBalance(FeePaid(actor).balance, actor, x)
              THEN Moves(0, x, 0) ELSE Moves(0, 0, 0)
<1> DEFINE v == FeePaid(actor)
           key == <<n, actor>>
           rec == [StakeStartBlock |-> s, StakeEndBlock |-> t,
                   StakedAmount |-> x, RewardAddress |-> r]
           b == SubBalance(v.balance, actor, x)
           del == Put(v.delegated, key, rec)
<1>1. CanSubBalance(view.balance, actor, TxFee) /\ IsEmission(em)
  BY DEF BeginTx, TypeOK
<1>2. /\ IsLedger(v) /\ v.balance \in [Addresses -> Uint64]
      /\ v.registered = view.registered /\ v.delegated = view.delegated
  BY <1>1, FeePaidType
<1>3. x \in Uint64 /\ x \in Int /\ -x \in Int
  BY StakingAssumption, EmissionAssumption DEF Uint64
<1>4. Pools(em') = Pools(em)
  BY <1>1, DelegatePools DEF ExecuteDelegate, DelegateChecks, DelegateUserStakeOk
<1>5. /\ key \notin DOMAIN v.delegated
      /\ CanSubBalance(v.balance, actor, x) =>
           view' = [v EXCEPT !.balance = b, !.delegated = del]
      /\ ~ CanSubBalance(v.balance, actor, x) => view' = v
  BY DEF ExecuteDelegate, DelegateChecks
<1>6. rec.StakedAmount = x
  OBVIOUS
<1>7. ASSUME CanSubBalance(v.balance, actor, x) PROVE Moves(0, x, 0)
  <2>1. HasStakes(v.delegated) /\ Staked(view.registered) \in Int
    BY <1>2, LedgerStakes DEF TypeOK
  <2>2. SumFunctionOnSet(b, Addresses) = SumFunctionOnSet(v.balance, Addresses) - x
    BY <1>2, <1>3, <1>7, BalanceMoved
  <2>3. SumFunctionOnSet(v.balance, Addresses) \in Int
    BY <1>2, LedgerStakes
  <2> HIDE DEF v, rec, key
  <2>4. Staked(del) = Staked(view.delegated) + x
    BY <1>2, <1>3, <1>5, <1>6, <2>1, StakedPut
  <2> HIDE DEF b, del
  <2>5. view'.balance = b /\ view'.delegated = del /\ view'.registered = view.registered
    BY <1>2, <1>5, <1>7 DEF IsLedger
  <2>6. SumFunctionOnSet(view'.balance, Addresses)
          = SumFunctionOnSet(v.balance, Addresses) + (-x)
    BY <1>3, <2>2, <2>3, <2>5
  <2>7. /\ Staked(view'.registered) = Staked(view.registered) + 0
        /\ Staked(view'.delegated) = Staked(view.delegated) + x
    BY <2>1, <2>4, <2>5
  <2>8. 0 = -x + 0 + x
    BY <1>3
  <2> QED BY <1>1, <1>3, <2>6, <2>7, <2>8, MovesSum DEF v
<1>8. ASSUME ~ CanSubBalance(v.balance, actor, x) PROVE Moves(0, 0, 0)
  BY <1>5, <1>8, OnlyFee
<1> QED BY <1>4, <1>7, <1>8

\* A withdrawal moves the stake back and the reward out of the pool; when a
\* balance would overflow the reward is lost.
LEMMA WithdrawMoney ==
  ASSUME TypeOK, NEW actor \in Addresses, NEW n \in NodeIDs,
         NEW r \in RewardAddresses, BeginTx(actor), ExecuteWithdraw(actor, n, r)
  PROVE  LET stake  == view.registered[n].StakedAmount
             reward == WithdrawReward(em, n)
         IN /\ n \in DOMAIN view.registered /\ HasValidator(em, n)
            /\ stake \in Uint64 /\ reward \in Uint64 /\ Pools(em') = Pools(em) - reward
            /\ IF CanPayOut(FeePaid(actor).balance, r, reward, actor, stake)
                 THEN Moves(-stake, 0, reward) ELSE Moves(0, 0, 0)
<1> DEFINE v == FeePaid(actor)
           stake == view.registered[n].StakedAmount
           reward == WithdrawReward(em, n)
           ok == CanPayOut(v.balance, r, reward, actor, stake)
           b == PayOut(v.balance, r, reward, actor, stake)
           reg == Delete(v.registered, n)
<1>1. CanSubBalance(view.balance, actor, TxFee) /\ IsEmission(em) /\ r \in Addresses
  BY StakingAssumption DEF BeginTx, TypeOK
<1>2. /\ IsLedger(v) /\ v.balance \in [Addresses -> Uint64]
      /\ v.registered = view.registered /\ v.delegated = view.delegated
  BY <1>1, FeePaidType
<1>3. n \in DOMAIN v.registered /\ HasValidator(em, n) /\ em' = WithdrawValidatorStake(em, n)
  BY DEF ExecuteWithdraw, WithdrawChecks
<1>4. Pools(em') = Pools(em) - reward /\ reward \in Uint64
  BY <1>1, <1>3, WithdrawPools
<1>5. stake \in Uint64
  BY <1>2, <1>3 DEF IsLedger, IsMap, RegisterRecord
<1>6. /\ ok => view' = [v EXCEPT !.balance = b, !.registered = reg]
      /\ ~ ok => view' = v
  BY <1>2 DEF ExecuteWithdraw
<1>7. stake \in Int /\ -stake \in Int /\ reward \in Int /\ reward + stake \in Int
  BY <1>4, <1>5, EmissionAssumption DEF Uint64
<1>8. ASSUME ok PROVE Moves(-stake, 0, reward)
  <2>1. HasStakes(v.registered) /\ Staked(view.delegated) \in Int
        /\ Staked(view.registered) \in Int
    BY <1>2, LedgerStakes DEF TypeOK
  <2> HIDE DEF v, reward
  <2>2. SumFunctionOnSet(b, Addresses)
          = SumFunctionOnSet(v.balance, Addresses) + reward + stake
    BY <1>1, <1>2, <1>4, <1>5, <1>8, PayOutMoved
  <2>3. SumFunctionOnSet(v.balance, Addresses) \in Int
    BY <1>2, LedgerStakes
  <2>4. Staked(reg) = Staked(view.registered) - stake
    BY <1>2, <1>3, <2>1, StakedDelete
  <2> HIDE DEF b, reg, stake, ok
  <2>5. view'.balance = b /\ view'.registered = reg /\ view'.delegated = view.delegated
    BY <1>2, <1>6, <1>8 DEF IsLedger
  <2>6. SumFunctionOnSet(view'.balance, Addresses)
          = SumFunctionOnSet(v.balance, Addresses) + (reward + stake)
    BY <1>7, <2>2, <2>3, <2>5
  <2>7. /\ Staked(view'.registered) = Staked(view.registered) + (-stake)
        /\ Staked(view'.delegated) = Staked(view.delegated) + 0
    BY <1>7, <2>1, <2>4, <2>5
  <2>8. reward = (reward + stake) + (-stake) + 0
    BY <1>7
  <2> QED BY <1>1, <1>7, <2>6, <2>7, <2>8, MovesSum DEF v
<1>9. ASSUME ~ ok PROVE Moves(0, 0, 0)
  BY <1>6, <1>9, OnlyFee
<1> QED BY <1>2, <1>3, <1>4, <1>5, <1>8, <1>9

\* Taking a delegation back moves its stake and its reward.
LEMMA UndelegateMoney ==
  ASSUME TypeOK, NEW actor \in Addresses, NEW n \in NodeIDs,
         NEW r \in RewardAddresses, BeginTx(actor), ExecuteUndelegate(actor, n, r)
  PROVE  LET stake  == view.delegated[<<n, actor>>].StakedAmount
             reward == UndelegateReward(em, n, actor)
         IN /\ <<n, actor>> \in DOMAIN view.delegated /\ HasDelegator(em, n, actor)
            /\ stake \in Uint64 /\ reward \in Uint64 /\ Pools(em') = Pools(em) - reward
            /\ IF CanPayOut(FeePaid(actor).balance, r, reward, actor, stake)
                 THEN Moves(0, -stake, reward) ELSE Moves(0, 0, 0)
<1> DEFINE v == FeePaid(actor)
           key == <<n, actor>>
           stake == view.delegated[key].StakedAmount
           reward == UndelegateReward(em, n, actor)
           ok == CanPayOut(v.balance, r, reward, actor, stake)
           b == PayOut(v.balance, r, reward, actor, stake)
           del == Delete(v.delegated, key)
<1>1. CanSubBalance(view.balance, actor, TxFee) /\ IsEmission(em) /\ r \in Addresses
  BY StakingAssumption DEF BeginTx, TypeOK
<1>2. /\ IsLedger(v) /\ v.balance \in [Addresses -> Uint64]
      /\ v.registered = view.registered /\ v.delegated = view.delegated
  BY <1>1, FeePaidType
<1>3. /\ key \in DOMAIN v.delegated /\ HasDelegator(em, n, actor)
      /\ em' = UndelegateUserStake(em, n, actor)
  BY DEF ExecuteUndelegate, UndelegateChecks
<1>4. Pools(em') = Pools(em) - reward /\ reward \in Uint64
  BY <1>1, <1>3, UndelegatePools
<1>6. /\ ok => view' = [v EXCEPT !.balance = b, !.delegated = del]
      /\ ~ ok => view' = v
  BY <1>2 DEF ExecuteUndelegate
<1> HIDE DEF key
<1>5. stake \in Uint64
  BY <1>2, <1>3 DEF IsLedger, IsMap, DelegateRecord
<1>7. stake \in Int /\ -stake \in Int /\ reward \in Int /\ reward + stake \in Int
  BY <1>4, <1>5, EmissionAssumption DEF Uint64
<1>8. ASSUME ok PROVE Moves(0, -stake, reward)
  <2>1. HasStakes(v.delegated) /\ Staked(view.delegated) \in Int
        /\ Staked(view.registered) \in Int
    BY <1>2, LedgerStakes DEF TypeOK
  <2> HIDE DEF v, reward
  <2>2. SumFunctionOnSet(b, Addresses)
          = SumFunctionOnSet(v.balance, Addresses) + reward + stake
    BY <1>1, <1>2, <1>4, <1>5, <1>8, PayOutMoved
  <2>3. SumFunctionOnSet(v.balance, Addresses) \in Int
    BY <1>2, LedgerStakes
  <2>4. Staked(del) = Staked(view.delegated) - stake
    BY <1>2, <1>3, <2>1, StakedDelete
  <2> HIDE DEF b, del, stake, ok
  <2>5. view'.balance = b /\ view'.delegated = del /\ view'.registered = view.registered
    BY <1>2, <1>6, <1>8 DEF IsLedger
  <2>6. SumFunctionOnSet(view'.balance, Addresses)
          = SumFunctionOnSet(v.balance, Addresses) + (reward + stake)
    BY <1>7, <2>2, <2>3, <2>5
  <2>7. /\ Staked(view'.registered) = Staked(view.registered) + 0
        /\ Staked(view'.delegated) = Staked(view.delegated) + (-stake)
    BY <1>7, <2>1, <2>4, <2>5
  <2>8. reward = (reward + stake) + 0 + (-stake)
    BY <1>7
  <2> QED BY <1>1, <1>7, <2>6, <2>7, <2>8, MovesSum DEF v
<1>9. ASSUME ~ ok PROVE Moves(0, 0, 0)
  BY <1>6, <1>9, OnlyFee
<1> QED BY <1>2, <1>3, <1>4, <1>5, <1>8, <1>9 DEF key

\* A claim pays the reward, unless the balance would overflow.
LEMMA PayRewardMoney ==
  ASSUME TypeOK, NEW actor \in Addresses, NEW x \in Uint64, BeginTx(actor),
         view' = PayReward(FeePaid(actor), actor, x)
  PROVE  IF CanAddBalance(FeePaid(actor).balance, actor, x)
           THEN Moves(0, 0, x) ELSE Moves(0, 0, 0)
<1> DEFINE v == FeePaid(actor)
           b == AddBalance(v.balance, actor, x)
           ok == CanAddBalance(v.balance, actor, x)
<1>1. CanSubBalance(view.balance, actor, TxFee)
  BY DEF BeginTx, TypeOK
<1>2. /\ IsLedger(v) /\ v.balance \in [Addresses -> Uint64]
      /\ v.registered = view.registered /\ v.delegated = view.delegated
  BY <1>1, FeePaidType
<1>3. (ok => view' = [v EXCEPT !.balance = b]) /\ (~ ok => view' = v)
  BY DEF PayReward
<1>4. ASSUME ok PROVE Moves(0, 0, x)
  <2>1. SumFunctionOnSet(b, Addresses) = SumFunctionOnSet(v.balance, Addresses) + x
    BY <1>2, <1>4, BalanceMoved
  <2>2. x \in Int /\ Staked(view.registered) \in Int /\ Staked(view.delegated) \in Int
    BY LedgerStakes, EmissionAssumption DEF TypeOK, Uint64
  <2> HIDE DEF v, b, ok
  <2>3. /\ view'.balance = b /\ view'.registered = view.registered
        /\ view'.delegated = view.delegated
    BY <1>2, <1>3, <1>4 DEF IsLedger
  <2>4. /\ Staked(view'.registered) = Staked(view.registered) + 0
        /\ Staked(view'.delegated) = Staked(view.delegated) + 0
        /\ x = x + 0 + 0
    BY <2>2, <2>3
  <2>5. SumFunctionOnSet(view'.balance, Addresses)
          = SumFunctionOnSet(v.balance, Addresses) + x
    BY <2>1, <2>3
  <2> QED BY <1>1, <2>2, <2>4, <2>5, MovesSum DEF v
<1>5. ASSUME ~ ok PROVE Moves(0, 0, 0)
  BY <1>3, <1>5, OnlyFee
<1> QED BY <1>4, <1>5

\* What the accounts gain, the pools lose, up to the fee and to multiples of Word.
Balanced ==
  \E k \in Int : Wealth(view') + Pools(em') + TxFee = Wealth(view) + Pools(em) + k * Word

\* A gain that leaves the pools.
LEMMA GainBalanced ==
  ASSUME TypeOK, NEW reg, NEW del, NEW gain \in Uint64, Moves(reg, del, gain),
         NEW k \in Int, Pools(em') = Pools(em) - gain + k * Word
  PROVE  Balanced
<1>1. /\ Staked(view.registered) \in Int /\ Staked(view.delegated) \in Int
      /\ SumFunctionOnSet(view.balance, Addresses) \in Int /\ Pools(em) \in Int
  BY LedgerStakes, PoolsInt DEF TypeOK
<1>2. Wealth(view) \in Int
  BY <1>1 DEF Wealth
<1>3. gain \in Int /\ TxFee \in Int /\ k * Word \in Int
  BY StakingAssumption, EmissionAssumption DEF Uint64
<1>4. Wealth(view') = Wealth(view) + gain - TxFee
  BY DEF Moves
<1>5. Wealth(view') + Pools(em') + TxFee = Wealth(view) + Pools(em) + k * Word
  BY <1>1, <1>2, <1>3, <1>4
<1> QED BY <1>5 DEF Balanced

\* The same without a multiple.
LEMMA ExactBalanced ==
  ASSUME TypeOK, NEW reg, NEW del, NEW gain \in Uint64, Moves(reg, del, gain),
         Pools(em') = Pools(em) - gain
  PROVE  Balanced
<1>1. 0 \in Int /\ 0 * Word = 0 /\ Pools(em) \in Int /\ gain \in Int
  BY EmissionAssumption, PoolsInt DEF TypeOK, Uint64
<1>2. Pools(em') = Pools(em) - gain + 0 * Word
  BY <1>1
<1> QED BY <1>1, <1>2, GainBalanced

\* Each of the six transactions.
LEMMA TxBalanced ==
  ASSUME TypeOK, Headroom, ExecuteTx
  PROVE  Balanced
<1>1. PICK actor \in Addresses, n \in NodeIDs :
        \/ \E s, t \in Heights, x \in StakeAmounts, f \in FeeRates,
             r \in RewardAddresses :
             RegisterTx(actor, n, s, t, x, f, r)
        \/ \E r \in RewardAddresses : WithdrawTx(actor, n, r)
        \/ \E s, t \in Heights, x \in StakeAmounts, r \in RewardAddresses :
             DelegateTx(actor, n, s, t, x, r)
        \/ \E r \in RewardAddresses : UndelegateTx(actor, n, r)
        \/ ClaimValidatorTx(actor, n)
        \/ \E u \in Addresses : ClaimDelegationTx(actor, n, u)
  BY DEF ExecuteTx
<1>2. Pools(em) \in Int /\ IsEmission(em) /\ 0 \in Uint64 /\ RewardAddresses \subseteq Addresses
  BY PoolsInt, ZeroType, StakingAssumption DEF TypeOK
<1>3. ASSUME Moves(0, 0, 0), Pools(em') = Pools(em)
      PROVE  Balanced
  <2>1. Pools(em') = Pools(em) - 0
    BY <1>2, <1>3
  <2> QED BY <1>2, <1>3, <2>1, ExactBalanced
<1>4. ASSUME BeginTx(actor), Refuse(actor)
      PROVE  Balanced
  BY <1>3, <1>4, OnlyFee DEF Refuse
<1>5. ASSUME NEW reg, NEW del, Moves(reg, del, 0), Pools(em') = Pools(em)
      PROVE  Balanced
  <2>1. Pools(em') = Pools(em) - 0
    BY <1>2, <1>5
  <2> QED BY <1>2, <1>5, <2>1, ExactBalanced
<1>6. ASSUME NEW s \in Heights, NEW t \in Heights, NEW x \in StakeAmounts,
             NEW f \in FeeRates, NEW r \in RewardAddresses,
             RegisterTx(actor, n, s, t, x, f, r)
      PROVE  Balanced
  <2>1. CASE BeginTx(actor) /\ ExecuteRegister(actor, n, s, t, x, f, r)
    <3>1. Pools(em') = Pools(em) /\ (Moves(x, 0, 0) \/ Moves(0, 0, 0))
      BY <2>1, RegisterMoney
    <3> QED BY <1>5, <3>1
  <2> QED BY <1>4, <1>6, <2>1 DEF RegisterTx
<1>7. ASSUME NEW s \in Heights, NEW t \in Heights, NEW x \in StakeAmounts,
             NEW r \in RewardAddresses, DelegateTx(actor, n, s, t, x, r)
      PROVE  Balanced
  <2>1. CASE BeginTx(actor) /\ ExecuteDelegate(actor, n, s, t, x, r)
    <3>1. Pools(em') = Pools(em) /\ (Moves(0, x, 0) \/ Moves(0, 0, 0))
      BY <2>1, DelegateMoney
    <3> QED BY <1>5, <3>1
  <2> QED BY <1>4, <1>7, <2>1 DEF DelegateTx
<1>8. ASSUME NEW r \in RewardAddresses, WithdrawTx(actor, n, r)
      PROVE  Balanced
  <2>1. CASE BeginTx(actor) /\ ExecuteWithdraw(actor, n, r)
    <3> DEFINE stake == view.registered[n].StakedAmount
               reward == WithdrawReward(em, n)
    <3>1. /\ n \in DOMAIN view.registered /\ HasValidator(em, n)
          /\ stake \in Uint64 /\ reward \in Uint64 /\ Pools(em') = Pools(em) - reward
          /\ CanPayOut(FeePaid(actor).balance, r, reward, actor, stake) =>
               Moves(-stake, 0, reward)
      BY <2>1, WithdrawMoney
    <3>2. \A a \in Addresses : view.balance[a] + (reward + stake) < Word
      BY <3>1 DEF Headroom, HasValidator
    <3>3. reward <= reward /\ CanSubBalance(view.balance, actor, TxFee)
      BY <2>1, <3>1, EmissionAssumption DEF BeginTx, Uint64
    <3> HIDE DEF stake, reward
    <3>4. CanPayOut(FeePaid(actor).balance, r, reward, actor, stake)
      BY <1>2, <3>1, <3>2, <3>3, RoomToPayOut
    <3> QED BY <3>1, <3>4, ExactBalanced
  <2> QED BY <1>4, <1>8, <2>1 DEF WithdrawTx
<1>9. ASSUME NEW r \in RewardAddresses, UndelegateTx(actor, n, r)
      PROVE  Balanced
  <2>1. CASE BeginTx(actor) /\ ExecuteUndelegate(actor, n, r)
    <3> DEFINE stake == view.delegated[<<n, actor>>].StakedAmount
               reward == UndelegateReward(em, n, actor)
               asked == CalculateUserDelegationRewards(em, n, actor)
    <3>1. /\ <<n, actor>> \in DOMAIN view.delegated /\ HasDelegator(em, n, actor)
          /\ stake \in Uint64 /\ reward \in Uint64 /\ Pools(em') = Pools(em) - reward
          /\ CanPayOut(FeePaid(actor).balance, r, reward, actor, stake) =>
               Moves(0, -stake, reward)
      BY <2>1, UndelegateMoney
    <3>2. asked \in Uint64 /\ reward <= asked
      BY <1>2, <3>1, UndelegatePools
    <3>3. \A a \in Addresses : view.balance[a] + (asked + stake) < Word
      BY <3>1 DEF Headroom, HasDelegator, HasValidator
    <3>4. CanSubBalance(view.balance, actor, TxFee)
      BY <2>1 DEF BeginTx
    <3> HIDE DEF stake, reward, asked
    <3>5. CanPayOut(FeePaid(actor).balance, r, reward, actor, stake)
      BY <1>2, <3>1, <3>2, <3>3, <3>4, RoomToPayOut
    <3> QED BY <3>1, <3>5, ExactBalanced
  <2> QED BY <1>4, <1>9, <2>1 DEF UndelegateTx
<1>10. ASSUME ClaimValidatorTx(actor, n)
       PROVE  Balanced
  <2>1. CASE BeginTx(actor) /\ ExecuteClaimValidator(actor, n)
    <3> DEFINE stake == view.registered[n].StakedAmount
               reward == WithdrawReward(em, n)
    <3>1. CanSubBalance(view.balance, actor, TxFee)
      BY <2>1 DEF BeginTx
    <3>2. /\ n \in DOMAIN view.registered /\ HasValidator(em, n)
          /\ em' = ClaimValidatorRewards(em, n)
          /\ view' = PayReward(FeePaid(actor), actor, reward)
      BY <2>1, <3>1, FeePaidType DEF ExecuteClaimValidator, ClaimValidatorChecks
    <3>3. Pools(em') = Pools(em) - reward /\ reward \in Uint64
      BY <1>2, <3>2, WithdrawPools
    <3>4. stake \in Uint64
      BY <3>2 DEF TypeOK, IsLedger, IsMap, RegisterRecord
    <3>5. \A a \in Addresses : view.balance[a] + (reward + stake) < Word
      BY <3>2 DEF Headroom, HasValidator
    <3>6. reward <= reward
      BY <3>3, EmissionAssumption DEF Uint64
    <3> HIDE DEF stake, reward
    <3>7. CanPayOut(FeePaid(actor).balance, actor, reward, actor, stake)
      BY <3>1, <3>3, <3>4, <3>5, <3>6, RoomToPayOut
    <3>8. CanAddBalance(FeePaid(actor).balance, actor, reward)
      BY <3>7 DEF CanPayOut
    <3>9. Moves(0, 0, reward)
      BY <2>1, <3>2, <3>3, <3>8, PayRewardMoney
    <3> QED BY <3>3, <3>9, ExactBalanced
  <2> QED BY <1>4, <1>10, <2>1 DEF ClaimValidatorTx
<1>11. ASSUME NEW u \in Addresses, ClaimDelegationTx(actor, n, u)
       PROVE  Balanced
  <2>1. CASE BeginTx(actor) /\ ExecuteClaimDelegation(actor, n, u)
    <3> DEFINE key == <<n, u>>
               stake == view.delegated[key].StakedAmount
               reward == CalculateUserDelegationRewards(em, n, u)
    <3>1. CanSubBalance(view.balance, actor, TxFee)
      BY <2>1 DEF BeginTx
    <3>2. /\ key \in DOMAIN view.delegated /\ HasDelegator(em, n, u)
          /\ em' = ClaimDelegatorRewards(em, n, u)
          /\ view' = PayReward(FeePaid(actor), actor, reward)
      BY <2>1, <3>1, FeePaidType DEF ExecuteClaimDelegation, ClaimDelegationChecks
    <3>3. HasValidator(em, n)
      BY <3>2 DEF HasDelegator
    <3>4. PICK k \in Int : Pools(em') = Pools(em) - reward + k * Word
      BY <1>2, <3>2, <3>3, ClaimPools
    <3>5. reward \in Uint64 /\ reward <= reward
      BY <1>2, <3>2, UndelegatePools, EmissionAssumption DEF Uint64
    <3>6. \A a \in Addresses : view.balance[a] + (reward + stake) < Word
      BY <3>2, <3>3 DEF Headroom, HasValidator
    <3> HIDE DEF key
    <3>7. stake \in Uint64
      BY <3>2 DEF TypeOK, IsLedger, IsMap, DelegateRecord
    <3> HIDE DEF stake, reward
    <3>8. CanPayOut(FeePaid(actor).balance, actor, reward, actor, stake)
      BY <3>1, <3>5, <3>6, <3>7, RoomToPayOut
    <3>9. CanAddBalance(FeePaid(actor).balance, actor, reward)
      BY <3>8 DEF CanPayOut
    <3>10. Moves(0, 0, reward)
      BY <2>1, <3>2, <3>5, <3>9, PayRewardMoney
    <3> QED BY <3>4, <3>5, <3>10, GainBalanced
  <2> QED BY <1>4, <1>11, <2>1 DEF ClaimDelegationTx
<1> QED BY <1>1, <1>6, <1>7, <1>8, <1>9, <1>10, <1>11

\* As long as no pay-out would overflow a balance, every staking transaction
\* moves money between balances, stakes and reward pools and makes or destroys
\* none, whatever was rejected or restarted before and however far the acceptor
\* lags.
THEOREM PaymentsConserve == Spec /\ []Headroom => PaymentsComeFromPools
<1> DEFINE P == block'.txs > block.txs =>
                  (Wealth(view') + Pools(em') + TxFee) % Word
                    = (Wealth(view) + Pools(em)) % Word
<1>1. ASSUME Typed, Headroom, [Next]_vars
      PROVE  P
  <2>1. TypeOK
    BY <1>1 DEF Typed
  <2>2. CASE ExecuteTx
    <3>1. PICK k \in Int :
            Wealth(view') + Pools(em') + TxFee = Wealth(view) + Pools(em) + k * Word
      BY <1>1, <2>1, <2>2, TxBalanced DEF Balanced
    <3>2. /\ Staked(view.registered) \in Int /\ Staked(view.delegated) \in Int
          /\ SumFunctionOnSet(view.balance, Addresses) \in Int /\ Pools(em) \in Int
      BY <2>1, LedgerStakes, PoolsInt DEF TypeOK
    <3>3. Wealth(view) + Pools(em) \in Int
      BY <3>2 DEF Wealth
    <3> QED BY <3>1, <3>3, SameModulo
  <2>3. CASE ~ ExecuteTx
    <3>1. block' = block \/ block' = NoBlock \/ block' = [NoBlock EXCEPT !.processing = TRUE]
      BY <1>1, <2>3 DEF Next, NewBlock, AcceptBlock, RejectBlock, Accepted, AcceptedFees,
                        AcceptedMint, AcceptedAdd, Restart, Finished, vars
    <3>2. block'.txs = block.txs \/ block'.txs = 0
      BY <3>1 DEF NoBlock
    <3>3. block.txs \in Nat
      BY <2>1, StakingAssumption DEF TypeOK
    <3> QED BY <3>2, <3>3
  <2> QED BY <2>2, <2>3
<1>2. Spec => []Typed
  BY InitTyped, NextTyped, PTL DEF Spec
<1>3. Typed /\ Headroom /\ [Next]_vars => [P]_vars
  BY <1>1
<1> HIDE DEF P
<1>4. Spec /\ []Headroom => [][P]_vars
  BY <1>2, <1>3, PTL DEF Spec
<1> QED BY <1>4 DEF PaymentsComeFromPools, P

-----------------------------------------------------------------------------
(* The windows of the delegations.                                        *)

\* No transaction makes a delegator late.
LEMMA ExecuteTxTimely ==
  ASSUME TypeOK, ExecuteTx, NEW h, NEW k, Timely(em, h, k)
  PROVE  Timely(em', h, k)
<1>1. PICK actor \in Addresses, n \in NodeIDs :
        \/ \E s, t \in Heights, x \in StakeAmounts, f \in FeeRates,
             r \in RewardAddresses :
             RegisterTx(actor, n, s, t, x, f, r)
        \/ \E r \in RewardAddresses : WithdrawTx(actor, n, r)
        \/ \E s, t \in Heights, x \in StakeAmounts, r \in RewardAddresses :
             DelegateTx(actor, n, s, t, x, r)
        \/ \E r \in RewardAddresses : UndelegateTx(actor, n, r)
        \/ ClaimValidatorTx(actor, n)
        \/ \E u \in Addresses : ClaimDelegationTx(actor, n, u)
  BY DEF ExecuteTx
<1>2. IsEmission(em)
  BY DEF TypeOK
<1>3. ASSUME Refuse(actor) PROVE Timely(em', h, k)
  BY <1>3 DEF Refuse
<1>4. ASSUME SameActivity(em, em') PROVE Timely(em', h, k)
  BY <1>4, SameActivityTimely
<1>5. ASSUME NEW s \in Heights, NEW t \in Heights, NEW x \in StakeAmounts,
             NEW f \in FeeRates, NEW r \in RewardAddresses,
             ExecuteRegister(actor, n, s, t, x, f, r)
      PROVE  Timely(em', h, k)
  <2>1. f \in Percent /\ x \in Uint64
    BY <1>5, StakingAssumption
       DEF ExecuteRegister, RegisterChecks, UnmarshalValidatorStakeInfoOk, Percent
  <2>2. em' = RegisterValidatorStake(em, n, s, t, x, f)
    BY <1>5 DEF ExecuteRegister
  <2> QED BY <1>2, <1>4, <2>1, <2>2, RegisterActivity
<1>6. ASSUME NEW r \in RewardAddresses, ExecuteWithdraw(actor, n, r)
      PROVE  Timely(em', h, k)
  BY <1>2, <1>4, <1>6, PayActivity DEF ExecuteWithdraw, WithdrawChecks
<1>7. ASSUME NEW s \in Heights, NEW t \in Heights, NEW x \in StakeAmounts,
             NEW r \in RewardAddresses, ExecuteDelegate(actor, n, s, t, x, r)
      PROVE  Timely(em', h, k)
  <2>1. /\ em' = DelegateUserStake(em, n, actor, s, t, x) /\ HasValidator(em, n)
        /\ x \in Uint64
    BY <1>7, StakingAssumption DEF ExecuteDelegate, DelegateChecks, DelegateUserStakeOk
  <2> QED BY <1>2, <2>1, DelegateTimely
<1>8. ASSUME NEW r \in RewardAddresses, ExecuteUndelegate(actor, n, r)
      PROVE  Timely(em', h, k)
  BY <1>2, <1>8, UndelegateTimely DEF ExecuteUndelegate, UndelegateChecks
<1>9. ASSUME ExecuteClaimValidator(actor, n) PROVE Timely(em', h, k)
  BY <1>2, <1>4, <1>9, PayActivity DEF ExecuteClaimValidator, ClaimValidatorChecks
<1>10. ASSUME NEW u \in Addresses, ExecuteClaimDelegation(actor, n, u)
       PROVE  Timely(em', h, k)
  BY <1>2, <1>4, <1>10, PayActivity
     DEF ExecuteClaimDelegation, ClaimDelegationChecks, HasDelegator
<1> QED BY <1>1, <1>3, <1>5, <1>6, <1>7, <1>8, <1>9, <1>10
        DEF RegisterTx, WithdrawTx, DelegateTx, UndelegateTx, ClaimValidatorTx,
            ClaimDelegationTx

\* A block is executed only when the acceptor has caught up; delegators are at
\* most one height late, and not at all once the height has been dealt with.
Caught == queue = <<>> \/ accepted.step = "add"

OnSchedule ==
  /\ block.processing => queue = <<>>
  /\ queue = <<>> => accepted.step = "fees"
  /\ Timely(em, height, height - 1)
  /\ Caught => Timely(em, height, height)

\* Controller.Accepted.
LEMMA AcceptedOnSchedule ==
  ASSUME Typed, OnSchedule, Accepted
  PROVE  OnSchedule'
<1>1. IsEmission(em) /\ height \in Heights
  BY DEF Typed, TypeOK
<1>2. IsEmission(em') /\ height' = height /\ block' = block
  BY AcceptedTyped DEF Typed, TypeOK, Accepted, AcceptedFees, AcceptedMint, AcceptedAdd
<1>3. queue # <<>> /\ ~ block.processing
  BY DEF Accepted, AcceptedFees, AcceptedMint, AcceptedAdd, OnSchedule
<1>4. Idle.step = "fees"
  BY DEF Idle
<1>5. ASSUME Timely(em', height, height) PROVE Timely(em', height, height - 1)
  BY <1>1, <1>2, <1>5, TimelyWeaker
<1>6. CASE AcceptedFees
  <2>1. queue' = queue /\ accepted'.step = "mint"
    <3>1. accepted \in [step : {"fees", "mint", "add"}, minted : Uint64]
      BY DEF Typed, TypeOK
    <3> QED BY <1>6, <3>1 DEF AcceptedFees
  <2>2. CASE em' = em
    BY <1>2, <1>3, <2>1, <2>2 DEF OnSchedule, Caught
  <2>3. CASE \E order \in MapOrders : em' = DistributeFees(em, Head(queue), height, order)
    <3>1. SameActivity(processEvents(em, height), em')
      BY <1>1, <2>3, FeesActivity
    <3>2. Timely(em', height, height)
      BY <1>1, <3>1, ProcessEventsTimely, SameActivityTimely DEF OnSchedule
    <3> QED BY <1>2, <1>3, <1>5, <2>1, <3>2 DEF OnSchedule, Caught
  <2> QED BY <1>6, <2>2, <2>3 DEF AcceptedFees
<1>7. CASE AcceptedMint
  <2>1. SameActivity(processEvents(em, height), em')
    BY <1>1, <1>7, MintActivity DEF AcceptedMint
  <2>2. Timely(em', height, height)
    BY <1>1, <2>1, ProcessEventsTimely, SameActivityTimely DEF OnSchedule
  <2>3. accepted'.step = "fees" \/ queue' = queue
    BY <1>4, <1>7 DEF AcceptedMint
  <2> QED BY <1>2, <1>3, <1>5, <2>2, <2>3 DEF OnSchedule, Caught
<1>8. CASE AcceptedAdd
  <2>1. Timely(em, height, height)
    BY <1>8 DEF AcceptedAdd, OnSchedule, Caught
  <2>2. SameActivity(em, em')
    BY <1>1, <1>8, AddActivity DEF AcceptedAdd
  <2>3. Timely(em', height, height)
    BY <2>1, <2>2, SameActivityTimely
  <2>4. accepted'.step = "fees"
    BY <1>4, <1>8 DEF AcceptedAdd
  <2> QED BY <1>2, <1>3, <1>5, <2>3, <2>4 DEF OnSchedule, Caught
<1> QED BY <1>6, <1>7, <1>8 DEF Accepted

\* The schedule is kept when no block is executed before the acceptor is done.
LEMMA NextOnSchedule ==
  ASSUME MaxPending = 0, Typed, OnSchedule, [Next]_vars
  PROVE  OnSchedule'
<1>1. IsEmission(em) /\ height \in Heights /\ queue \in Seq(Uint64) /\ TypeOK
  BY DEF Typed, TypeOK
<1>2. NoBlock.processing = FALSE /\ Idle.step = "fees"
  BY DEF NoBlock, Idle
<1>3. CASE NewBlock
  <2>1. queue = <<>>
    BY <1>1, <1>3, EmptySeq DEF NewBlock
  <2> QED BY <1>3, <2>1 DEF NewBlock, OnSchedule, Caught
<1>4. CASE ExecuteTx
  <2>1. PICK actor \in Addresses : BeginTx(actor)
    BY <1>1, <1>4, ExecuteTxSafe
  <2>2. block.processing /\ height' = height /\ queue' = queue /\ accepted' = accepted
    BY <2>1 DEF BeginTx
  <2> QED BY <1>1, <1>4, <2>2, ExecuteTxTimely DEF OnSchedule, Caught
<1>5. CASE AcceptBlock
  <2>1. /\ em' = em /\ height' = height + 1 /\ ~ block'.processing /\ accepted' = accepted
        /\ accepted.step = "fees"
    BY <1>2, <1>5 DEF AcceptBlock, OnSchedule
  <2>2. Timely(em, height, height)
    BY <1>5 DEF AcceptBlock, OnSchedule, Caught
  <2>3. Timely(em', height + 1, height) /\ height' - 1 = height
    BY <1>1, <2>1, <2>2, NextHeightTimely, EmissionAssumption DEF Heights
  <2>4. queue' # <<>>
    BY <1>1, <1>5 DEF AcceptBlock, Typed, TypeOK
  <2> QED BY <2>1, <2>3, <2>4 DEF OnSchedule, Caught
<1>6. CASE RejectBlock
  BY <1>2, <1>6 DEF RejectBlock, OnSchedule, Caught
<1>7. CASE Accepted
  BY <1>7, AcceptedOnSchedule
<1>8. CASE Restart
  BY <1>2, <1>8, NewTimely DEF Restart, OnSchedule, Caught
<1>9. CASE UNCHANGED vars
  BY <1>9 DEF vars, OnSchedule, Caught
<1> QED BY <1>3, <1>4, <1>5, <1>6, <1>7, <1>8, <1>9 DEF Next, Finished

\* When blocks are executed only once Controller.Accepted is done with the ones
\* before, a delegator counts as active only inside its window, with any
\* rejected blocks and any restarts.
THEOREM ActiveOnTime ==
  ASSUME MaxPending = 0
  PROVE  Spec => []ActiveInsideWindow
<1>1. Init => OnSchedule
  <2> SUFFICES ASSUME Init PROVE OnSchedule
    OBVIOUS
  <2>1. Timely(em, height, height) /\ Timely(em, height, height - 1)
    BY NewTimely DEF Init
  <2>2. ~ block.processing /\ accepted.step = "fees"
    BY DEF Init, NoBlock, Idle
  <2> QED BY <2>1, <2>2 DEF OnSchedule
<1>2. Typed /\ OnSchedule /\ [Next]_vars => OnSchedule'
  BY NextOnSchedule
<1>3. Spec => []Typed
  BY InitTyped, NextTyped, PTL DEF Spec
<1>4. OnSchedule => ActiveInsideWindow
  BY DEF OnSchedule, Caught, Timely, Punctual, ActiveInsideWindow
<1> QED BY <1>1, <1>2, <1>3, <1>4, PTL DEF Spec

-----------------------------------------------------------------------------
(* What the active delegators of one validator staked.                     *)
ActiveOf(m)    == {a \in DOMAIN m : m[a].IsActive}
SumOf(m, S)    == SumFunctionOnSet([a \in S |-> m[a].StakedAmount], S)
ActiveStake(m) == SumOf(m, ActiveOf(m))

\* The sum over some of the delegators.
LEMMA SumOfInt ==
  ASSUME NEW m, IsMap(m, Addresses, Delegator), NEW S, S \subseteq DOMAIN m
  PROVE  IsFiniteSet(S) /\ SumOf(m, S) \in Int /\ \A a \in S : m[a].StakedAmount \in Int
<1>1. S \subseteq Addresses
  BY DEF IsMap
<1>2. IsFiniteSet(S)
  BY <1>1, EmissionAssumption, FS_Subset
<1>3. ASSUME NEW a \in S PROVE m[a].StakedAmount \in Int
  <2>1. m[a] \in Delegator
    BY DEF IsMap
  <2> QED BY <2>1, EmissionAssumption DEF Delegator, Uint64
<1> DEFINE f == [a \in S |-> m[a].StakedAmount]
<1>4. \A a \in S : f[a] \in Int
  BY <1>3
<1> HIDE DEF f
<1>5. SumFunctionOnSet(f, S) \in Int
  BY <1>2, <1>4, SumInt
<1> QED BY <1>2, <1>3, <1>5 DEF SumOf, f

\* It depends only on what they staked.
LEMMA SumOfSame ==
  ASSUME NEW m, NEW w, NEW S, IsFiniteSet(S),
         \A a \in S : w[a].StakedAmount = m[a].StakedAmount
  PROVE  SumOf(w, S) = SumOf(m, S)
  BY SumSame DEF SumOf

\* The sum over delegators of two kinds.
LEMMA SumOfUnion ==
  ASSUME NEW m, IsMap(m, Addresses, Delegator), NEW S, NEW U, S \cap U = {},
         S \subseteq DOMAIN m, U \subseteq DOMAIN m
  PROVE  SumOf(m, S \cup U) = SumOf(m, S) + SumOf(m, U)
<1> DEFINE T == S \cup U
           f == [a \in T |-> m[a].StakedAmount]
           g == [a \in S |-> m[a].StakedAmount]
           h == [a \in U |-> m[a].StakedAmount]
<1>1. /\ IsFiniteSet(S) /\ IsFiniteSet(U)
      /\ \A a \in T : m[a].StakedAmount \in Int
  BY SumOfInt
<1>2. /\ \A a \in T : f[a] \in Int
      /\ \A a \in S : f[a] = g[a]
      /\ \A a \in U : f[a] = h[a]
  BY <1>1
<1>3. SumOf(m, T) = SumFunctionOnSet(f, T)
  BY DEF SumOf
<1>4. SumOf(m, S) = SumFunctionOnSet(g, S) /\ SumOf(m, U) = SumFunctionOnSet(h, U)
  BY DEF SumOf
<1> HIDE DEF f, g, h
<1>5. SumFunctionOnSet(f, T) = SumFunctionOnSet(f, S) + SumFunctionOnSet(f, U)
  BY <1>1, <1>2, SumUnion
<1>6. /\ SumFunctionOnSet(f, S) = SumFunctionOnSet(g, S)
      /\ SumFunctionOnSet(f, U) = SumFunctionOnSet(h, U)
  BY <1>1, <1>2, SumSame
<1> QED BY <1>3, <1>4, <1>5, <1>6

\* The same delegators count, with the same stakes.
LEMMA ActiveStakeSame ==
  ASSUME NEW m, IsMap(m, Addresses, Delegator), NEW w, ActiveOf(w) = ActiveOf(m),
         \A a \in ActiveOf(m) : w[a].StakedAmount = m[a].StakedAmount
  PROVE  ActiveStake(w) = ActiveStake(m)
<1>1. ActiveOf(m) \subseteq DOMAIN m
  BY DEF ActiveOf
<1>2. IsFiniteSet(ActiveOf(m))
  BY <1>1, SumOfInt
<1> QED BY <1>2, SumOfSame DEF ActiveStake

\* What counts is not negative.
LEMMA ActiveStakeNat ==
  ASSUME NEW m, IsMap(m, Addresses, Delegator)
  PROVE  ActiveStake(m) \in Nat
<1> DEFINE S == ActiveOf(m)
           f == [a \in S |-> m[a].StakedAmount]
<1>1. S \subseteq DOMAIN m
  BY DEF ActiveOf
<1>2. IsFiniteSet(S)
  BY <1>1, SumOfInt
<1>3. ASSUME NEW a \in S PROVE f[a] \in Nat
  <2>1. m[a] \in Delegator
    BY <1>1 DEF IsMap
  <2> QED BY <2>1, EmissionAssumption DEF Delegator, Uint64
<1> HIDE DEF S, f
<1>4. SumFunctionOnSet(f, S) \in Nat
  BY <1>2, <1>3, SumNat
<1> QED BY <1>4 DEF ActiveStake, SumOf, S, f

\* A delegator that does not count yet is added.
LEMMA ActivePut ==
  ASSUME NEW m, IsMap(m, Addresses, Delegator), NEW a, a \notin DOMAIN m,
         NEW d, ~ d.IsActive
  PROVE  ActiveStake(Put(m, a, d)) = ActiveStake(m)
<1>1. /\ ActiveOf(Put(m, a, d)) = ActiveOf(m)
      /\ \A b \in ActiveOf(m) : Put(m, a, d)[b].StakedAmount = m[b].StakedAmount
  BY DEF ActiveOf, Put
<1> QED BY <1>1, ActiveStakeSame

\* One that does not count any more is removed.
LEMMA ActiveDelete ==
  ASSUME NEW m, IsMap(m, Addresses, Delegator), NEW a \in DOMAIN m, ~ m[a].IsActive
  PROVE  ActiveStake(Delete(m, a)) = ActiveStake(m)
<1>1. /\ ActiveOf(Delete(m, a)) = ActiveOf(m)
      /\ \A b \in ActiveOf(m) : Delete(m, a)[b].StakedAmount = m[b].StakedAmount
  BY DEF ActiveOf, Delete
<1> QED BY <1>1, ActiveStakeSame

\* Some delegators start, or stop, counting.
On(m, S)  == SetActive(m, S, TRUE)
Off(m, S) == SetActive(m, S, FALSE)

\* Who counts after some delegators have started or stopped.
LEMMA ActiveOfSet ==
  ASSUME NEW m, IsMap(m, Addresses, Delegator), NEW S, S \subseteq DOMAIN m
  PROVE  /\ ActiveOf(On(m, S)) = ActiveOf(m) \cup S
         /\ ActiveOf(Off(m, S)) = ActiveOf(m) \ S
         /\ \A a \in DOMAIN m :
              /\ On(m, S)[a].StakedAmount = m[a].StakedAmount
              /\ Off(m, S)[a].StakedAmount = m[a].StakedAmount
<1>1. DOMAIN On(m, S) = DOMAIN m /\ DOMAIN Off(m, S) = DOMAIN m
  BY DEF SetActive, On, Off
<1>2. ASSUME NEW a \in DOMAIN m
      PROVE  /\ On(m, S)[a].IsActive <=> a \in S \/ m[a].IsActive
             /\ Off(m, S)[a].IsActive <=> a \notin S /\ m[a].IsActive
             /\ On(m, S)[a].StakedAmount = m[a].StakedAmount
             /\ Off(m, S)[a].StakedAmount = m[a].StakedAmount
  <2>1. m[a] \in Delegator
    BY DEF IsMap
  <2>2. CASE a \in S
    <3>1. /\ On(m, S)[a] = [m[a] EXCEPT !.IsActive = TRUE]
          /\ Off(m, S)[a] = [m[a] EXCEPT !.IsActive = FALSE]
      BY <2>2 DEF SetActive, On, Off
    <3> QED BY <2>1, <2>2, <3>1 DEF Delegator
  <2>3. CASE a \notin S
    BY <2>3 DEF SetActive, On, Off
  <2> QED BY <2>2, <2>3
<1> QED BY <1>1, <1>2 DEF ActiveOf

\* Delegators that did not count start to.
LEMMA ActiveOn ==
  ASSUME NEW m, IsMap(m, Addresses, Delegator), NEW S, S \subseteq DOMAIN m,
         \A a \in S : ~ m[a].IsActive
  PROVE  ActiveStake(On(m, S)) = ActiveStake(m) + SumOf(m, S)
<1> DEFINE w == On(m, S)
           A == ActiveOf(m)
<1>1. A \subseteq DOMAIN m /\ A \cap S = {}
  BY DEF ActiveOf
<1>2. ActiveOf(w) = A \cup S /\ \A a \in DOMAIN m : w[a].StakedAmount = m[a].StakedAmount
  BY ActiveOfSet
<1> HIDE DEF w, A
<1>3. IsFiniteSet(A \cup S)
  BY <1>1, SumOfInt
<1>4. SumOf(w, A \cup S) = SumOf(m, A \cup S)
  BY <1>1, <1>2, <1>3, SumOfSame
<1>5. SumOf(m, A \cup S) = SumOf(m, A) + SumOf(m, S)
  BY <1>1, SumOfUnion
<1> QED BY <1>2, <1>4, <1>5 DEF ActiveStake, w, A

\* Delegators that counted stop to.
LEMMA ActiveOff ==
  ASSUME NEW m, IsMap(m, Addresses, Delegator), NEW S, S \subseteq ActiveOf(m)
  PROVE  ActiveStake(Off(m, S)) = ActiveStake(m) - SumOf(m, S)
<1> DEFINE w == Off(m, S)
           A == ActiveOf(m) \ S
<1>1. /\ A \subseteq DOMAIN m /\ S \subseteq DOMAIN m /\ A \cap S = {}
      /\ A \cup S = ActiveOf(m)
  BY DEF ActiveOf
<1>2. ActiveOf(w) = A /\ \A a \in DOMAIN m : w[a].StakedAmount = m[a].StakedAmount
  BY <1>1, ActiveOfSet
<1> HIDE DEF w, A
<1>3. IsFiniteSet(A) /\ SumOf(m, A) \in Int /\ SumOf(m, S) \in Int
  BY <1>1, SumOfInt
<1>4. SumOf(w, A) = SumOf(m, A)
  BY <1>1, <1>2, <1>3, SumOfSame
<1>5. SumOf(m, A \cup S) = SumOf(m, A) + SumOf(m, S)
  BY <1>1, SumOfUnion
<1>6. ActiveStake(m) = SumOf(m, A) + SumOf(m, S) /\ ActiveStake(w) = SumOf(m, A)
  BY <1>1, <1>2, <1>4, <1>5 DEF ActiveStake
<1>7. ActiveStake(w) = ActiveStake(m) - SumOf(m, S)
  BY <1>3, <1>6
<1> QED BY <1>7 DEF w

\* Wrapping twice is wrapping once.
LEMMA WrapTwice ==
  ASSUME NEW x \in Int, NEW y \in Int
  PROVE  Wrap(Wrap(x) + y) = Wrap(x + y) /\ Wrap(Wrap(x) - y) = Wrap(x - y)
<1>1. PICK k \in Int : Wrap(x) = x + k * Word
  BY WrapValue
<1> DEFINE z == k * Word
<1>2. z \in Int
  BY EmissionAssumption
<1>3. Wrap(x) = x + z
  BY <1>1
<1>4. (x + y) + z \in Int /\ (x - y) + z \in Int /\ x + y \in Int /\ x - y \in Int
  BY <1>2
<1>5. ((x + y) + z) % Word = (x + y) % Word /\ ((x - y) + z) % Word = (x - y) % Word
  BY <1>4, SameModulo
<1> HIDE DEF z
<1>6. Wrap(x) + y = (x + y) + z /\ Wrap(x) - y = (x - y) + z
  BY <1>2, <1>3
<1> QED BY <1>4, <1>5, <1>6 DEF Wrap

-----------------------------------------------------------------------------
\* Every validator's DelegatedAmount is the uint64 sum of the stakes that count.
Current(v) == v.DelegatedAmount = Wrap(ActiveStake(v.delegators))
Counted(e) == \A n \in DOMAIN e.validators : Current(ValidatorOf(e, n))

\* Nobody counts where there is nobody.
LEMMA NoneCounted ==
  ASSUME NEW m, DOMAIN m = {}
  PROVE  Wrap(ActiveStake(m)) = 0
<1>1. ActiveOf(m) = {}
  BY DEF ActiveOf
<1>2. ActiveStake(m) = 0
  BY <1>1, SumEmpty DEF ActiveStake, SumOf
<1> QED BY <1>2, ZeroType, WrapValue

\* What leaves the delegators alone leaves the sums right.
LEMMA SameActivityCounted ==
  ASSUME NEW e, NEW f, SameActivity(e, f), Counted(e)
  PROVE  Counted(f)
<1> SUFFICES ASSUME NEW n \in DOMAIN f.validators PROVE Current(ValidatorOf(f, n))
  BY DEF Counted
<1>1. CASE /\ n \in DOMAIN e.validators
           /\ ValidatorOf(f, n).delegators = ValidatorOf(e, n).delegators
           /\ ValidatorOf(f, n).DelegatedAmount = ValidatorOf(e, n).DelegatedAmount
  BY <1>1 DEF Counted, Current
<1>2. CASE /\ DOMAIN ValidatorOf(f, n).delegators = {}
           /\ ValidatorOf(f, n).DelegatedAmount = 0
  BY <1>2, NoneCounted DEF Current
<1> QED BY <1>1, <1>2 DEF SameActivity

\* Delegation.
LEMMA DelegateCounted ==
  ASSUME NEW e, IsEmission(e), NEW n, NEW a \in Addresses, DelegateUserStakeOk(e, n, a),
         NEW s \in Heights, NEW t \in Heights, NEW x \in Uint64, Counted(e)
  PROVE  Counted(DelegateUserStake(e, n, a, s, t, x))
<1> DEFINE g == DelegateUserStake(e, n, a, s, t, x)
           c == NewDelegator(s, t, x)
           v == ValidatorOf(e, n)
<1>1. n \in DOMAIN e.validators /\ a \notin DOMAIN v.delegators
  BY DEF DelegateUserStakeOk, HasValidator, HasDelegator
<1>2. /\ g.validators = e.validators
      /\ ValidatorOf(g, n).delegators = Put(v.delegators, a, c)
      /\ \A m \in DOMAIN e.validators \ {n} : ValidatorOf(g, m) = ValidatorOf(e, m)
  BY <1>1, DelegateType DEF HasValidator
<1>3. ValidatorOf(g, n).DelegatedAmount = v.DelegatedAmount
  <2> DEFINE p == Put(v.delegators, a, c)
             w == [v EXCEPT !.delegators = p]
  <2>1. IsValidator(v) /\ e.validators[n] \in DOMAIN e.heap
    BY <1>1, ValidatorOfType DEF IsEmission, IsMap
  <2>2. w.DelegatedAmount = v.DelegatedAmount
    BY <2>1 DEF IsValidator
  <2>3. /\ g.heap = [e.heap EXCEPT ![e.validators[n]] = w]
        /\ g.validators = e.validators
    BY DEF DelegateUserStake, WithValidator, IsEmission, EmissionFields
  <2> HIDE DEF g, w
  <2>4. ValidatorOf(g, n) = w
    BY <2>1, <2>3 DEF ValidatorOf, IsEmission
  <2> QED BY <2>2, <2>4
<1>4. IsMap(v.delegators, Addresses, Delegator) /\ ~ c.IsActive
  BY <1>1, ValidatorOfType DEF IsValidator, NewDelegator
<1> HIDE DEF g, c, v
<1>5. ActiveStake(Put(v.delegators, a, c)) = ActiveStake(v.delegators)
  BY <1>1, <1>4, ActivePut
<1>6. Current(v)
  BY <1>1 DEF Counted, v
<1>7. Current(ValidatorOf(g, n))
  BY <1>2, <1>3, <1>5, <1>6 DEF Current
<1> QED BY <1>2, <1>7 DEF Counted, g

\* A delegator that does not count leaves.
LEMMA UndelegateCounted ==
  ASSUME NEW e, IsEmission(e), NEW n, NEW a, HasDelegator(e, n, a),
         ~ ValidatorOf(e, n).delegators[a].IsActive, Counted(e)
  PROVE  Counted(UndelegateUserStake(e, n, a))
<1> DEFINE g == UndelegateUserStake(e, n, a)
           v == ValidatorOf(e, n)
<1>1. DOMAIN g.validators \subseteq DOMAIN e.validators
  BY DEF UndelegateUserStake, WithValidator, IsEmission, EmissionFields, Delete
<1>2. \A m \in DOMAIN e.validators \ {n} : ValidatorOf(g, m) = ValidatorOf(e, m)
  BY UndelegateType
<1>3. n \in DOMAIN g.validators =>
        /\ ValidatorOf(g, n).delegators = Delete(v.delegators, a)
        /\ ValidatorOf(g, n).DelegatedAmount = v.DelegatedAmount
  BY UndelegateBooks
<1>4. n \in DOMAIN e.validators /\ a \in DOMAIN v.delegators
  BY DEF HasDelegator, HasValidator
<1>5. IsMap(v.delegators, Addresses, Delegator) /\ ~ v.delegators[a].IsActive
  BY <1>4, ValidatorOfType DEF IsValidator
<1> HIDE DEF g, v
<1>6. ActiveStake(Delete(v.delegators, a)) = ActiveStake(v.delegators)
  BY <1>4, <1>5, ActiveDelete
<1>7. Current(v)
  BY <1>4 DEF Counted, v
<1>8. n \in DOMAIN g.validators => Current(ValidatorOf(g, n))
  BY <1>3, <1>6, <1>7 DEF Current
<1> QED BY <1>1, <1>2, <1>8 DEF Counted, g

\* The objects in the map are live, and have the types of validators.
LEMMA LiveObject ==
  ASSUME NEW e, IsEmission(e), NEW n \in DOMAIN e.validators
  PROVE  /\ e.validators[n] \in DOMAIN e.heap
         /\ IsLive(e, e.validators[n])
         /\ ValidatorOf(e, n) = e.heap[e.validators[n]]
         /\ IsMap(ValidatorOf(e, n).delegators, Addresses, Delegator)
<1>1. e.validators[n] \in DOMAIN e.heap /\ e.heap[e.validators[n]].NodeID = n
  BY DEF IsEmission, IsMap
<1>2. IsValidator(ValidatorOf(e, n))
  BY ValidatorOfType
<1> QED BY <1>1, <1>2 DEF IsLive, HasValidator, ValidatorOf, IsValidator

\* Some delegators start to count.
LEMMA ActivateCounted ==
  ASSUME NEW e, IsEmission(e), NEW h, Counted(e)
  PROVE  Counted(ActivateDelegators(e, h))
<1> DEFINE g == ActivateDelegators(e, h)
<1> SUFFICES ASSUME NEW n \in DOMAIN g.validators PROVE Current(ValidatorOf(g, n))
  BY DEF Counted
<1> DEFINE r == e.validators[n]
           v == e.heap[r]
           w == g.heap[r]
           S == Starting(e, h, r)
<1>1. n \in DOMAIN e.validators /\ g.validators = e.validators
  BY ActivateDelegatorsBooks
<1>2. /\ r \in DOMAIN e.heap /\ IsLive(e, r) /\ ValidatorOf(e, n) = v
      /\ IsMap(v.delegators, Addresses, Delegator)
  BY <1>1, LiveObject
<1>3. /\ w.delegators = SetActive(v.delegators, S, TRUE)
      /\ w.DelegatedAmount = Wrap(v.DelegatedAmount + StakeOf(v, S))
  BY <1>2, ActivateDelegatorsBooks
<1>4. S \subseteq DOMAIN v.delegators /\ \A a \in S : ~ v.delegators[a].IsActive
  BY DEF Starting
<1>5. ValidatorOf(g, n) = w
  BY <1>1 DEF ValidatorOf
<1>6. v.DelegatedAmount = Wrap(ActiveStake(v.delegators))
  BY <1>1, <1>2 DEF Counted, Current
<1>7. StakeOf(v, S) = SumOf(v.delegators, S)
  BY DEF StakeOf, SumOf
<1> DEFINE m == v.delegators
<1> HIDE DEF g, r, v, w, S
<1>8. w.delegators = On(m, S)
  BY <1>3 DEF On
<1> HIDE DEF m
<1>9. ActiveStake(On(m, S)) = ActiveStake(m) + SumOf(m, S)
  BY <1>2, <1>4, ActiveOn DEF m
<1>10. ActiveStake(m) \in Int /\ SumOf(m, S) \in Int
  <2>1. ActiveOf(m) \subseteq DOMAIN m
    BY DEF ActiveOf
  <2> QED BY <1>2, <1>4, <2>1, SumOfInt DEF m, ActiveStake
<1>11. w.DelegatedAmount = Wrap(Wrap(ActiveStake(m)) + SumOf(m, S))
  BY <1>3, <1>6, <1>7 DEF m
<1>12. Wrap(Wrap(ActiveStake(m)) + SumOf(m, S)) = Wrap(ActiveStake(m) + SumOf(m, S))
  BY <1>10, WrapTwice
<1> QED BY <1>5, <1>8, <1>9, <1>11, <1>12 DEF Current

\* Some stop to.
LEMMA DeactivateCounted ==
  ASSUME NEW e, IsEmission(e), NEW h, Counted(e)
  PROVE  Counted(DeactivateDelegators(e, h))
<1> DEFINE g == DeactivateDelegators(e, h)
<1> SUFFICES ASSUME NEW n \in DOMAIN g.validators PROVE Current(ValidatorOf(g, n))
  BY DEF Counted
<1> DEFINE r == e.validators[n]
           v == e.heap[r]
           w == g.heap[r]
           S == Ending(e, h, r)
<1>1. n \in DOMAIN e.validators /\ g.validators = e.validators
  BY DeactivateDelegatorsBooks
<1>2. /\ r \in DOMAIN e.heap /\ IsLive(e, r) /\ ValidatorOf(e, n) = v
      /\ IsMap(v.delegators, Addresses, Delegator)
  BY <1>1, LiveObject
<1>3. /\ w.delegators = SetActive(v.delegators, S, FALSE)
      /\ w.DelegatedAmount = Wrap(v.DelegatedAmount - StakeOf(v, S))
  BY <1>2, DeactivateDelegatorsBooks
<1>4. S \subseteq ActiveOf(v.delegators)
  BY DEF Ending, ActiveOf
<1>5. ValidatorOf(g, n) = w
  BY <1>1 DEF ValidatorOf
<1>6. v.DelegatedAmount = Wrap(ActiveStake(v.delegators))
  BY <1>1, <1>2 DEF Counted, Current
<1>7. StakeOf(v, S) = SumOf(v.delegators, S)
  BY DEF StakeOf, SumOf
<1> DEFINE m == v.delegators
<1> HIDE DEF g, r, v, w, S
<1>8. w.delegators = Off(m, S)
  BY <1>3 DEF Off
<1> HIDE DEF m
<1>9. ActiveStake(Off(m, S)) = ActiveStake(m) - SumOf(m, S)
  BY <1>2, <1>4, ActiveOff DEF m
<1>10. ActiveStake(m) \in Int /\ SumOf(m, S) \in Int
  <2>1. ActiveOf(m) \subseteq DOMAIN m /\ S \subseteq DOMAIN m
    BY <1>4 DEF ActiveOf, m
  <2> QED BY <1>2, <2>1, SumOfInt DEF m, ActiveStake
<1>11. w.DelegatedAmount = Wrap(Wrap(ActiveStake(m)) - SumOf(m, S))
  BY <1>3, <1>6, <1>7 DEF m
<1>12. Wrap(Wrap(ActiveStake(m)) - SumOf(m, S)) = Wrap(ActiveStake(m) - SumOf(m, S))
  BY <1>10, WrapTwice
<1> QED BY <1>5, <1>8, <1>9, <1>11, <1>12 DEF Current
\* Processing the events of a height keeps the sums right.
LEMMA ProcessEventsCounted ==
  ASSUME NEW e, IsEmission(e), NEW h, Counted(e)
  PROVE  Counted(processEvents(e, h))
<1> DEFINE e1 == ActivateValidators(e, h)
           e2 == DeactivateValidators(e1, h)
           e3 == ActivateDelegators(e2, h)
<1>1. IsEmission(e1) /\ SameActivity(e, e1)
  BY ActivateValidatorsType, ValidatorStagesActivity
<1> HIDE DEF e1
<1>2. IsEmission(e2) /\ SameActivity(e1, e2)
  BY <1>1, DeactivateValidatorsType, ValidatorStagesActivity
<1> HIDE DEF e2
<1>3. Counted(e2)
  BY <1>1, <1>2, SameActivityCounted
<1>4. IsEmission(e3) /\ Counted(e3)
  BY <1>2, <1>3, ActivateDelegatorsType, ActivateCounted
<1> HIDE DEF e3
<1>5. Counted(DeactivateDelegators(e3, h))
  BY <1>4, DeactivateCounted
<1> QED BY <1>5 DEF processEvents, e1, e2, e3

\* No transaction takes away a delegator that counts: by then its end, which the
\* balancer and the record agree on, has come.
LEMMA ExecuteTxCounted ==
  ASSUME TypeOK, RecordsBacked, Timely(em, height, height), Counted(em), ExecuteTx
  PROVE  Counted(em')
<1>1. PICK actor \in Addresses, n \in NodeIDs :
        \/ \E s, t \in Heights, x \in StakeAmounts, f \in FeeRates,
             r \in RewardAddresses :
             RegisterTx(actor, n, s, t, x, f, r)
        \/ \E r \in RewardAddresses : WithdrawTx(actor, n, r)
        \/ \E s, t \in Heights, x \in StakeAmounts, r \in RewardAddresses :
             DelegateTx(actor, n, s, t, x, r)
        \/ \E r \in RewardAddresses : UndelegateTx(actor, n, r)
        \/ ClaimValidatorTx(actor, n)
        \/ \E u \in Addresses : ClaimDelegationTx(actor, n, u)
  BY DEF ExecuteTx
<1>2. IsEmission(em)
  BY DEF TypeOK
<1>3. ASSUME Refuse(actor) PROVE Counted(em')
  BY <1>3 DEF Refuse
<1>4. ASSUME SameActivity(em, em') PROVE Counted(em')
  BY <1>4, SameActivityCounted
<1>5. ASSUME NEW s \in Heights, NEW t \in Heights, NEW x \in StakeAmounts,
             NEW f \in FeeRates, NEW r \in RewardAddresses,
             ExecuteRegister(actor, n, s, t, x, f, r)
      PROVE  Counted(em')
  <2>1. f \in Percent /\ x \in Uint64
    BY <1>5, StakingAssumption
       DEF ExecuteRegister, RegisterChecks, UnmarshalValidatorStakeInfoOk, Percent
  <2>2. em' = RegisterValidatorStake(em, n, s, t, x, f)
    BY <1>5 DEF ExecuteRegister
  <2> QED BY <1>2, <1>4, <2>1, <2>2, RegisterActivity
<1>6. ASSUME NEW r \in RewardAddresses, ExecuteWithdraw(actor, n, r)
      PROVE  Counted(em')
  BY <1>2, <1>4, <1>6, PayActivity DEF ExecuteWithdraw, WithdrawChecks
<1>7. ASSUME NEW s \in Heights, NEW t \in Heights, NEW x \in StakeAmounts,
             NEW r \in RewardAddresses, ExecuteDelegate(actor, n, s, t, x, r)
      PROVE  Counted(em')
  <2>1. /\ em' = DelegateUserStake(em, n, actor, s, t, x)
        /\ DelegateUserStakeOk(em, n, actor) /\ x \in Uint64
    BY <1>7, StakingAssumption DEF ExecuteDelegate, DelegateChecks
  <2> QED BY <1>2, <2>1, DelegateCounted
<1>8. ASSUME NEW r \in RewardAddresses, UndelegateTx(actor, n, r),
             ExecuteUndelegate(actor, n, r)
      PROVE  Counted(em')
  <2> DEFINE key == <<n, actor>>
             d == ValidatorOf(em, n).delegators[actor]
  <2>1. FeePaid(actor).delegated = view.delegated
    BY <1>8, FeePaidType DEF UndelegateTx, BeginTx
  <2>2. /\ em' = UndelegateUserStake(em, n, actor) /\ HasDelegator(em, n, actor)
        /\ key \in DOMAIN view.delegated /\ height >= view.delegated[key].StakeEndBlock
    BY <1>8, <2>1 DEF ExecuteUndelegate, UndelegateChecks
  <2>3. DelegationBacked(em, n, actor, view.delegated[key])
    BY <2>2 DEF RecordsBacked
  <2>4. d.StakeEndBlock = view.delegated[key].StakeEndBlock
    BY <2>3 DEF DelegationBacked
  <2>5. Punctual(d, n, actor, em.delegatorDeactivationEvents, height, height)
    BY <2>2 DEF Timely, HasDelegator, HasValidator
  <2>6. d \in Delegator /\ height \in Heights
    BY <1>2, <2>2, ValidatorOfType
       DEF TypeOK, HasDelegator, HasValidator, IsValidator, IsMap
  <2> HIDE DEF d, key
  <2>7. d.StakeEndBlock \in Int /\ height \in Int
    BY <2>6, EmissionAssumption DEF Delegator, Heights
  <2>8. ~ d.IsActive
    BY <2>2, <2>4, <2>5, <2>7 DEF Punctual
  <2> QED BY <1>2, <2>2, <2>8, UndelegateCounted DEF d
<1>9. ASSUME ExecuteClaimValidator(actor, n) PROVE Counted(em')
  BY <1>2, <1>4, <1>9, PayActivity DEF ExecuteClaimValidator, ClaimValidatorChecks
<1>10. ASSUME NEW u \in Addresses, ExecuteClaimDelegation(actor, n, u)
       PROVE  Counted(em')
  BY <1>2, <1>4, <1>10, PayActivity
     DEF ExecuteClaimDelegation, ClaimDelegationChecks, HasDelegator
<1> QED BY <1>1, <1>3, <1>5, <1>6, <1>7, <1>8, <1>9, <1>10
        DEF RegisterTx, WithdrawTx, DelegateTx, UndelegateTx, ClaimValidatorTx,
            ClaimDelegationTx

\* Nor does any other step spoil the sums.
LEMMA NextCounted ==
  ASSUME Typed, OnSchedule, RecordsBacked, Counted(em), [Next]_vars
  PROVE  Counted(em')
<1>1. IsEmission(em) /\ height \in Heights /\ TypeOK
  BY DEF Typed, TypeOK
<1>2. CASE ExecuteTx
  <2>1. PICK actor \in Addresses : BeginTx(actor)
    BY <1>1, <1>2, ExecuteTxSafe
  <2>2. Timely(em, height, height)
    BY <2>1 DEF BeginTx, OnSchedule, Caught
  <2> QED BY <1>1, <1>2, <2>2, ExecuteTxCounted
<1>3. CASE Accepted
  <2>1. Counted(processEvents(em, height))
    BY <1>1, ProcessEventsCounted
  <2>2. \/ em' = em \/ SameActivity(processEvents(em, height), em')
        \/ SameActivity(em, em')
    BY <1>1, <1>3, FeesActivity, MintActivity, AddActivity
       DEF Accepted, AcceptedFees, AcceptedMint, AcceptedAdd
  <2> QED BY <2>1, <2>2, SameActivityCounted
<1>4. CASE NewBlock \/ AcceptBlock \/ RejectBlock \/ UNCHANGED vars
  BY <1>4 DEF NewBlock, AcceptBlock, RejectBlock, vars
<1>5. CASE Restart
  BY <1>5, EmptyMapType DEF Restart, New, Counted
<1> QED BY <1>2, <1>3, <1>4, <1>5 DEF Next, Finished

\* On a node that rejects no block, is never restarted and executes a block only
\* once Controller.Accepted is done with the ones before, a validator's
\* DelegatedAmount is what its active delegators staked, as long as no pay-out
\* overflows a balance and the sum itself fits in a uint64.
THEOREM DelegationsCounted ==
  ASSUME MaxPending = 0, ~ MayReject, ~ MayRestart
  PROVE  Spec /\ []Headroom => []DelegatedAmountCurrent
<1>1. Init => OnSchedule /\ Counted(em)
  <2> SUFFICES ASSUME Init PROVE OnSchedule /\ Counted(em)
    OBVIOUS
  <2>1. Timely(em, height, height) /\ Timely(em, height, height - 1)
    BY NewTimely DEF Init
  <2>2. ~ block.processing /\ accepted.step = "fees"
    BY DEF Init, NoBlock, Idle
  <2>3. Counted(em)
    BY EmptyMapType DEF Init, New, Counted
  <2> QED BY <2>1, <2>2, <2>3 DEF OnSchedule
<1>2. Typed /\ OnSchedule /\ RecordsBacked /\ Counted(em) /\ [Next]_vars
        => OnSchedule' /\ Counted(em)'
  BY NextOnSchedule, NextCounted
<1>3. Spec => []Typed
  BY InitTyped, NextTyped, PTL DEF Spec
<1>4. Spec /\ []Headroom => []RecordsBacked
  BY StakesBacked
<1>5. ASSUME Typed, Headroom, Counted(em) PROVE DelegatedAmountCurrent
  <2> SUFFICES ASSUME NEW n \in DOMAIN em.validators
               PROVE  LET v == ValidatorOf(em, n)
                      IN v.DelegatedAmount = StakeOf(v, Counting(v))
    BY DEF DelegatedAmountCurrent
  <2> DEFINE v == ValidatorOf(em, n)
             m == v.delegators
  <2>1. IsMap(m, Addresses, Delegator)
    BY <1>5, LiveObject DEF Typed, TypeOK
  <2>2. StakeOf(v, Counting(v)) = ActiveStake(m)
    BY DEF StakeOf, Counting, ActiveStake, SumOf, ActiveOf
  <2>3. ActiveStake(m) < Word
    BY <1>5, <2>2 DEF Headroom
  <2>4. v.DelegatedAmount = Wrap(ActiveStake(m))
    BY <1>5 DEF Counted, Current
  <2> HIDE DEF m, v
  <2>5. ActiveStake(m) \in Nat
    BY <2>1, ActiveStakeNat
  <2>6. ActiveStake(m) \in Uint64
    BY <2>3, <2>5, EmissionAssumption DEF Uint64
  <2>7. Wrap(ActiveStake(m)) = ActiveStake(m)
    BY <2>6, WrapValue
  <2> QED BY <2>2, <2>4, <2>7 DEF v
<1> QED BY <1>1, <1>2, <1>3, <1>4, <1>5, PTL DEF Spec
=============================================================================
