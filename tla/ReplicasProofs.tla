--------------------------- MODULE ReplicasProofs ---------------------------
(***************************************************************************)
(* Theorems about Replicas.  A transaction is first described as a         *)
(* relation between a balancer and chain state before it and after it, so  *)
(* that what the two nodes do in different orders can be compared.         *)
(***************************************************************************)
EXTENDS Replicas, StakingProofs

-----------------------------------------------------------------------------
(* Transactions.                                                           *)

\* The fields of a transaction.
LEMMA TxFields ==
  ASSUME NEW t \in Txs
  PROVE  /\ t.actor \in Addresses /\ t.nodeID \in NodeIDs
         /\ t.kind \in {"register", "withdraw", "delegate", "undelegate",
                        "claimValidator", "claimDelegation"}
         /\ t.kind = "register" =>
              /\ t.start \in Heights /\ t.end \in Heights /\ t.amount \in StakeAmounts
              /\ t.feeRate \in FeeRates /\ t.rewardAddress \in RewardAddresses
         /\ t.kind = "delegate" =>
              /\ t.start \in Heights /\ t.end \in Heights /\ t.amount \in StakeAmounts
              /\ t.rewardAddress \in RewardAddresses
         /\ t.kind \in {"withdraw", "undelegate"} => t.rewardAddress \in RewardAddresses
         /\ t.kind = "claimDelegation" => t.userStakeAddress \in Addresses
  BY DEF Txs, Registers, Delegates, Payouts, Claims

\* What a delegator with the terms d is due, given the rewards of the epochs and
\* the stakes that shared them.
Due(rewards, amounts, d) ==
  LET counted == {p \in DOMAIN rewards \cap DOMAIN amounts :
                    /\ d.StakeStartBlock \div EpochLength <= p
                    /\ p <= d.StakeEndBlock \div EpochLength
                    /\ amounts[p] > 0}
      share(p) == FloatToUint64((rewards[p] * d.StakedAmount) \div amounts[p])
  IN Wrap(MapThenSumSet(share, counted))

DueTo(v, a) == Due(v.epochRewards, v.delegatedAmountPerEpoch, v.delegators[a])

\* CalculateUserDelegationRewards looks at three fields of the validator.
LEMMA DueCalculated ==
  ASSUME NEW e, NEW n, NEW a
  PROVE  CalculateUserDelegationRewards(e, n, a) = DueTo(ValidatorOf(e, n), a)
  BY DEF CalculateUserDelegationRewards, Due, DueTo

\* A reward that is due is a uint64.
LEMMA DueType == \A v, a : DueTo(v, a) \in Uint64
  BY WrapType DEF DueTo, Due

\* What UndelegateUserStake pays: no more than the pool has.
Clamped(v, a) ==
  IF DueTo(v, a) > v.AccumulatedDelegatedReward
    THEN v.AccumulatedDelegatedReward ELSE DueTo(v, a)

\* What a transaction pays out of a reward pool of the validator v.
Reward(v, t) ==
  CASE t.kind \in {"withdraw", "claimValidator"} -> v.AccumulatedStakedReward
    [] t.kind = "undelegate" -> Clamped(v, t.actor)
    [] t.kind = "claimDelegation" -> DueTo(v, t.actor)
    [] OTHER -> 0

\* The validator v after the transaction.
Revised(v, t) ==
  CASE t.kind = "register" ->
         [v EXCEPT !.IsActive = TRUE, !.StakedAmount = t.amount,
                   !.DelegationFeeRate = t.feeRate]
    [] t.kind = "withdraw" ->
         [v EXCEPT !.AccumulatedStakedReward = 0, !.IsActive = FALSE, !.StakedAmount = 0]
    [] t.kind = "delegate" ->
         [v EXCEPT !.delegators = Put(@, t.actor, NewDelegator(t.start, t.end, t.amount))]
    [] t.kind = "undelegate" ->
         [v EXCEPT !.AccumulatedDelegatedReward = Wrap(@ - Clamped(v, t.actor)),
                   !.delegators = Delete(@, t.actor)]
    [] t.kind = "claimValidator" -> [v EXCEPT !.AccumulatedStakedReward = 0]
    [] t.kind = "claimDelegation" ->
         [v EXCEPT !.AccumulatedDelegatedReward = Wrap(@ - DueTo(v, t.actor))]

\* The validator is not dropped.
Keeps(v, t) ==
  t.kind = "undelegate" =>
    v.IsActive \/ v.StakedAmount # 0 \/ DOMAIN v.delegators # {t.actor}

\* What the balancer asks of a transaction before it does anything.
Known(e, t) ==
  /\ t.kind \in {"withdraw", "claimValidator", "delegate"} => HasValidator(e, t.nodeID)
  /\ t.kind = "delegate" => ~ HasDelegator(e, t.nodeID, t.actor)
  /\ t.kind \in {"undelegate", "claimDelegation"} => HasDelegator(e, t.nodeID, t.actor)

\* The balancer g is what e becomes when it is told of t.
Tells(e, g, t) ==
  \/ /\ t.kind = "register"
     /\ g = RegisterValidatorStake(e, t.nodeID, t.start, t.end, t.amount, t.feeRate)
  \/ t.kind = "withdraw" /\ g = WithdrawValidatorStake(e, t.nodeID)
  \/ /\ t.kind = "delegate"
     /\ g = DelegateUserStake(e, t.nodeID, t.actor, t.start, t.end, t.amount)
  \/ t.kind = "undelegate" /\ g = UndelegateUserStake(e, t.nodeID, t.actor)
  \/ t.kind = "claimValidator" /\ g = ClaimValidatorRewards(e, t.nodeID)
  \/ t.kind = "claimDelegation" /\ g = ClaimDelegatorRewards(e, t.nodeID, t.actor)

\* Events point to objects that exist.
PointersKnown(e) ==
  \A ev \in e.activationEvents \cup e.deactivationEvents : ev[2] \in DOMAIN e.heap

\* The book of a node, or that of a validator that is yet to be registered.
BookOf(e, n) ==
  IF HasValidator(e, n) THEN Book(e, n)
  ELSE [validator |-> NewValidator(n), starts |-> {}, ends |-> {}]

RevisedBook(b, t) ==
  [validator |-> Revised(b.validator, t),
   starts |-> IF t.kind = "register" THEN b.starts \cup {t.start} ELSE b.starts,
   ends |-> IF t.kind = "register" THEN b.ends \cup {t.end} ELSE b.ends]

\* All that t does to the balancer e, in terms of books: it revises the book of
\* its node, or drops it, and leaves those of other nodes alone.
Revises(e, g, t) ==
  LET n == t.nodeID IN
  /\ IsEmission(g) /\ PointersKnown(g)
  /\ g.TotalSupply = e.TotalSupply /\ g.TotalStaked = e.TotalStaked
  /\ g.AccumulatedReward = e.AccumulatedReward
  /\ g.delegatorActivationEvents = e.delegatorActivationEvents \cup
       (IF t.kind = "delegate" THEN {<<t.start, n, t.actor>>} ELSE {})
  /\ g.delegatorDeactivationEvents = e.delegatorDeactivationEvents \cup
       (IF t.kind = "delegate" THEN {<<t.end, n, t.actor>>} ELSE {})
  /\ \A m \in NodeIDs \ {n} :
       (HasValidator(g, m) <=> HasValidator(e, m)) /\ BookOf(g, m) = BookOf(e, m)
  /\ HasValidator(g, n) <=> Keeps(BookOf(e, n).validator, t)
  /\ HasValidator(g, n) => Book(g, n) = RevisedBook(BookOf(e, n), t)

-----------------------------------------------------------------------------
(* What each transaction does to the balancer.                             *)

\* Replacing the object of a node leaves all else alone.
LEMMA WithBooks ==
  ASSUME NEW e, IsEmission(e), PointersKnown(e), NEW n \in DOMAIN e.validators,
         NEW v, IsValidator(v), v.NodeID = n,
         NEW g, g = WithValidator(e, n, v)
  PROVE  /\ IsEmission(g) /\ PointersKnown(g)
         /\ g.TotalSupply = e.TotalSupply /\ g.TotalStaked = e.TotalStaked
         /\ g.AccumulatedReward = e.AccumulatedReward
         /\ g.delegatorActivationEvents = e.delegatorActivationEvents
         /\ g.delegatorDeactivationEvents = e.delegatorDeactivationEvents
         /\ g.validators = e.validators
         /\ Book(g, n) = [validator |-> v, starts |-> Book(e, n).starts, ends |-> Book(e, n).ends]
         /\ \A m \in DOMAIN e.validators \ {n} : Book(g, m) = Book(e, m)
<1>1. /\ IsEmission(g) /\ g.validators = e.validators /\ ValidatorOf(g, n) = v
      /\ \A m \in DOMAIN e.validators \ {n} : ValidatorOf(g, m) = ValidatorOf(e, m)
  BY WithValidatorType
<1>2. /\ g.TotalSupply = e.TotalSupply /\ g.TotalStaked = e.TotalStaked
      /\ g.AccumulatedReward = e.AccumulatedReward
      /\ g.delegatorActivationEvents = e.delegatorActivationEvents
      /\ g.delegatorDeactivationEvents = e.delegatorDeactivationEvents
      /\ g.activationEvents = e.activationEvents
      /\ g.deactivationEvents = e.deactivationEvents
      /\ DOMAIN g.heap = DOMAIN e.heap
  BY DEF WithValidator, IsEmission, EmissionFields
<1>3. PointersKnown(g)
  BY <1>2 DEF PointersKnown
<1>4. Book(g, n) = [validator |-> v, starts |-> Book(e, n).starts, ends |-> Book(e, n).ends]
  BY <1>1, <1>2 DEF Book
<1>5. \A m \in DOMAIN e.validators \ {n} : Book(g, m) = Book(e, m)
  BY <1>1, <1>2 DEF Book
<1> QED BY <1>1, <1>2, <1>3, <1>4, <1>5

\* A transaction that only replaces the object of its node.
LEMMA WithRevises ==
  ASSUME NEW e, IsEmission(e), PointersKnown(e), NEW t, t.nodeID \in DOMAIN e.validators,
         t.kind \in {"withdraw", "claimValidator", "claimDelegation"},
         NEW v, v = Revised(ValidatorOf(e, t.nodeID), t), IsValidator(v),
         v.NodeID = t.nodeID, NEW g, g = WithValidator(e, t.nodeID, v)
  PROVE  Revises(e, g, t)
<1> DEFINE n == t.nodeID
<1>1. /\ IsEmission(g) /\ PointersKnown(g)
      /\ g.TotalSupply = e.TotalSupply /\ g.TotalStaked = e.TotalStaked
      /\ g.AccumulatedReward = e.AccumulatedReward
      /\ g.delegatorActivationEvents = e.delegatorActivationEvents
      /\ g.delegatorDeactivationEvents = e.delegatorDeactivationEvents
      /\ g.validators = e.validators
      /\ Book(g, n) = [validator |-> v, starts |-> Book(e, n).starts, ends |-> Book(e, n).ends]
      /\ \A m \in DOMAIN e.validators \ {n} : Book(g, m) = Book(e, m)
  BY WithBooks
<1>2. \A m : HasValidator(g, m) <=> HasValidator(e, m)
  BY <1>1 DEF HasValidator
<1>3. BookOf(e, n) = Book(e, n) /\ BookOf(e, n).validator = ValidatorOf(e, n)
  BY DEF BookOf, Book, HasValidator
<1>4. Book(g, n) = RevisedBook(BookOf(e, n), t)
  BY <1>1, <1>3 DEF RevisedBook, Book
<1>5. \A m \in NodeIDs \ {n} : BookOf(g, m) = BookOf(e, m)
  BY <1>1, <1>2 DEF BookOf, HasValidator
<1>6. HasValidator(g, n) /\ Keeps(BookOf(e, n).validator, t)
  BY <1>1 DEF HasValidator, Keeps
<1>7. t.kind # "delegate"
  OBVIOUS
<1> QED BY <1>1, <1>2, <1>4, <1>5, <1>6, <1>7 DEF Revises

\* WithdrawValidatorStake and the claims.
LEMMA PaymentRevises ==
  ASSUME NEW e, IsEmission(e), PointersKnown(e), NEW t, NEW g, Known(e, t), Tells(e, g, t),
         t.kind \in {"withdraw", "claimValidator", "claimDelegation"}
  PROVE  Revises(e, g, t)
<1> DEFINE n == t.nodeID
           v == ValidatorOf(e, n)
           w == Revised(v, t)
<1>1. n \in DOMAIN e.validators
  BY DEF Known, HasDelegator, HasValidator
<1>2. IsValidator(v) /\ v.NodeID = n
  BY <1>1, ValidatorOfType
<1>3. CalculateUserDelegationRewards(e, n, t.actor) = DueTo(v, t.actor)
  BY DueCalculated
<1>4. CASE t.kind = "withdraw"
  <2>1. w = [v EXCEPT !.AccumulatedStakedReward = 0, !.IsActive = FALSE, !.StakedAmount = 0]
    BY <1>4 DEF Revised
  <2>2. g = WithValidator(e, n, w)
    BY <1>4, <2>1 DEF Tells, WithdrawValidatorStake
  <2> HIDE DEF v
  <2>3. IsValidator(w) /\ w.NodeID = n
    BY <1>2, <2>1, ZeroType DEF IsValidator
  <2> QED BY <1>1, <1>4, <2>2, <2>3, WithRevises DEF v
<1>5. CASE t.kind = "claimValidator"
  <2>1. w = [v EXCEPT !.AccumulatedStakedReward = 0]
    BY <1>5 DEF Revised
  <2>2. g = WithValidator(e, n, w)
    BY <1>5, <2>1 DEF Tells, ClaimValidatorRewards
  <2> HIDE DEF v
  <2>3. IsValidator(w) /\ w.NodeID = n
    BY <1>2, <2>1, ZeroType DEF IsValidator
  <2> QED BY <1>1, <1>5, <2>2, <2>3, WithRevises DEF v
<1>6. CASE t.kind = "claimDelegation"
  <2>1. w = [v EXCEPT !.AccumulatedDelegatedReward = Wrap(@ - DueTo(v, t.actor))]
    BY <1>6 DEF Revised
  <2>2. g = WithValidator(e, n, w)
    BY <1>3, <1>6, <2>1 DEF Tells, ClaimDelegatorRewards
  <2> HIDE DEF v
  <2>3. IsValidator(w) /\ w.NodeID = n
    BY <1>2, <2>1, WrapType DEF IsValidator
  <2> QED BY <1>1, <1>6, <2>2, <2>3, WithRevises DEF v
<1> QED BY <1>4, <1>5, <1>6

\* DelegateUserStake.
LEMMA DelegateRevises ==
  ASSUME NEW e, IsEmission(e), PointersKnown(e), NEW t \in Txs, NEW g, Known(e, t),
         Tells(e, g, t), t.kind = "delegate"
  PROVE  Revises(e, g, t)
<1> DEFINE n == t.nodeID
           a == t.actor
           v == ValidatorOf(e, n)
           p == Put(v.delegators, a, NewDelegator(t.start, t.end, t.amount))
           w == [v EXCEPT !.delegators = p]
           q == WithValidator(e, n, w)
<1>1. /\ n \in DOMAIN e.validators /\ n \in NodeIDs /\ a \in Addresses
      /\ t.start \in Heights /\ t.end \in Heights /\ t.amount \in Uint64
  BY TxFields, StakingAssumption DEF Known, HasValidator
<1>2. IsValidator(v) /\ v.NodeID = n
  BY <1>1, ValidatorOfType
<1>3. g = [q EXCEPT !.delegatorActivationEvents = @ \cup {<<t.start, n, a>>},
                    !.delegatorDeactivationEvents = @ \cup {<<t.end, n, a>>}]
  BY DEF Tells, DelegateUserStake
<1>4. IsEmission(g)
  <2>1. g = DelegateUserStake(e, n, a, t.start, t.end, t.amount)
    BY DEF Tells
  <2>2. HasValidator(e, n)
    BY <1>1 DEF HasValidator
  <2>3. IsEmission(DelegateUserStake(e, n, a, t.start, t.end, t.amount))
    BY <1>1, <2>2, DelegateType
  <2> QED BY <2>1, <2>3
<1>5. NewDelegator(t.start, t.end, t.amount) \in Delegator
  BY <1>1 DEF NewDelegator, Delegator
<1>6. w = Revised(v, t)
  BY DEF Revised
<1> HIDE DEF v
<1>7. IsMap(p, Addresses, Delegator)
  BY <1>1, <1>2, <1>5, PutType DEF IsValidator
<1> HIDE DEF p
<1>8. IsValidator(w) /\ w.NodeID = n
  BY <1>2, <1>7 DEF IsValidator
<1> HIDE DEF w
<1>9. /\ IsEmission(q) /\ PointersKnown(q)
      /\ q.TotalSupply = e.TotalSupply /\ q.TotalStaked = e.TotalStaked
      /\ q.AccumulatedReward = e.AccumulatedReward
      /\ q.delegatorActivationEvents = e.delegatorActivationEvents
      /\ q.delegatorDeactivationEvents = e.delegatorDeactivationEvents
      /\ q.validators = e.validators
      /\ Book(q, n) = [validator |-> w, starts |-> Book(e, n).starts, ends |-> Book(e, n).ends]
      /\ \A m \in DOMAIN e.validators \ {n} : Book(q, m) = Book(e, m)
  BY <1>1, <1>8, WithBooks
<1> HIDE DEF q
<1>10. /\ g.TotalSupply = e.TotalSupply /\ g.TotalStaked = e.TotalStaked
       /\ g.AccumulatedReward = e.AccumulatedReward
       /\ g.delegatorActivationEvents = e.delegatorActivationEvents \cup {<<t.start, n, a>>}
       /\ g.delegatorDeactivationEvents = e.delegatorDeactivationEvents \cup {<<t.end, n, a>>}
       /\ g.validators = e.validators /\ g.heap = q.heap
       /\ g.activationEvents = q.activationEvents
       /\ g.deactivationEvents = q.deactivationEvents
  BY <1>3, <1>9 DEF IsEmission, EmissionFields
<1>11. PointersKnown(g)
  BY <1>9, <1>10 DEF PointersKnown
<1>12. \A m : Book(g, m) = Book(q, m) /\ (HasValidator(g, m) <=> HasValidator(e, m))
  BY <1>9, <1>10 DEF Book, ValidatorOf, HasValidator
<1>13. HasValidator(e, n) /\ BookOf(e, n) = Book(e, n) /\ BookOf(e, n).validator = v
  BY <1>1 DEF BookOf, Book, HasValidator, v
<1>14. Book(g, n) = RevisedBook(BookOf(e, n), t)
  BY <1>6, <1>9, <1>12, <1>13 DEF RevisedBook
<1>15. \A m \in NodeIDs \ {n} : BookOf(g, m) = BookOf(e, m)
  BY <1>9, <1>12 DEF BookOf, HasValidator
<1>16. HasValidator(g, n) /\ Keeps(BookOf(e, n).validator, t)
  BY <1>12, <1>13 DEF Keeps
<1> QED BY <1>4, <1>10, <1>11, <1>12, <1>14, <1>15, <1>16 DEF Revises

\* UndelegateUserStake.
LEMMA UndelegateRevises ==
  ASSUME NEW e, IsEmission(e), PointersKnown(e), NEW t, NEW g, Known(e, t),
         Tells(e, g, t), t.kind = "undelegate"
  PROVE  Revises(e, g, t)
<1> DEFINE n == t.nodeID
           a == t.actor
           v == ValidatorOf(e, n)
           p == Delete(v.delegators, a)
           x == Wrap(v.AccumulatedDelegatedReward - Clamped(v, a))
           w == [v EXCEPT !.AccumulatedDelegatedReward = x, !.delegators = p]
           q == WithValidator(e, n, w)
           gone == ~ w.IsActive /\ w.StakedAmount = 0 /\ DOMAIN w.delegators = {}
           rest == IF gone THEN Delete(q.validators, n) ELSE q.validators
<1>1. HasDelegator(e, n, a) /\ n \in DOMAIN e.validators /\ a \in DOMAIN v.delegators
  BY DEF Known, HasDelegator, HasValidator
<1>2. IsValidator(v) /\ v.NodeID = n
  BY <1>1, ValidatorOfType
<1>3. UndelegateReward(e, n, a) = Clamped(v, a)
  BY DueCalculated DEF UndelegateReward, Clamped
<1>4. g = UndelegateUserStake(e, n, a)
  BY DEF Tells
<1>5. g = [q EXCEPT !.validators = rest]
  BY <1>3, <1>4 DEF UndelegateUserStake
<1>6. IsEmission(g)
  BY <1>1, <1>4, UndelegateType
<1>7. w = Revised(v, t)
  BY DEF Revised
<1>8. x \in Uint64
  BY WrapType
<1> HIDE DEF v, x
<1>9. IsMap(p, Addresses, Delegator) /\ DOMAIN p = DOMAIN v.delegators \ {a}
  BY <1>2 DEF IsValidator, IsMap, Delete
<1> HIDE DEF p
<1>10. /\ IsValidator(w) /\ w.NodeID = n /\ w.delegators = p
       /\ w.IsActive = v.IsActive /\ w.StakedAmount = v.StakedAmount
  BY <1>2, <1>8, <1>9 DEF IsValidator
<1> HIDE DEF w
<1>11. /\ IsEmission(q) /\ PointersKnown(q)
       /\ q.TotalSupply = e.TotalSupply /\ q.TotalStaked = e.TotalStaked
       /\ q.AccumulatedReward = e.AccumulatedReward
       /\ q.delegatorActivationEvents = e.delegatorActivationEvents
       /\ q.delegatorDeactivationEvents = e.delegatorDeactivationEvents
       /\ q.validators = e.validators
       /\ Book(q, n) = [validator |-> w, starts |-> Book(e, n).starts, ends |-> Book(e, n).ends]
       /\ \A m \in DOMAIN e.validators \ {n} : Book(q, m) = Book(e, m)
  BY <1>1, <1>10, WithBooks
<1> HIDE DEF q
<1>12. /\ g.TotalSupply = e.TotalSupply /\ g.TotalStaked = e.TotalStaked
       /\ g.AccumulatedReward = e.AccumulatedReward
       /\ g.delegatorActivationEvents = e.delegatorActivationEvents
       /\ g.delegatorDeactivationEvents = e.delegatorDeactivationEvents
       /\ g.validators = rest /\ g.heap = q.heap
       /\ g.activationEvents = q.activationEvents
       /\ g.deactivationEvents = q.deactivationEvents
  BY <1>5, <1>11 DEF IsEmission, EmissionFields
<1>13. /\ DOMAIN rest = IF gone THEN DOMAIN e.validators \ {n} ELSE DOMAIN e.validators
       /\ \A m \in DOMAIN rest : rest[m] = q.validators[m]
  BY <1>11 DEF Delete
<1>14. gone <=> ~ Keeps(v, t)
  BY <1>1, <1>9, <1>10 DEF Keeps
<1> HIDE DEF rest, gone
<1>15. PointersKnown(g)
  BY <1>11, <1>12 DEF PointersKnown
<1>16. \A m \in DOMAIN rest : Book(g, m) = Book(q, m)
  BY <1>12, <1>13 DEF Book, ValidatorOf
<1>17. HasValidator(e, n) /\ BookOf(e, n) = Book(e, n) /\ BookOf(e, n).validator = v
  BY <1>1 DEF BookOf, Book, HasValidator, v
<1>18. HasValidator(g, n) <=> Keeps(v, t)
  BY <1>1, <1>12, <1>13, <1>14 DEF HasValidator
<1>19. \A m \in NodeIDs \ {n} : HasValidator(g, m) <=> HasValidator(e, m)
  BY <1>12, <1>13 DEF HasValidator
<1>20. \A m \in NodeIDs \ {n} : BookOf(g, m) = BookOf(e, m)
  BY <1>11, <1>12, <1>13, <1>16, <1>19 DEF BookOf, HasValidator
<1>21. HasValidator(g, n) => Book(g, n) = RevisedBook(BookOf(e, n), t)
  BY <1>7, <1>11, <1>12, <1>16, <1>17 DEF RevisedBook, HasValidator
<1> QED BY <1>6, <1>12, <1>15, <1>17, <1>18, <1>19, <1>20, <1>21 DEF Revises

\* RegisterValidatorStake.
LEMMA RegisterRevises ==
  ASSUME NEW e, IsEmission(e), PointersKnown(e), NEW t \in Txs, NEW g,
         Tells(e, g, t), t.kind = "register", t.feeRate \in Percent
  PROVE  Revises(e, g, t)
<1> DEFINE n     == t.nodeID
           known == HasValidator(e, n)
           ref   == IF known THEN e.validators[n] ELSE e.allocated + 1
           old   == IF known THEN e.heap[ref] ELSE NewValidator(n)
           v     == [old EXCEPT !.IsActive = TRUE, !.StakedAmount = t.amount,
                                !.DelegationFeeRate = t.feeRate]
           k     == IF known THEN e.allocated ELSE e.allocated + 1
<1>1. /\ n \in NodeIDs /\ t.start \in Heights /\ t.end \in Heights
      /\ t.amount \in Uint64
  BY TxFields, StakingAssumption
<1>2. g = RegisterValidatorStake(e, n, t.start, t.end, t.amount, t.feeRate)
  BY DEF Tells
<1>3. /\ IsEmission(g) /\ g.TotalSupply = e.TotalSupply
      /\ DOMAIN g.validators = DOMAIN e.validators \cup {n}
  BY <1>1, <1>2, RegisterType
<1>4. BookOf(e, n).validator = old
  BY DEF BookOf, Book, ValidatorOf
<1>5. v = Revised(old, t)
  BY DEF Revised
<1>6. /\ e.allocated \in Nat /\ DOMAIN e.heap = 1 .. e.allocated
      /\ known => ref \in DOMAIN e.heap
      /\ ~ known => ref = e.allocated + 1 /\ ref \notin DOMAIN e.heap
  BY DEF IsEmission, IsMap, EmissionFields, HasValidator
<1>7. g = [e EXCEPT !.heap = Put(e.heap, ref, v), !.allocated = k,
                    !.validators = Put(e.validators, n, ref),
                    !.activationEvents = @ \cup {<<t.start, ref>>},
                    !.deactivationEvents = @ \cup {<<t.end, ref>>}]
  BY <1>2 DEF RegisterValidatorStake
<1> HIDE DEF v, old, ref, k
<1>8. /\ g.heap = Put(e.heap, ref, v) /\ g.validators = Put(e.validators, n, ref)
      /\ g.TotalStaked = e.TotalStaked /\ g.AccumulatedReward = e.AccumulatedReward
      /\ g.delegatorActivationEvents = e.delegatorActivationEvents
      /\ g.delegatorDeactivationEvents = e.delegatorDeactivationEvents
      /\ g.activationEvents = e.activationEvents \cup {<<t.start, ref>>}
      /\ g.deactivationEvents = e.deactivationEvents \cup {<<t.end, ref>>}
  BY <1>7 DEF IsEmission, EmissionFields
<1>9. /\ DOMAIN g.heap = DOMAIN e.heap \cup {ref} /\ g.heap[ref] = v
      /\ \A r \in DOMAIN e.heap \ {ref} : g.heap[r] = e.heap[r]
      /\ g.validators[n] = ref
      /\ \A m \in DOMAIN e.validators \ {n} : g.validators[m] = e.validators[m]
  BY <1>8 DEF Put
<1>10. PointersKnown(g)
  BY <1>8, <1>9 DEF PointersKnown
<1>11. \A m \in DOMAIN e.validators \ {n} : e.validators[m] \in DOMAIN e.heap \ {ref}
  BY <1>6 DEF IsEmission, IsMap, ref, HasValidator
<1>12. ASSUME NEW m \in DOMAIN e.validators \ {n}
       PROVE  Book(g, m) = Book(e, m)
  <2>1. g.validators[m] = e.validators[m] /\ e.validators[m] # ref
    BY <1>9, <1>11
  <2>2. ValidatorOf(g, m) = ValidatorOf(e, m)
    BY <1>9, <1>11, <2>1 DEF ValidatorOf
  <2>3. \A h \in Heights :
          /\ <<h, g.validators[m]>> \in g.activationEvents
                <=> <<h, e.validators[m]>> \in e.activationEvents
          /\ <<h, g.validators[m]>> \in g.deactivationEvents
                <=> <<h, e.validators[m]>> \in e.deactivationEvents
    BY <1>8, <2>1
  <2> QED BY <2>2, <2>3 DEF Book
<1>13. /\ BookOf(e, n).starts = {h \in Heights : <<h, ref>> \in e.activationEvents}
       /\ BookOf(e, n).ends = {h \in Heights : <<h, ref>> \in e.deactivationEvents}
  <2>1. CASE known
    BY <2>1 DEF BookOf, Book, ref
  <2>2. CASE ~ known
    <3>1. \A h \in Heights : <<h, ref>> \notin e.activationEvents
                              /\ <<h, ref>> \notin e.deactivationEvents
      BY <1>6, <2>2 DEF PointersKnown
    <3> QED BY <2>2, <3>1 DEF BookOf
  <2> QED BY <2>1, <2>2
<1>14. ValidatorOf(g, n) = v
  BY <1>9 DEF ValidatorOf
<1>15. /\ {h \in Heights : <<h, ref>> \in g.activationEvents}
            = BookOf(e, n).starts \cup {t.start}
       /\ {h \in Heights : <<h, ref>> \in g.deactivationEvents}
            = BookOf(e, n).ends \cup {t.end}
  BY <1>1, <1>8, <1>13
<1>16. Book(g, n) = RevisedBook(BookOf(e, n), t)
  BY <1>4, <1>5, <1>9, <1>14, <1>15 DEF Book, RevisedBook
<1>17. HasValidator(g, n) /\ Keeps(BookOf(e, n).validator, t)
  BY <1>3 DEF HasValidator, Keeps
<1>18. \A m \in NodeIDs \ {n} : HasValidator(g, m) <=> HasValidator(e, m)
  BY <1>3 DEF HasValidator
<1>19. \A m \in NodeIDs \ {n} : BookOf(g, m) = BookOf(e, m)
  BY <1>12, <1>18 DEF BookOf, HasValidator
<1> QED BY <1>3, <1>8, <1>10, <1>16, <1>17, <1>18, <1>19 DEF Revises

\* Every transaction.
LEMMA TxRevises ==
  ASSUME NEW e, IsEmission(e), PointersKnown(e), NEW t \in Txs, NEW g, Known(e, t),
         Tells(e, g, t), t.kind = "register" => t.feeRate \in Percent
  PROVE  Revises(e, g, t)
  BY TxFields, PaymentRevises, DelegateRevises, UndelegateRevises, RegisterRevises

-----------------------------------------------------------------------------
(* Two transactions on one validator.                                      *)

Paying == {"undelegate", "claimDelegation"}

\* What a transaction makes of the pool of the delegators, and of the delegators.
PoolAfter(v, t) ==
  CASE t.kind = "undelegate" -> Wrap(v.AccumulatedDelegatedReward - Clamped(v, t.actor))
    [] t.kind = "claimDelegation" -> Wrap(v.AccumulatedDelegatedReward - DueTo(v, t.actor))
    [] OTHER -> v.AccumulatedDelegatedReward

DelegatorsAfter(m, t) ==
  CASE t.kind = "delegate" -> Put(m, t.actor, NewDelegator(t.start, t.end, t.amount))
    [] t.kind = "undelegate" -> Delete(m, t.actor)
    [] OTHER -> m

\* The revised validator, field by field.
RevisesFields(v, w, t) ==
  /\ w.NodeID = v.NodeID
  /\ w.IsActive = (CASE t.kind = "register" -> TRUE [] t.kind = "withdraw" -> FALSE
                     [] OTHER -> v.IsActive)
  /\ w.StakedAmount = (CASE t.kind = "register" -> t.amount [] t.kind = "withdraw" -> 0
                         [] OTHER -> v.StakedAmount)
  /\ w.AccumulatedStakedReward = (IF t.kind \in {"withdraw", "claimValidator"} THEN 0
                                    ELSE v.AccumulatedStakedReward)
  /\ w.DelegationFeeRate = (IF t.kind = "register" THEN t.feeRate ELSE v.DelegationFeeRate)
  /\ w.DelegatedAmount = v.DelegatedAmount
  /\ w.AccumulatedDelegatedReward = PoolAfter(v, t)
  /\ w.delegators = DelegatorsAfter(v.delegators, t)
  /\ w.epochRewards = v.epochRewards
  /\ w.delegatedAmountPerEpoch = v.delegatedAmountPerEpoch

\* A Validator is its ten fields.
IsRecord(v) ==
  v = [NodeID |-> v.NodeID, IsActive |-> v.IsActive, StakedAmount |-> v.StakedAmount,
       AccumulatedStakedReward |-> v.AccumulatedStakedReward,
       DelegationFeeRate |-> v.DelegationFeeRate, DelegatedAmount |-> v.DelegatedAmount,
       AccumulatedDelegatedReward |-> v.AccumulatedDelegatedReward,
       delegators |-> v.delegators, epochRewards |-> v.epochRewards,
       delegatedAmountPerEpoch |-> v.delegatedAmountPerEpoch]

\* What a transaction makes of each field of a validator.
LEMMA RevisedFields ==
  ASSUME NEW v, IsRecord(v), NEW t \in Txs
  PROVE  IsRecord(Revised(v, t)) /\ RevisesFields(v, Revised(v, t), t)
<1> DEFINE w == Revised(v, t)
           p == PoolAfter(v, t)
           D == DelegatorsAfter(v.delegators, t)
<1>1. CASE t.kind = "register"
  <2>1. w = [v EXCEPT !.IsActive = TRUE, !.StakedAmount = t.amount,
                      !.DelegationFeeRate = t.feeRate]
    BY <1>1 DEF Revised
  <2>2. p = v.AccumulatedDelegatedReward /\ D = v.delegators
    BY <1>1 DEF PoolAfter, DelegatorsAfter
  <2> QED BY <1>1, <2>1, <2>2 DEF RevisesFields, IsRecord
<1>2. CASE t.kind = "withdraw"
  <2>1. w = [v EXCEPT !.AccumulatedStakedReward = 0, !.IsActive = FALSE, !.StakedAmount = 0]
    BY <1>2 DEF Revised
  <2>2. p = v.AccumulatedDelegatedReward /\ D = v.delegators
    BY <1>2 DEF PoolAfter, DelegatorsAfter
  <2> QED BY <1>2, <2>1, <2>2 DEF RevisesFields, IsRecord
<1>3. CASE t.kind = "delegate"
  <2>1. w = [v EXCEPT !.delegators = D]
    BY <1>3 DEF Revised, DelegatorsAfter
  <2>2. p = v.AccumulatedDelegatedReward
    BY <1>3 DEF PoolAfter
  <2> HIDE DEF D
  <2>3. RevisesFields(v, w, t) /\ IsRecord(w)
    BY <1>3, <2>1, <2>2 DEF RevisesFields, IsRecord, D
  <2> QED BY <2>3
<1>4. CASE t.kind = "undelegate"
  <2>1. w = [v EXCEPT !.AccumulatedDelegatedReward = p, !.delegators = D]
    BY <1>4 DEF Revised, PoolAfter, DelegatorsAfter
  <2> HIDE DEF p, D
  <2> QED BY <1>4, <2>1 DEF RevisesFields, IsRecord, p, D
<1>5. CASE t.kind = "claimValidator"
  <2>1. w = [v EXCEPT !.AccumulatedStakedReward = 0]
    BY <1>5 DEF Revised
  <2>2. p = v.AccumulatedDelegatedReward /\ D = v.delegators
    BY <1>5 DEF PoolAfter, DelegatorsAfter
  <2> QED BY <1>5, <2>1, <2>2 DEF RevisesFields, IsRecord
<1>6. CASE t.kind = "claimDelegation"
  <2>1. w = [v EXCEPT !.AccumulatedDelegatedReward = p]
    BY <1>6 DEF Revised, PoolAfter
  <2>2. D = v.delegators
    BY <1>6 DEF DelegatorsAfter
  <2> HIDE DEF p
  <2> QED BY <1>6, <2>1, <2>2 DEF RevisesFields, IsRecord, p
<1> QED BY <1>1, <1>2, <1>3, <1>4, <1>5, <1>6, TxFields

\* The validators of a balancer are such records.
LEMMA ValidatorRecord ==
  ASSUME NEW v, IsValidator(v)
  PROVE  IsRecord(v) /\ v.AccumulatedDelegatedReward \in Uint64
  BY DEF IsValidator, IsRecord

\* What another delegator is due stays what it was.
LEMMA DueKept ==
  ASSUME NEW v, IsRecord(v), NEW t \in Txs, NEW a \in DOMAIN v.delegators, a # t.actor
  PROVE  /\ a \in DOMAIN Revised(v, t).delegators
         /\ Revised(v, t).delegators[a] = v.delegators[a]
         /\ DueTo(Revised(v, t), a) = DueTo(v, a)
         /\ t.kind \notin Paying => Clamped(Revised(v, t), a) = Clamped(v, a)
<1> DEFINE w == Revised(v, t)
<1>1. /\ w.delegators = DelegatorsAfter(v.delegators, t)
      /\ w.epochRewards = v.epochRewards
      /\ w.delegatedAmountPerEpoch = v.delegatedAmountPerEpoch
      /\ w.AccumulatedDelegatedReward = PoolAfter(v, t)
  BY RevisedFields DEF RevisesFields
<1> HIDE DEF w
<1>2. a \in DOMAIN w.delegators /\ w.delegators[a] = v.delegators[a]
  BY <1>1 DEF DelegatorsAfter, Put, Delete
<1>3. DueTo(w, a) = DueTo(v, a)
  BY <1>1, <1>2 DEF DueTo
<1>4. t.kind \notin Paying => w.AccumulatedDelegatedReward = v.AccumulatedDelegatedReward
  BY <1>1 DEF PoolAfter, Paying
<1> QED BY <1>2, <1>3, <1>4 DEF Clamped, w

\* Delegators come and go in any order.
LEMMA DelegatorsCommute ==
  ASSUME NEW m, NEW t \in Txs, NEW u \in Txs, t.actor # u.actor
  PROVE  DelegatorsAfter(DelegatorsAfter(m, t), u) = DelegatorsAfter(DelegatorsAfter(m, u), t)
<1> DEFINE a == t.actor
           b == u.actor
           c == NewDelegator(t.start, t.end, t.amount)
           d == NewDelegator(u.start, u.end, u.amount)
<1>1. /\ Delete(Delete(m, a), b) = Delete(Delete(m, b), a)
      /\ Put(Delete(m, a), b, d) = Delete(Put(m, b, d), a)
      /\ Put(Delete(m, b), a, c) = Delete(Put(m, a, c), b)
      /\ Put(Put(m, a, c), b, d) = Put(Put(m, b, d), a, c)
  BY DEF Put, Delete
<1> QED BY <1>1 DEF DelegatorsAfter

\* The pool can pay both.
PoolPays(v, a, b) == DueTo(v, a) + DueTo(v, b) <= v.AccumulatedDelegatedReward

\* A pool that can pay both pays both in full, in either order.
LEMMA PoolCommutes ==
  ASSUME NEW p \in Uint64, NEW x \in Uint64, NEW y \in Uint64, x + y <= p
  PROVE  /\ ~ (x > p) /\ ~ (y > p)
         /\ Wrap(p - x) = p - x /\ Wrap(p - y) = p - y
         /\ ~ (y > Wrap(p - x)) /\ ~ (x > Wrap(p - y))
         /\ Wrap(Wrap(p - x) - y) = Wrap(Wrap(p - y) - x)
<1>1. p - x \in Uint64 /\ p - y \in Uint64 /\ p \in Int /\ x \in Nat /\ y \in Nat
  BY EmissionAssumption DEF Uint64
<1>2. Wrap(p - x) = p - x /\ Wrap(p - y) = p - y
  BY <1>1, WrapValue
<1>3. (p - x) - y = (p - y) - x
  BY <1>1
<1> QED BY <1>1, <1>2, <1>3

\* The pool after both.
LEMMA PoolsCommute ==
  ASSUME NEW v, IsRecord(v), v.AccumulatedDelegatedReward \in Uint64,
         NEW t \in Txs, NEW u \in Txs, t.actor # u.actor,
         t.kind \in Paying, t.actor \in DOMAIN v.delegators,
         u.kind \in Paying => u.actor \in DOMAIN v.delegators /\ PoolPays(v, t.actor, u.actor)
  PROVE  /\ PoolAfter(Revised(v, t), u) = PoolAfter(Revised(v, u), t)
         /\ Reward(Revised(v, u), t) = Reward(v, t)
         /\ Reward(Revised(v, t), u) = Reward(v, u)
<1> DEFINE p == v.AccumulatedDelegatedReward
           a == t.actor
           b == u.actor
           x == DueTo(v, a)
           y == DueTo(v, b)
           T == Revised(v, t)
           U == Revised(v, u)
<1>1. x \in Uint64 /\ y \in Uint64
  BY DueType
<1>2. T.AccumulatedDelegatedReward = PoolAfter(v, t) /\ U.AccumulatedDelegatedReward = PoolAfter(v, u)
  BY RevisedFields DEF RevisesFields
<1>3. DueTo(U, a) = x /\ (u.kind \in Paying => DueTo(T, b) = y)
  BY DueKept
<1>4. CASE u.kind \in Paying
  <2>1. x + y <= p
    BY <1>4 DEF PoolPays
  <2> HIDE DEF x, y, p, T, U
  <2>2. /\ ~ (x > p) /\ ~ (y > p)
        /\ Wrap(p - x) = p - x /\ Wrap(p - y) = p - y
        /\ ~ (y > Wrap(p - x)) /\ ~ (x > Wrap(p - y))
        /\ Wrap(Wrap(p - x) - y) = Wrap(Wrap(p - y) - x)
    BY <1>1, <2>1, PoolCommutes DEF p
  <2>3. Clamped(v, a) = x /\ Clamped(v, b) = y
    BY <2>2 DEF Clamped, x, y, p
  <2>4. PoolAfter(v, t) = Wrap(p - x) /\ PoolAfter(v, u) = Wrap(p - y)
    BY <1>4, <2>3 DEF PoolAfter, Paying, x, y, p
  <2>5. T.AccumulatedDelegatedReward = Wrap(p - x) /\ U.AccumulatedDelegatedReward = Wrap(p - y)
    BY <1>2, <2>4 DEF T, U
  <2>6. Clamped(T, b) = y /\ Clamped(U, a) = x
    BY <1>3, <1>4, <2>2, <2>5 DEF Clamped
  <2>7. PoolAfter(T, u) = Wrap(Wrap(p - x) - y) /\ PoolAfter(U, t) = Wrap(Wrap(p - y) - x)
    BY <1>3, <1>4, <2>5, <2>6 DEF PoolAfter, Paying
  <2>8. Reward(U, t) = x /\ Reward(v, t) = x /\ Reward(T, u) = y /\ Reward(v, u) = y
    BY <1>3, <1>4, <2>3, <2>6 DEF Reward, Paying, x, y
  <2> QED BY <2>2, <2>7, <2>8 DEF T, U
<1>5. CASE u.kind \notin Paying
  <2>1. Clamped(U, a) = Clamped(v, a)
    BY <1>5, DueKept
  <2>2. PoolAfter(v, u) = p
    BY <1>5 DEF PoolAfter, Paying
  <2>3. T.AccumulatedStakedReward = v.AccumulatedStakedReward
    BY RevisedFields DEF RevisesFields, Paying
  <2> HIDE DEF T, U
  <2>4. PoolAfter(T, u) = PoolAfter(v, t)
    BY <1>2, <1>5 DEF PoolAfter, Paying, T
  <2>5. PoolAfter(U, t) = PoolAfter(v, t)
    BY <1>2, <1>3, <2>1, <2>2 DEF PoolAfter, Paying, U
  <2>6. Reward(U, t) = Reward(v, t)
    BY <1>3, <2>1 DEF Reward, Paying
  <2>7. Reward(T, u) = Reward(v, u)
    BY <1>5, <2>3 DEF Reward, Paying
  <2> QED BY <2>4, <2>5, <2>6, <2>7 DEF T, U
<1> QED BY <1>4, <1>5

\* A payment to a delegator and another transaction, in either order.
LEMMA RevisionsCommute ==
  ASSUME NEW v, IsRecord(v), v.AccumulatedDelegatedReward \in Uint64,
         NEW t \in Txs, NEW u \in Txs, t.actor # u.actor,
         t.kind \in Paying, t.actor \in DOMAIN v.delegators,
         u.kind \in Paying => u.actor \in DOMAIN v.delegators /\ PoolPays(v, t.actor, u.actor)
  PROVE  Revised(Revised(v, t), u) = Revised(Revised(v, u), t)
<1> DEFINE T == Revised(v, t)
           U == Revised(v, u)
           X == Revised(T, u)
           Y == Revised(U, t)
<1>1. IsRecord(T) /\ IsRecord(U) /\ RevisesFields(v, T, t) /\ RevisesFields(v, U, u)
  BY RevisedFields
<1>2. IsRecord(X) /\ IsRecord(Y) /\ RevisesFields(T, X, u) /\ RevisesFields(U, Y, t)
  BY <1>1, RevisedFields
<1>3. PoolAfter(T, u) = PoolAfter(U, t)
  BY PoolsCommute
<1>4. DelegatorsAfter(DelegatorsAfter(v.delegators, t), u)
        = DelegatorsAfter(DelegatorsAfter(v.delegators, u), t)
  BY DelegatorsCommute
<1> HIDE DEF T, U, X, Y
<1>5. X.AccumulatedDelegatedReward = Y.AccumulatedDelegatedReward /\ X.delegators = Y.delegators
  BY <1>1, <1>2, <1>3, <1>4 DEF RevisesFields
<1>6. /\ X.NodeID = Y.NodeID /\ X.IsActive = Y.IsActive /\ X.StakedAmount = Y.StakedAmount
      /\ X.AccumulatedStakedReward = Y.AccumulatedStakedReward
      /\ X.DelegationFeeRate = Y.DelegationFeeRate /\ X.DelegatedAmount = Y.DelegatedAmount
      /\ X.epochRewards = Y.epochRewards
      /\ X.delegatedAmountPerEpoch = Y.delegatedAmountPerEpoch
  BY <1>1, <1>2 DEF RevisesFields, Paying
<1>7. X = Y
  BY <1>2, <1>5, <1>6 DEF IsRecord
<1> QED BY <1>7 DEF X, Y, T, U

\* The validator is there for both, and both orders drop it or neither does.
LEMMA KeepingCommutes ==
  ASSUME NEW v, IsRecord(v), NEW t \in Txs, NEW u \in Txs, t.actor # u.actor,
         t.kind \in Paying, t.actor \in DOMAIN v.delegators,
         u.kind \in Paying => u.actor \in DOMAIN v.delegators,
         u.kind \in {"delegate", "claimValidator"} => v.StakedAmount # 0,
         t.kind = "undelegate" /\ u.kind \in {"register", "withdraw"} =>
           DOMAIN v.delegators # {t.actor}
  PROVE  /\ Keeps(v, t) /\ Keeps(v, u)
         /\ Keeps(Revised(v, t), u) <=> Keeps(Revised(v, u), t)
<1> DEFINE T == Revised(v, t)
           U == Revised(v, u)
           a == t.actor
           b == u.actor
           D == v.delegators
<1>1. RevisesFields(v, T, t) /\ RevisesFields(v, U, u)
  BY RevisedFields
<1>2. Keeps(v, t) /\ Keeps(v, u)
  BY TxFields DEF Keeps, Paying
<1> HIDE DEF T, U
<1>3. CASE t.kind = "claimDelegation"
  <2>1. T.delegators = D
    BY <1>1, <1>3 DEF RevisesFields, DelegatorsAfter
  <2> QED BY <1>2, <1>3, <2>1, TxFields DEF Keeps, Paying, T, U
<1>4. CASE t.kind = "undelegate" /\ u.kind = "claimDelegation"
  <2>1. U.delegators = D
    BY <1>1, <1>4 DEF RevisesFields, DelegatorsAfter
  <2> QED BY <1>2, <1>4, <2>1 DEF Keeps, Paying, T, U
<1>5. CASE t.kind = "undelegate" /\ u.kind = "undelegate"
  <2>1. T.delegators = Delete(D, a) /\ U.delegators = Delete(D, b)
    BY <1>1, <1>5 DEF RevisesFields, DelegatorsAfter
  <2>2. DOMAIN T.delegators = DOMAIN D \ {a} /\ DOMAIN U.delegators = DOMAIN D \ {b}
    BY <2>1 DEF Delete
  <2>3. /\ T.IsActive = v.IsActive /\ U.IsActive = v.IsActive
        /\ T.StakedAmount = v.StakedAmount /\ U.StakedAmount = v.StakedAmount
    BY <1>1, <1>5 DEF RevisesFields
  <2>4. a \in DOMAIN D /\ b \in DOMAIN D
    BY <1>5 DEF Paying
  <2>5. DOMAIN T.delegators = {b} <=> DOMAIN U.delegators = {a}
    BY <2>2, <2>4
  <2> QED BY <1>5, <2>3, <2>5, <1>2 DEF Keeps, T, U
<1>6. CASE t.kind = "undelegate" /\ u.kind \in {"delegate", "claimValidator"}
  <2>1. U.StakedAmount = v.StakedAmount
    BY <1>1, <1>6 DEF RevisesFields
  <2> QED BY <1>2, <1>6, <2>1 DEF Keeps, T, U
<1>7. CASE t.kind = "undelegate" /\ u.kind \in {"register", "withdraw"}
  <2>1. U.delegators = D
    BY <1>1, <1>7 DEF RevisesFields, DelegatorsAfter
  <2> QED BY <1>2, <1>7, <2>1 DEF Keeps, T, U
<1> QED BY <1>3, <1>4, <1>5, <1>6, <1>7, TxFields DEF Paying

-----------------------------------------------------------------------------
(* Two transactions on a balancer, in either order.                        *)

\* e becomes h through t and u, and k through u and t.
BothOrders(e, t, u, g1, h, g2, k) ==
  Revises(e, g1, t) /\ Revises(g1, h, u) /\ Revises(e, g2, u) /\ Revises(g2, k, t)

SameBook(e, f, m) == (HasValidator(e, m) <=> HasValidator(f, m)) /\ BookOf(e, m) = BookOf(f, m)

\* The books of nodes.
LEMMA BooksSame ==
  ASSUME NEW e, NEW f, NEW nodes, \A m \in nodes : SameBook(e, f, m)
  PROVE  SameBooks(e, f, nodes)
  BY DEF SameBook, SameBooks, BookOf

\* What is not about one node, and the books of nodes that neither is about.
LEMMA OthersAgree ==
  ASSUME NEW e, NEW t \in Txs, NEW u \in Txs, NEW g1, NEW h, NEW g2, NEW k,
         BothOrders(e, t, u, g1, h, g2, k)
  PROVE  /\ Common(k) = Common(h)
         /\ \A m \in NodeIDs \ {t.nodeID, u.nodeID} : SameBook(k, h, m)
<1>1. Common(k) = Common(h)
  BY DEF BothOrders, Revises, Common
<1>2. ASSUME NEW m \in NodeIDs \ {t.nodeID, u.nodeID}
      PROVE  SameBook(k, h, m)
  BY DEF BothOrders, Revises, SameBook
<1> QED BY <1>1, <1>2

\* A transaction depends on the book of its node only.
LEMMA RevisionDepends ==
  ASSUME NEW e, NEW g, NEW t \in Txs, Revises(e, g, t),
         NEW f, NEW k, Revises(f, k, t), SameBook(e, f, t.nodeID)
  PROVE  SameBook(g, k, t.nodeID)
<1> DEFINE n == t.nodeID
<1>1. /\ HasValidator(g, n) <=> Keeps(BookOf(e, n).validator, t)
      /\ HasValidator(g, n) => Book(g, n) = RevisedBook(BookOf(e, n), t)
  BY DEF Revises
<1>2. /\ HasValidator(k, n) <=> Keeps(BookOf(f, n).validator, t)
      /\ HasValidator(k, n) => Book(k, n) = RevisedBook(BookOf(f, n), t)
  BY DEF Revises
<1>3. BookOf(e, n) = BookOf(f, n)
  BY DEF SameBook
<1> QED BY <1>1, <1>2, <1>3 DEF SameBook, BookOf

\* Transactions on different nodes.
LEMMA NodesApart ==
  ASSUME NEW e, NEW t \in Txs, NEW u \in Txs, NEW g1, NEW h, NEW g2, NEW k,
         BothOrders(e, t, u, g1, h, g2, k), t.nodeID # u.nodeID
  PROVE  \A m \in NodeIDs : SameBook(k, h, m)
<1> DEFINE n == t.nodeID
           p == u.nodeID
<1>1. n \in NodeIDs /\ p \in NodeIDs
  BY TxFields
<1>2. /\ \A m \in NodeIDs \ {n} : SameBook(g1, e, m) /\ SameBook(k, g2, m)
      /\ \A m \in NodeIDs \ {p} : SameBook(g2, e, m) /\ SameBook(h, g1, m)
  BY DEF BothOrders, Revises, SameBook
<1>3. SameBook(k, g1, n)
  <2>1. SameBook(g2, e, n)
    BY <1>1, <1>2
  <2> QED BY <2>1, RevisionDepends DEF BothOrders
<1>4. SameBook(g2, h, p)
  <2>1. SameBook(e, g1, p)
    BY <1>1, <1>2 DEF SameBook
  <2> QED BY <2>1, RevisionDepends DEF BothOrders
<1>5. SameBook(k, h, n)
  BY <1>1, <1>2, <1>3 DEF SameBook
<1>6. SameBook(k, h, p)
  BY <1>1, <1>2, <1>4 DEF SameBook
<1>7. \A m \in NodeIDs \ {n, p} : SameBook(k, h, m)
  BY OthersAgree
<1> QED BY <1>5, <1>6, <1>7

\* Books that are revised twice.
LEMMA BooksCommute ==
  ASSUME NEW b, NEW t, NEW u, ~ (t.kind = "register" /\ u.kind = "register"),
         Revised(Revised(b.validator, t), u) = Revised(Revised(b.validator, u), t)
  PROVE  RevisedBook(RevisedBook(b, t), u) = RevisedBook(RevisedBook(b, u), t)
  BY DEF RevisedBook

\* Transactions on one node that keep its validator, and commute on it.
LEMMA NodesTogether ==
  ASSUME NEW e, NEW t \in Txs, NEW u \in Txs, NEW g1, NEW h, NEW g2, NEW k,
         BothOrders(e, t, u, g1, h, g2, k), t.nodeID = u.nodeID,
         NEW v, v = BookOf(e, t.nodeID).validator,
         Keeps(v, t), Keeps(v, u), Keeps(Revised(v, t), u) <=> Keeps(Revised(v, u), t),
         ~ (t.kind = "register" /\ u.kind = "register"),
         Revised(Revised(v, t), u) = Revised(Revised(v, u), t)
  PROVE  \A m \in NodeIDs : SameBook(k, h, m)
<1> DEFINE n == t.nodeID
           b == BookOf(e, n)
<1>1. /\ HasValidator(g1, n) /\ BookOf(g1, n) = RevisedBook(b, t)
      /\ HasValidator(g2, n) /\ BookOf(g2, n) = RevisedBook(b, u)
  BY DEF BothOrders, Revises, BookOf
<1>2. /\ BookOf(g1, n).validator = Revised(v, t)
      /\ BookOf(g2, n).validator = Revised(v, u)
  BY <1>1 DEF RevisedBook
<1>3. /\ HasValidator(h, n) <=> Keeps(Revised(v, t), u)
      /\ HasValidator(k, n) <=> Keeps(Revised(v, u), t)
  BY <1>2 DEF BothOrders, Revises
<1>4. /\ HasValidator(h, n) => Book(h, n) = RevisedBook(RevisedBook(b, t), u)
      /\ HasValidator(k, n) => Book(k, n) = RevisedBook(RevisedBook(b, u), t)
  BY <1>1 DEF BothOrders, Revises
<1>5. RevisedBook(RevisedBook(b, t), u) = RevisedBook(RevisedBook(b, u), t)
  BY BooksCommute
<1>6. SameBook(k, h, n)
  BY <1>3, <1>4, <1>5 DEF SameBook, BookOf
<1>7. \A m \in NodeIDs \ {n} : SameBook(k, h, m)
  BY OthersAgree
<1> QED BY <1>6, <1>7

-----------------------------------------------------------------------------
(* What a transaction does to the chain state.                             *)

Spending  == {"register", "delegate"}
PayingOut == {"withdraw", "undelegate"}

\* The stake that a transaction gives back.
Stake(v, t) ==
  CASE t.kind = "withdraw" -> v.registered[t.nodeID].StakedAmount
    [] t.kind = "undelegate" -> v.delegated[<<t.nodeID, t.actor>>].StakedAmount
    [] OTHER -> 0

AfterFee(b, t) == SubBalance(b, t.actor, TxFee)

\* No balance is too small or too large for the transaction, which gives back the
\* stake s and pays the reward x.
Succeeds(b, t, s, x) ==
  /\ t.kind \in Spending => CanSubBalance(AfterFee(b, t), t.actor, t.amount)
  /\ t.kind \in PayingOut => CanPayOut(AfterFee(b, t), t.rewardAddress, x, t.actor, s)
  /\ t.kind \notin Spending \cup PayingOut => CanAddBalance(AfterFee(b, t), t.actor, x)

Moved(b, t, s, x) ==
  CASE t.kind \in Spending -> SubBalance(AfterFee(b, t), t.actor, t.amount)
    [] t.kind \in PayingOut -> PayOut(AfterFee(b, t), t.rewardAddress, x, t.actor, s)
    [] OTHER -> AddBalance(AfterFee(b, t), t.actor, x)

BalanceAfter(b, t, s, x) ==
  IF Succeeds(b, t, s, x) THEN Moved(b, t, s, x) ELSE AfterFee(b, t)

RegisteredAfter(m, t, ok) ==
  CASE ok /\ t.kind = "register" ->
         Put(m, t.nodeID, [StakeEndBlock |-> t.end, StakedAmount |-> t.amount,
                           RewardAddress |-> t.rewardAddress, OwnerAddress |-> t.actor])
    [] ok /\ t.kind = "withdraw" -> Delete(m, t.nodeID)
    [] OTHER -> m

DelegatedAfter(m, t, ok) ==
  CASE ok /\ t.kind = "delegate" ->
         Put(m, <<t.nodeID, t.actor>>,
             [StakeStartBlock |-> t.start, StakeEndBlock |-> t.end,
              StakedAmount |-> t.amount, RewardAddress |-> t.rewardAddress])
    [] ok /\ t.kind = "undelegate" -> Delete(m, <<t.nodeID, t.actor>>)
    [] OTHER -> m

\* The chain state v after a transaction that passes its checks.
After(v, t, x) ==
  LET s  == Stake(v, t)
      ok == Succeeds(v.balance, t, s, x)
  IN [balance |-> BalanceAfter(v.balance, t, s, x),
      registered |-> RegisteredAfter(v.registered, t, ok),
      delegated |-> DelegatedAfter(v.delegated, t, ok)]

\* What a transaction asks of the records, at height h.
Permitted(v, t, h) ==
  LET n == t.nodeID
      k == <<t.nodeID, t.actor>>
  IN /\ t.kind = "register" =>
          /\ t.actor \in Owners
          /\ UnmarshalValidatorStakeInfoOk(t.start, t.end, t.amount, t.feeRate)
          /\ n \notin DOMAIN v.registered
          /\ t.amount >= MinValidatorStake /\ t.amount <= MaxValidatorStake
          /\ t.start >= h /\ t.end >= t.start
          /\ t.end - t.start >= MinValidatorStakeDuration
          /\ t.end - t.start <= MaxValidatorStakeDuration
          /\ t.feeRate >= MinDelegationFee /\ t.feeRate <= 100
     /\ t.kind = "withdraw" =>
          /\ n \in DOMAIN v.registered /\ v.registered[n].OwnerAddress = t.actor
          /\ h >= v.registered[n].StakeEndBlock
     /\ t.kind = "delegate" =>
          /\ n \in DOMAIN v.registered /\ k \notin DOMAIN v.delegated
          /\ t.amount >= MinDelegatorStake /\ t.end > t.start /\ t.start >= h
     /\ t.kind = "undelegate" =>
          k \in DOMAIN v.delegated /\ h >= v.delegated[k].StakeEndBlock
     /\ t.kind = "claimValidator" =>
          /\ n \in DOMAIN v.registered /\ v.registered[n].RewardAddress = t.actor
          /\ h >= v.registered[n].StakeEndBlock
     /\ t.kind = "claimDelegation" =>
          /\ t.userStakeAddress = t.actor
          /\ k \in DOMAIN v.delegated /\ v.delegated[k].RewardAddress = t.actor
          /\ h >= v.delegated[k].StakeStartBlock

\* The accounts a transaction may touch.
Touched(t) == {t.actor} \cup (IF t.kind \in PayingOut THEN {t.rewardAddress} ELSE {})

KeysApart(t, u) ==
  /\ Touched(t) \cap Touched(u) = {}
  /\ t.actor # u.actor
  /\ t.nodeID = u.nodeID => t.kind \in Paying \/ u.kind \in Paying

\* Transactions without a common state key.
LEMMA DisjointKeys ==
  ASSUME NEW t \in Txs, NEW u \in Txs, StateKeys(t) \cap StateKeys(u) = {}
  PROVE  KeysApart(t, u) /\ KeysApart(u, t)
<1>1. Touched(t) \cap Touched(u) = {}
  BY DEF StateKeys, Touched, PayingOut
<1>2. t.actor # u.actor
  BY <1>1 DEF Touched
<1>3. ASSUME t.nodeID = u.nodeID, t.kind \notin Paying, u.kind \notin Paying
      PROVE  FALSE
  <2>1. /\ t.kind \in {"register", "withdraw", "delegate", "claimValidator"}
        /\ u.kind \in {"register", "withdraw", "delegate", "claimValidator"}
    BY <1>3, TxFields DEF Paying
  <2>2. <<"registration", t.nodeID>> \in StateKeys(t) \cap StateKeys(u)
    BY <1>3, <2>1 DEF StateKeys
  <2> QED BY <2>2
<1> QED BY <1>1, <1>2, <1>3 DEF KeysApart

\* What happens to balances depends on the accounts the transaction may touch.
LEMMA BalanceDepends ==
  ASSUME NEW t \in Txs, NEW b, NEW c, DOMAIN b = Addresses, DOMAIN c = Addresses,
         \A a \in Touched(t) : b[a] = c[a], NEW s, NEW x
  PROVE  /\ Succeeds(b, t, s, x) <=> Succeeds(c, t, s, x)
         /\ DOMAIN BalanceAfter(b, t, s, x) = Addresses
         /\ \A a \in Touched(t) : BalanceAfter(b, t, s, x)[a] = BalanceAfter(c, t, s, x)[a]
         /\ \A a \in Addresses \ Touched(t) : BalanceAfter(b, t, s, x)[a] = b[a]
<1> DEFINE f == AfterFee(b, t)
           g == AfterFee(c, t)
<1>1. t.actor \in Addresses /\ (t.kind \in PayingOut => t.rewardAddress \in Addresses)
  BY TxFields, StakingAssumption DEF PayingOut
<1>2. /\ DOMAIN f = Addresses /\ DOMAIN g = Addresses
      /\ \A a \in Touched(t) : f[a] = g[a]
      /\ \A a \in Addresses \ Touched(t) : f[a] = b[a]
  BY <1>1 DEF AfterFee, SubBalance, Touched
<1> HIDE DEF f, g
<1>3. CASE t.kind \in Spending
  <2>0. t.kind \notin PayingOut
    BY <1>3 DEF PayingOut, Spending
  <2>1. Succeeds(b, t, s, x) <=> Succeeds(c, t, s, x)
    BY <1>2, <1>3, <2>0 DEF Succeeds, CanSubBalance, Touched, f, g
  <2>2. /\ Moved(b, t, s, x) = SubBalance(f, t.actor, t.amount)
        /\ Moved(c, t, s, x) = SubBalance(g, t.actor, t.amount)
    BY <1>3, <2>0 DEF Moved, f, g
  <2>3. /\ DOMAIN Moved(b, t, s, x) = Addresses
        /\ \A a \in Touched(t) : Moved(b, t, s, x)[a] = Moved(c, t, s, x)[a]
        /\ \A a \in Addresses \ Touched(t) : Moved(b, t, s, x)[a] = b[a]
    BY <1>1, <1>2, <2>2 DEF SubBalance, Touched
  <2> QED BY <1>2, <2>1, <2>3 DEF BalanceAfter, f, g
<1>4. CASE t.kind \in PayingOut
  <2>1. ~ (t.kind \in Spending)
    BY <1>4 DEF PayingOut, Spending
  <2> DEFINE r == t.rewardAddress
             p == AddBalance(f, r, x)
             q == AddBalance(g, r, x)
  <2>2. r \in Touched(t) /\ t.actor \in Touched(t) /\ r \in Addresses
    BY <1>1, <1>4 DEF Touched
  <2>3. /\ DOMAIN p = Addresses /\ DOMAIN q = Addresses
        /\ \A a \in Touched(t) : p[a] = q[a]
        /\ \A a \in Addresses \ Touched(t) : p[a] = b[a]
    BY <1>2, <2>2 DEF AddBalance
  <2>4. Succeeds(b, t, s, x) <=> CanAddBalance(f, r, x) /\ CanAddBalance(p, t.actor, s)
    BY <1>4, <2>1 DEF Succeeds, CanPayOut, f
  <2>5. Succeeds(c, t, s, x) <=> CanAddBalance(g, r, x) /\ CanAddBalance(q, t.actor, s)
    BY <1>4, <2>1 DEF Succeeds, CanPayOut, g
  <2>6. /\ Moved(b, t, s, x) = AddBalance(p, t.actor, s)
        /\ Moved(c, t, s, x) = AddBalance(q, t.actor, s)
    BY <1>4, <2>1 DEF Moved, PayOut, f, g
  <2> HIDE DEF p, q
  <2>7. Succeeds(b, t, s, x) <=> Succeeds(c, t, s, x)
    BY <1>2, <2>2, <2>3, <2>4, <2>5 DEF CanAddBalance
  <2>8. /\ DOMAIN Moved(b, t, s, x) = Addresses
        /\ \A a \in Touched(t) : Moved(b, t, s, x)[a] = Moved(c, t, s, x)[a]
        /\ \A a \in Addresses \ Touched(t) : Moved(b, t, s, x)[a] = b[a]
    BY <1>1, <2>2, <2>3, <2>6 DEF AddBalance
  <2> QED BY <1>2, <2>7, <2>8 DEF BalanceAfter, f, g
<1>5. CASE t.kind \notin Spending \cup PayingOut
  <2>1. Succeeds(b, t, s, x) <=> Succeeds(c, t, s, x)
    BY <1>2, <1>5 DEF Succeeds, CanAddBalance, Touched, f, g
  <2>2. /\ Moved(b, t, s, x) = AddBalance(f, t.actor, x)
        /\ Moved(c, t, s, x) = AddBalance(g, t.actor, x)
    BY <1>5 DEF Moved, f, g
  <2>3. /\ DOMAIN Moved(b, t, s, x) = Addresses
        /\ \A a \in Touched(t) : Moved(b, t, s, x)[a] = Moved(c, t, s, x)[a]
        /\ \A a \in Addresses \ Touched(t) : Moved(b, t, s, x)[a] = b[a]
    BY <1>1, <1>2, <2>2 DEF AddBalance, Touched
  <2> QED BY <1>2, <2>1, <2>3 DEF BalanceAfter, f, g
<1> QED BY <1>3, <1>4, <1>5

\* The records another transaction looks at stay as they are.
LEMMA RecordsKept ==
  ASSUME NEW v, NEW t \in Txs, NEW u \in Txs, KeysApart(t, u), NEW x, NEW h, Permitted(v, u, h)
  PROVE  Permitted(After(v, t, x), u, h) /\ Stake(After(v, t, x), u) = Stake(v, u)
<1> DEFINE ok == Succeeds(v.balance, t, Stake(v, t), x)
           w == After(v, t, x)
           n == u.nodeID
           k == <<u.nodeID, u.actor>>
<1>1. /\ w.registered = RegisteredAfter(v.registered, t, ok)
      /\ w.delegated = DelegatedAfter(v.delegated, t, ok)
  BY DEF After
<1>2. <<t.nodeID, t.actor>> # k
  BY DEF KeysApart
<1>3. u.kind \notin Paying => t.nodeID # n \/ t.kind \in Paying
  BY DEF KeysApart
<1> HIDE DEF ok, w, k
<1>4. /\ k \in DOMAIN w.delegated <=> k \in DOMAIN v.delegated
      /\ k \in DOMAIN v.delegated => w.delegated[k] = v.delegated[k]
  BY <1>1, <1>2 DEF DelegatedAfter, Put, Delete
<1>5. t.kind \in Paying => w.registered = v.registered
  BY <1>1 DEF RegisteredAfter, Paying
<1>6. t.nodeID # n =>
        /\ n \in DOMAIN w.registered <=> n \in DOMAIN v.registered
        /\ n \in DOMAIN v.registered => w.registered[n] = v.registered[n]
  BY <1>1 DEF RegisteredAfter, Put, Delete
<1>7. u.kind \notin Paying =>
        /\ n \in DOMAIN w.registered <=> n \in DOMAIN v.registered
        /\ n \in DOMAIN v.registered => w.registered[n] = v.registered[n]
  BY <1>3, <1>5, <1>6
<1>8. Permitted(w, u, h)
  BY <1>4, <1>7 DEF Permitted, Paying, k
<1>9. Stake(w, u) = Stake(v, u)
  BY <1>4, <1>7 DEF Permitted, Stake, Paying, k
<1> QED BY <1>8, <1>9 DEF w

\* Records of different keys.
LEMMA RecordsCommute ==
  ASSUME NEW t \in Txs, NEW u \in Txs, KeysApart(t, u), NEW m, NEW p \in BOOLEAN, NEW q \in BOOLEAN
  PROVE  /\ RegisteredAfter(RegisteredAfter(m, t, p), u, q)
              = RegisteredAfter(RegisteredAfter(m, u, q), t, p)
         /\ DelegatedAfter(DelegatedAfter(m, t, p), u, q)
              = DelegatedAfter(DelegatedAfter(m, u, q), t, p)
<1>1. ASSUME NEW j, NEW k, j # k, NEW c, NEW d
      PROVE  /\ Put(Put(m, j, c), k, d) = Put(Put(m, k, d), j, c)
             /\ Put(Delete(m, j), k, d) = Delete(Put(m, k, d), j)
             /\ Delete(Put(m, j, c), k) = Put(Delete(m, k), j, c)
             /\ Delete(Delete(m, j), k) = Delete(Delete(m, k), j)
  BY <1>1 DEF Put, Delete
<1>2. <<t.nodeID, t.actor>> # <<u.nodeID, u.actor>>
  BY DEF KeysApart
<1>3. t.kind \in {"register", "withdraw"} /\ u.kind \in {"register", "withdraw"}
        => t.nodeID # u.nodeID
  BY DEF KeysApart, Paying
<1>4. RegisteredAfter(RegisteredAfter(m, t, p), u, q)
        = RegisteredAfter(RegisteredAfter(m, u, q), t, p)
  <2>1. CASE t.nodeID = u.nodeID
    BY <1>3, <2>1 DEF RegisteredAfter
  <2>2. CASE t.nodeID # u.nodeID
    BY <1>1, <2>2 DEF RegisteredAfter
  <2> QED BY <2>1, <2>2
<1>5. DelegatedAfter(DelegatedAfter(m, t, p), u, q)
        = DelegatedAfter(DelegatedAfter(m, u, q), t, p)
  <2> DEFINE j == <<t.nodeID, t.actor>>
             k == <<u.nodeID, u.actor>>
             c == [StakeStartBlock |-> t.start, StakeEndBlock |-> t.end,
                   StakedAmount |-> t.amount, RewardAddress |-> t.rewardAddress]
             d == [StakeStartBlock |-> u.start, StakeEndBlock |-> u.end,
                   StakedAmount |-> u.amount, RewardAddress |-> u.rewardAddress]
  <2>1. j # k
    BY <1>2
  <2>2. \A z : DelegatedAfter(z, t, p) =
                CASE p /\ t.kind = "delegate" -> Put(z, j, c)
                  [] p /\ t.kind = "undelegate" -> Delete(z, j)
                  [] OTHER -> z
    BY DEF DelegatedAfter
  <2>3. \A z : DelegatedAfter(z, u, q) =
                CASE q /\ u.kind = "delegate" -> Put(z, k, d)
                  [] q /\ u.kind = "undelegate" -> Delete(z, k)
                  [] OTHER -> z
    BY DEF DelegatedAfter
  <2> HIDE DEF j, k, c, d
  <2> QED BY <1>1, <2>1, <2>2, <2>3
<1> QED BY <1>4, <1>5

\* Balances are kept for all addresses.
LEMMA BalanceFunction ==
  ASSUME NEW b, DOMAIN b = Addresses, NEW t, NEW s, NEW x
  PROVE  BalanceAfter(b, t, s, x) = [a \in Addresses |-> BalanceAfter(b, t, s, x)[a]]
<1> DEFINE f == AfterFee(b, t)
<1>1. DOMAIN f = Addresses /\ f = [a \in Addresses |-> f[a]]
  BY DEF AfterFee, SubBalance
<1> HIDE DEF f
<1>2. ASSUME NEW a, NEW y, NEW g, DOMAIN g = Addresses
      PROVE  /\ SubBalance(g, a, y) = [c \in Addresses |-> SubBalance(g, a, y)[c]]
             /\ AddBalance(g, a, y) = [c \in Addresses |-> AddBalance(g, a, y)[c]]
             /\ DOMAIN AddBalance(g, a, y) = Addresses
  BY <1>2 DEF SubBalance, AddBalance
<1>3. Moved(b, t, s, x) = [a \in Addresses |-> Moved(b, t, s, x)[a]]
  BY <1>1, <1>2 DEF Moved, PayOut, f
<1> QED BY <1>1, <1>3 DEF BalanceAfter, f

\* The chain state v after t is to u what v is, as far as balances go.
Unaffected(v, t, x, u, y) ==
  LET w == After(v, t, x)
      s == Stake(v, u)
  IN /\ DOMAIN w.balance = Addresses
     /\ \A a \in Touched(u) : w.balance[a] = v.balance[a]
     /\ \A a \in Addresses \ Touched(t) : w.balance[a] = v.balance[a]
     /\ Succeeds(w.balance, u, s, y) <=> Succeeds(v.balance, u, s, y)
     /\ DOMAIN After(w, u, y).balance = Addresses
     /\ \A a \in Touched(u) : After(w, u, y).balance[a] = After(v, u, y).balance[a]
     /\ \A a \in Addresses \ Touched(u) : After(w, u, y).balance[a] = w.balance[a]

\* The balances of the accounts another transaction may touch stay as they are.
LEMMA BalancesKept ==
  ASSUME NEW v, DOMAIN v.balance = Addresses, NEW t \in Txs, NEW u \in Txs, KeysApart(t, u),
         NEW x, NEW h, Permitted(v, u, h), NEW y
  PROVE  Unaffected(v, t, x, u, y)
<1> DEFINE w == After(v, t, x)
           s == Stake(v, u)
<1>1. w.balance = BalanceAfter(v.balance, t, Stake(v, t), x)
  BY DEF After
<1>2. Touched(u) \subseteq Addresses \ Touched(t)
  <2>1. Touched(u) \subseteq Addresses
    BY TxFields, StakingAssumption DEF Touched, PayingOut
  <2> QED BY <2>1 DEF KeysApart
<1>3. /\ DOMAIN w.balance = Addresses
      /\ \A a \in Addresses \ Touched(t) : w.balance[a] = v.balance[a]
  BY <1>1, BalanceDepends
<1>4. \A a \in Touched(u) : w.balance[a] = v.balance[a]
  BY <1>2, <1>3
<1>5. Stake(w, u) = s
  BY RecordsKept
<1>6. After(w, u, y).balance = BalanceAfter(w.balance, u, s, y)
  BY <1>5 DEF After
<1>7. After(v, u, y).balance = BalanceAfter(v.balance, u, s, y)
  BY DEF After
<1> HIDE DEF w, s
<1>8. /\ Succeeds(w.balance, u, s, y) <=> Succeeds(v.balance, u, s, y)
      /\ DOMAIN BalanceAfter(w.balance, u, s, y) = Addresses
      /\ \A a \in Touched(u) :
           BalanceAfter(w.balance, u, s, y)[a] = BalanceAfter(v.balance, u, s, y)[a]
      /\ \A a \in Addresses \ Touched(u) : BalanceAfter(w.balance, u, s, y)[a] = w.balance[a]
  BY <1>3, <1>4, BalanceDepends
<1> QED BY <1>3, <1>4, <1>6, <1>7, <1>8 DEF Unaffected, w, s

\* The chain state after two transactions that pay the same rewards in either order.
LEMMA ViewsCommute ==
  ASSUME NEW v, DOMAIN v.balance = Addresses, NEW t \in Txs, NEW u \in Txs, KeysApart(t, u),
         KeysApart(u, t), NEW h, Permitted(v, t, h), Permitted(v, u, h), NEW x, NEW y
  PROVE  After(After(v, t, x), u, y) = After(After(v, u, y), t, x)
<1> DEFINE T == After(v, t, x)
           U == After(v, u, y)
           X == After(T, u, y)
           Y == After(U, t, x)
           p == Succeeds(v.balance, t, Stake(v, t), x)
           q == Succeeds(v.balance, u, Stake(v, u), y)
<1>1. Stake(T, u) = Stake(v, u) /\ Stake(U, t) = Stake(v, t)
  BY RecordsKept
<1>2. /\ DOMAIN T.balance = Addresses
      /\ \A a \in Addresses \ Touched(t) : T.balance[a] = v.balance[a]
      /\ Succeeds(T.balance, u, Stake(v, u), y) <=> Succeeds(v.balance, u, Stake(v, u), y)
      /\ DOMAIN X.balance = Addresses
      /\ \A a \in Touched(u) : X.balance[a] = U.balance[a]
      /\ \A a \in Addresses \ Touched(u) : X.balance[a] = T.balance[a]
  <2>1. Unaffected(v, t, x, u, y)
    BY BalancesKept
  <2> QED BY <2>1 DEF Unaffected
<1>3. /\ DOMAIN U.balance = Addresses
      /\ \A a \in Addresses \ Touched(u) : U.balance[a] = v.balance[a]
      /\ Succeeds(U.balance, t, Stake(v, t), x) <=> Succeeds(v.balance, t, Stake(v, t), x)
      /\ DOMAIN Y.balance = Addresses
      /\ \A a \in Touched(t) : Y.balance[a] = T.balance[a]
      /\ \A a \in Addresses \ Touched(t) : Y.balance[a] = U.balance[a]
  <2>1. Unaffected(v, u, y, t, x)
    BY BalancesKept
  <2> QED BY <2>1 DEF Unaffected
<1>4. \A a \in Addresses : X.balance[a] = Y.balance[a]
  <2>1. Touched(t) \cap Touched(u) = {}
    BY DEF KeysApart
  <2> HIDE DEF T, U, X, Y, p, q
  <2> QED BY <1>2, <1>3, <2>1
<1>5. X.balance = Y.balance
  <2>1. /\ X.balance = BalanceAfter(T.balance, u, Stake(T, u), y)
        /\ Y.balance = BalanceAfter(U.balance, t, Stake(U, t), x)
    BY DEF After
  <2> HIDE DEF T, U, X, Y, p, q
  <2>2. /\ X.balance = [a \in Addresses |-> X.balance[a]]
        /\ Y.balance = [a \in Addresses |-> Y.balance[a]]
    BY <1>2, <1>3, <2>1, BalanceFunction
  <2> QED BY <1>4, <2>2
<1>6. /\ X.registered = RegisteredAfter(RegisteredAfter(v.registered, t, p), u, q)
      /\ Y.registered = RegisteredAfter(RegisteredAfter(v.registered, u, q), t, p)
      /\ X.delegated = DelegatedAfter(DelegatedAfter(v.delegated, t, p), u, q)
      /\ Y.delegated = DelegatedAfter(DelegatedAfter(v.delegated, u, q), t, p)
  <2>1. /\ X.registered = RegisteredAfter(T.registered, u, Succeeds(T.balance, u, Stake(T, u), y))
        /\ X.delegated = DelegatedAfter(T.delegated, u, Succeeds(T.balance, u, Stake(T, u), y))
        /\ Y.registered = RegisteredAfter(U.registered, t, Succeeds(U.balance, t, Stake(U, t), x))
        /\ Y.delegated = DelegatedAfter(U.delegated, t, Succeeds(U.balance, t, Stake(U, t), x))
    BY DEF After
  <2>2. /\ T.registered = RegisteredAfter(v.registered, t, p)
        /\ T.delegated = DelegatedAfter(v.delegated, t, p)
        /\ U.registered = RegisteredAfter(v.registered, u, q)
        /\ U.delegated = DelegatedAfter(v.delegated, u, q)
    BY DEF After
  <2> HIDE DEF T, U, X, Y
  <2>3. \A m : /\ RegisteredAfter(m, u, Succeeds(T.balance, u, Stake(T, u), y))
                    = RegisteredAfter(m, u, q)
               /\ DelegatedAfter(m, u, Succeeds(T.balance, u, Stake(T, u), y))
                    = DelegatedAfter(m, u, q)
    BY <1>1, <1>2 DEF RegisteredAfter, DelegatedAfter
  <2>4. \A m : /\ RegisteredAfter(m, t, Succeeds(U.balance, t, Stake(U, t), x))
                    = RegisteredAfter(m, t, p)
               /\ DelegatedAfter(m, t, Succeeds(U.balance, t, Stake(U, t), x))
                    = DelegatedAfter(m, t, p)
    BY <1>1, <1>3 DEF RegisteredAfter, DelegatedAfter
  <2> QED BY <2>1, <2>2, <2>3, <2>4
<1>7. X.registered = Y.registered /\ X.delegated = Y.delegated
  <2>1. p \in BOOLEAN /\ q \in BOOLEAN
    BY DEF Succeeds, CanSubBalance, CanPayOut, CanAddBalance
  <2> HIDE DEF p, q, X, Y
  <2> QED BY <1>6, <2>1, RecordsCommute
<1>8. /\ X = [balance |-> X.balance, registered |-> X.registered, delegated |-> X.delegated]
      /\ Y = [balance |-> Y.balance, registered |-> Y.registered, delegated |-> Y.delegated]
  BY DEF After
<1> HIDE DEF X, Y
<1> QED BY <1>5, <1>7, <1>8 DEF X, Y

-----------------------------------------------------------------------------
(* Two transactions without a common key, in either order.                 *)

\* The transaction t of a block at height h passes its checks, a stake that it
\* reads is not 0, and no balance is too large for what it gives back.
Allowed(e, v, t, h) ==
  /\ Permitted(v, t, h) /\ Known(e, t)
  /\ t.kind \in {"withdraw", "delegate", "claimValidator"} =>
       ValidatorOf(e, t.nodeID).StakedAmount # 0
  /\ t.kind = "undelegate" =>
       \A x \in Uint64 : x <= DueTo(ValidatorOf(e, t.nodeID), t.actor) =>
         Succeeds(v.balance, t, Stake(v, t), x)

\* What t makes of a balancer and a chain state.
Executed(e, v, t, g, w) ==
  Tells(e, g, t) /\ w = After(v, t, Reward(BookOf(e, t.nodeID).validator, t))

Apart(e, v, t, u, h) ==
  /\ IsEmission(e) /\ PointersKnown(e) /\ DOMAIN v.balance = Addresses
  /\ t \in Txs /\ Allowed(e, v, t, h)
  /\ u \in Txs /\ Allowed(e, v, u, h)
  /\ KeysApart(t, u) /\ KeysApart(u, t)

\* A rate that passes the checks is a percentage.
LEMMA FeeRatePermitted ==
  ASSUME NEW t \in Txs, NEW v, NEW h, Permitted(v, t, h), t.kind = "register"
  PROVE  t.feeRate \in Percent
<1>1. t.feeRate \in Nat
  BY TxFields, StakingAssumption
<1>2. t.feeRate <= 100
  BY DEF Permitted
<1> QED BY <1>1, <1>2 DEF Percent

\* What is executed revises a book.
LEMMA ExecutedRevises ==
  ASSUME NEW e, IsEmission(e), PointersKnown(e), NEW v, NEW t \in Txs, NEW h,
         Permitted(v, t, h), Known(e, t), NEW g, NEW w, Executed(e, v, t, g, w)
  PROVE  Revises(e, g, t)
  BY FeeRatePermitted, TxRevises DEF Executed

\* The book of a known validator.
LEMMA KnownBook ==
  ASSUME NEW e, IsEmission(e), NEW n, HasValidator(e, n)
  PROVE  /\ BookOf(e, n).validator = ValidatorOf(e, n)
         /\ IsRecord(ValidatorOf(e, n))
         /\ ValidatorOf(e, n).AccumulatedDelegatedReward \in Uint64
<1>1. IsValidator(ValidatorOf(e, n))
  BY ValidatorOfType DEF HasValidator
<1> QED BY <1>1, ValidatorRecord DEF BookOf, Book

\* The first transaction leaves the second what it asks of the balancer.
LEMMA KnownKept ==
  ASSUME NEW e, NEW v, NEW t, NEW u, NEW h, Apart(e, v, t, u, h), NEW g, Revises(e, g, t)
  PROVE  /\ Known(g, u)
         /\ u.kind # "register" /\ t.nodeID = u.nodeID => HasValidator(g, u.nodeID)
<1> DEFINE n == t.nodeID
           x == ValidatorOf(e, n)
           y == ValidatorOf(g, n)
<1>1. /\ t \in Txs /\ u \in Txs /\ IsEmission(e) /\ t.actor # u.actor
      /\ Known(e, u) /\ Known(e, t)
      /\ u.kind \in {"withdraw", "delegate", "claimValidator"} =>
           ValidatorOf(e, u.nodeID).StakedAmount # 0
  BY DEF Apart, Allowed, KeysApart
<1>2. CASE t.nodeID # u.nodeID
  <2>1. u.nodeID \in NodeIDs \ {n}
    BY <1>1, <1>2, TxFields
  <2>2. SameBook(g, e, u.nodeID)
    BY <2>1 DEF Revises, SameBook
  <2>3. HasValidator(e, u.nodeID) => ValidatorOf(g, u.nodeID) = ValidatorOf(e, u.nodeID)
    BY <2>2 DEF SameBook, BookOf, Book
  <2> QED BY <1>1, <1>2, <2>2, <2>3 DEF Known, HasDelegator, SameBook
<1>3. CASE t.nodeID = u.nodeID /\ u.kind = "register"
  BY <1>3 DEF Known
<1>4. CASE t.nodeID = u.nodeID /\ u.kind # "register"
  <2>1. HasValidator(e, n)
    BY <1>1, <1>4, TxFields DEF Known, HasDelegator
  <2>2. BookOf(e, n).validator = x /\ IsRecord(x)
    BY <1>1, <2>1, KnownBook
  <2>3. u.kind \in Paying => u.actor \in DOMAIN x.delegators
    BY <1>1, <1>4 DEF Known, HasDelegator, Paying
  <2>4. Keeps(x, t)
    BY <1>1, <1>4, <2>3, TxFields DEF Keeps, Paying
  <2>5. HasValidator(g, n) /\ y = Revised(x, t)
    BY <2>2, <2>4 DEF Revises, Book, RevisedBook
  <2>6. y.delegators = DelegatorsAfter(x.delegators, t)
    <3>1. RevisesFields(x, Revised(x, t), t)
      BY <1>1, <2>2, RevisedFields
    <3> HIDE DEF x, y
    <3> QED BY <2>5, <3>1 DEF RevisesFields
  <2>7. u.actor \in DOMAIN y.delegators <=> u.actor \in DOMAIN x.delegators
    <3> HIDE DEF x, y
    <3> QED BY <1>1, <2>6 DEF DelegatorsAfter, Put, Delete
  <2> QED BY <1>1, <1>4, <2>1, <2>5, <2>7 DEF Known, HasDelegator
<1> QED BY <1>2, <1>3, <1>4

\* Both orders may be executed.
LEMMA ApartBothOrders ==
  ASSUME NEW e, NEW v, NEW t, NEW u, NEW h, Apart(e, v, t, u, h),
         NEW g1, NEW w1, Executed(e, v, t, g1, w1), NEW h1, NEW x1, Executed(g1, w1, u, h1, x1),
         NEW g2, NEW w2, Executed(e, v, u, g2, w2), NEW h2, NEW x2, Executed(g2, w2, t, h2, x2)
  PROVE  BothOrders(e, t, u, g1, h1, g2, h2)
<1>1. /\ t \in Txs /\ u \in Txs /\ IsEmission(e) /\ PointersKnown(e)
      /\ Permitted(v, t, h) /\ Known(e, t) /\ Permitted(v, u, h) /\ Known(e, u)
      /\ KeysApart(t, u) /\ KeysApart(u, t) /\ Apart(e, v, u, t, h)
  BY DEF Apart, Allowed
<1>2. Revises(e, g1, t) /\ Revises(e, g2, u)
  BY <1>1, ExecutedRevises
<1>3. /\ IsEmission(g1) /\ PointersKnown(g1) /\ IsEmission(g2) /\ PointersKnown(g2)
      /\ Known(g1, u) /\ Known(g2, t)
  BY <1>1, <1>2, KnownKept DEF Revises
<1>4. Permitted(w1, u, h) /\ Permitted(w2, t, h)
  BY <1>1, RecordsKept DEF Executed
<1>5. Revises(g1, h1, u)
  BY <1>1, <1>3, <1>4, ExecutedRevises
<1>6. Revises(g2, h2, t)
  BY <1>1, <1>3, <1>4, ExecutedRevises
<1> QED BY <1>2, <1>5, <1>6 DEF BothOrders

\* A delegation that is taken back is paid back, however little its reward is.
LEMMA UndelegationSucceeds ==
  ASSUME NEW e, NEW v, NEW t, NEW u, NEW h, Apart(e, v, t, u, h), t.kind = "undelegate",
         NEW x \in Uint64, x <= DueTo(ValidatorOf(e, t.nodeID), t.actor), NEW y
  PROVE  /\ Succeeds(v.balance, t, Stake(v, t), x)
         /\ Succeeds(After(v, u, y).balance, t, Stake(After(v, u, y), t), x)
<1>1. Succeeds(v.balance, t, Stake(v, t), x)
  BY DEF Apart, Allowed
<1>2. /\ t \in Txs /\ u \in Txs /\ KeysApart(u, t) /\ Permitted(v, t, h)
      /\ DOMAIN v.balance = Addresses
  BY DEF Apart, Allowed
<1>3. Unaffected(v, u, y, t, x)
  BY <1>2, BalancesKept
<1>4. Stake(After(v, u, y), t) = Stake(v, t)
  BY <1>2, RecordsKept
<1> QED BY <1>1, <1>3, <1>4 DEF Unaffected

\* A reward that an undelegation may be paid.
Payable(e, t, x) ==
  t.kind = "undelegate" =>
    x \in Uint64 /\ x <= DueTo(ValidatorOf(e, t.nodeID), t.actor)

\* The records once two delegators have been paid.
PaidRecords(v, t, u, z) ==
  /\ z.registered = v.registered
  /\ z.delegated = DelegatedAfter(DelegatedAfter(v.delegated, t, TRUE), u, TRUE)

\* The records after two payments to delegators, the first with reward x and the
\* second with reward y.
LEMMA PaymentRecords ==
  ASSUME NEW e, NEW v, NEW t, NEW u, NEW h, Apart(e, v, t, u, h),
         t.kind \in Paying, u.kind \in Paying,
         NEW x, Payable(e, t, x), NEW y, Payable(e, u, y)
  PROVE  PaidRecords(v, t, u, After(After(v, t, x), u, y))
<1> DEFINE w == After(v, t, x)
           z == After(w, u, y)
           p == Succeeds(v.balance, t, Stake(v, t), x)
           q == Succeeds(w.balance, u, Stake(w, u), y)
<1>1. Apart(e, v, u, t, h)
  BY DEF Apart
<1>2. t.kind = "undelegate" => p
  BY UndelegationSucceeds DEF Payable
<1>3. u.kind = "undelegate" => q
  BY <1>1, UndelegationSucceeds DEF Payable
<1>4. /\ z.registered = RegisteredAfter(RegisteredAfter(v.registered, t, p), u, q)
      /\ z.delegated = DelegatedAfter(DelegatedAfter(v.delegated, t, p), u, q)
  BY DEF After
<1> HIDE DEF w, z, p, q
<1>5. \A m : RegisteredAfter(m, t, p) = m /\ RegisteredAfter(m, u, q) = m
  BY DEF RegisteredAfter, Paying
<1>6. \A m : /\ DelegatedAfter(m, t, p) = DelegatedAfter(m, t, TRUE)
             /\ DelegatedAfter(m, u, q) = DelegatedAfter(m, u, TRUE)
  BY <1>2, <1>3 DEF DelegatedAfter, Paying
<1> QED BY <1>4, <1>5, <1>6 DEF PaidRecords, w, z

\* A clamped reward is no more than what is due.
LEMMA ClampedBound ==
  ASSUME NEW v, v.AccumulatedDelegatedReward \in Uint64, NEW a
  PROVE  Clamped(v, a) \in Uint64 /\ Clamped(v, a) <= DueTo(v, a)
<1>1. DueTo(v, a) \in Uint64
  BY DueType
<1> QED BY <1>1, EmissionAssumption DEF Clamped, Uint64

\* The pool stays a uint64.
LEMMA PoolType ==
  ASSUME NEW v, v.AccumulatedDelegatedReward \in Uint64, NEW t
  PROVE  PoolAfter(v, t) \in Uint64
  BY WrapType DEF PoolAfter

\* What an undelegation is paid, before or after another payment to a delegator.
LEMMA RewardBound ==
  ASSUME NEW v, IsRecord(v), v.AccumulatedDelegatedReward \in Uint64, NEW t \in Txs, NEW u \in Txs,
         t.actor # u.actor, t.actor \in DOMAIN v.delegators, t.kind = "undelegate"
  PROVE  /\ Reward(v, t) \in Uint64 /\ Reward(v, t) <= DueTo(v, t.actor)
         /\ Reward(Revised(v, u), t) \in Uint64 /\ Reward(Revised(v, u), t) <= DueTo(v, t.actor)
<1> DEFINE U == Revised(v, u)
           a == t.actor
<1>1. Reward(v, t) = Clamped(v, a) /\ Reward(U, t) = Clamped(U, a)
  BY DEF Reward
<1>2. U.AccumulatedDelegatedReward \in Uint64
  <2>1. U.AccumulatedDelegatedReward = PoolAfter(v, u)
    BY RevisedFields DEF RevisesFields
  <2> QED BY <2>1, PoolType
<1>3. DueTo(U, a) = DueTo(v, a)
  BY DueKept
<1>4. Clamped(v, a) \in Uint64 /\ Clamped(v, a) <= DueTo(v, a)
  BY ClampedBound
<1>5. Clamped(U, a) \in Uint64 /\ Clamped(U, a) <= DueTo(U, a)
  BY <1>2, ClampedBound
<1> QED BY <1>1, <1>3, <1>4, <1>5

\* The two races, for the balancer e before them.
TooSmall(e, t, u) ==
  /\ t.kind \in Paying /\ u.kind \in Paying /\ t.nodeID = u.nodeID
  /\ HasDelegator(e, t.nodeID, t.actor) /\ HasDelegator(e, t.nodeID, u.actor)
  /\ ~ PoolPays(ValidatorOf(e, t.nodeID), t.actor, u.actor)

LastLeaves(e, t, u) ==
  /\ t.nodeID = u.nodeID
  /\ t.kind = "undelegate" /\ u.kind \in {"register", "withdraw"}
  /\ DOMAIN ValidatorOf(e, t.nodeID).delegators = {t.actor}

SameRecords(x, y) == x.registered = y.registered /\ x.delegated = y.delegated

\* What the nodes agree on.
Outcome(e, t, u, h1, x1, h2, x2) ==
  \/ x2 = x1 /\ \A m \in NodeIDs : SameBook(h2, h1, m)
  \/ TooSmall(e, t, u) /\ SameRecords(x2, x1)
  \/ LastLeaves(e, t, u) /\ x2 = x1

\* Transactions on different nodes get the same rewards in either order.
LEMMA NodesApartOutcome ==
  ASSUME NEW e, NEW v, NEW t, NEW u, NEW h, Apart(e, v, t, u, h), t.nodeID # u.nodeID,
         NEW g1, NEW w1, Executed(e, v, t, g1, w1), NEW h1, NEW x1, Executed(g1, w1, u, h1, x1),
         NEW g2, NEW w2, Executed(e, v, u, g2, w2), NEW h2, NEW x2, Executed(g2, w2, t, h2, x2)
  PROVE  x2 = x1 /\ \A m \in NodeIDs : SameBook(h2, h1, m)
<1>1. /\ t \in Txs /\ u \in Txs /\ DOMAIN v.balance = Addresses
      /\ KeysApart(t, u) /\ KeysApart(u, t) /\ Permitted(v, t, h) /\ Permitted(v, u, h)
  BY DEF Apart, Allowed
<1>2. BothOrders(e, t, u, g1, h1, g2, h2)
  BY ApartBothOrders
<1>3. \A m \in NodeIDs : SameBook(h2, h1, m)
  BY <1>1, <1>2, NodesApart
<1>4. BookOf(g1, u.nodeID) = BookOf(e, u.nodeID) /\ BookOf(g2, t.nodeID) = BookOf(e, t.nodeID)
  <2>1. t.nodeID \in NodeIDs /\ u.nodeID \in NodeIDs
    BY <1>1, TxFields
  <2> QED BY <1>2, <2>1 DEF BothOrders, Revises
<1> DEFINE x == Reward(BookOf(e, t.nodeID).validator, t)
           y == Reward(BookOf(e, u.nodeID).validator, u)
<1>5. x1 = After(After(v, t, x), u, y) /\ x2 = After(After(v, u, y), t, x)
  BY <1>4 DEF Executed
<1> HIDE DEF x, y
<1>6. After(After(v, t, x), u, y) = After(After(v, u, y), t, x)
  BY <1>1, ViewsCommute
<1> QED BY <1>3, <1>5, <1>6

\* A payment to a delegator and another transaction on the same node.
LEMMA OneValidatorOutcome ==
  ASSUME NEW e, NEW v, NEW t, NEW u, NEW h, Apart(e, v, t, u, h), t.nodeID = u.nodeID,
         t.kind \in Paying,
         NEW g1, NEW w1, Executed(e, v, t, g1, w1), NEW h1, NEW x1, Executed(g1, w1, u, h1, x1),
         NEW g2, NEW w2, Executed(e, v, u, g2, w2), NEW h2, NEW x2, Executed(g2, w2, t, h2, x2)
  PROVE  Outcome(e, t, u, h1, x1, h2, x2)
<1> DEFINE n  == t.nodeID
           a  == t.actor
           b  == u.actor
           o  == ValidatorOf(e, n)
           x  == Reward(o, t)
           y  == Reward(o, u)
           y1 == Reward(BookOf(g1, n).validator, u)
           xx == Reward(BookOf(g2, n).validator, t)
<1>1. /\ t \in Txs /\ u \in Txs /\ DOMAIN v.balance = Addresses /\ IsEmission(e)
      /\ KeysApart(t, u) /\ KeysApart(u, t) /\ Permitted(v, t, h) /\ Permitted(v, u, h)
      /\ Known(e, t) /\ Known(e, u) /\ a # b
      /\ u.kind \in {"withdraw", "delegate", "claimValidator"} => o.StakedAmount # 0
  BY DEF Apart, Allowed, KeysApart
<1>2. BothOrders(e, t, u, g1, h1, g2, h2)
  BY ApartBothOrders
<1>3. /\ HasDelegator(e, n, a) /\ HasValidator(e, n) /\ a \in DOMAIN o.delegators
      /\ u.kind \in Paying => HasDelegator(e, n, b) /\ b \in DOMAIN o.delegators
  BY <1>1 DEF Known, HasDelegator, Paying
<1>4. BookOf(e, n).validator = o /\ IsRecord(o) /\ o.AccumulatedDelegatedReward \in Uint64
  BY <1>1, <1>3, KnownBook
<1>5. /\ w1 = After(v, t, x) /\ x1 = After(w1, u, y1)
      /\ w2 = After(v, u, y) /\ x2 = After(w2, t, xx)
  BY <1>4 DEF Executed
<1>6. /\ Keeps(o, t) => BookOf(g1, n).validator = Revised(o, t)
      /\ Keeps(o, u) => BookOf(g2, n).validator = Revised(o, u)
  BY <1>2, <1>4 DEF BothOrders, Revises, BookOf, RevisedBook
<1>7. Keeps(o, u)
  BY <1>1, <1>3, TxFields DEF Keeps, Paying
<1> HIDE DEF o
<1>8. CASE u.kind \in Paying /\ ~ PoolPays(o, a, b)
  <2>1. TooSmall(e, t, u)
    BY <1>3, <1>8 DEF TooSmall, o
  <2>2. Keeps(o, t)
    BY <1>1, <1>3, <1>8 DEF Keeps
  <2>3. y1 = Reward(Revised(o, t), u) /\ xx = Reward(Revised(o, u), t)
    BY <1>6, <1>7, <2>2
  <2>4. Payable(e, t, x) /\ Payable(e, t, xx)
    BY <1>1, <1>3, <1>4, <2>3, RewardBound DEF Payable, o
  <2>5. Payable(e, u, y) /\ Payable(e, u, y1)
    BY <1>1, <1>3, <1>4, <1>8, <2>3, RewardBound DEF Payable, o
  <2>6. Apart(e, v, u, t, h)
    BY DEF Apart
  <2> HIDE DEF x, y, xx, y1
  <2>7. PaidRecords(v, t, u, x1)
    <3>1. x1 = After(After(v, t, x), u, y1)
      BY <1>5
    <3> QED BY <1>8, <2>4, <2>5, <3>1, PaymentRecords
  <2>8. PaidRecords(v, u, t, x2)
    <3>1. x2 = After(After(v, u, y), t, xx)
      BY <1>5
    <3> QED BY <1>8, <2>4, <2>5, <2>6, <3>1, PaymentRecords
  <2>9. DelegatedAfter(DelegatedAfter(v.delegated, t, TRUE), u, TRUE)
          = DelegatedAfter(DelegatedAfter(v.delegated, u, TRUE), t, TRUE)
    BY <1>1, RecordsCommute
  <2> QED BY <2>1, <2>7, <2>8, <2>9 DEF Outcome, SameRecords, PaidRecords
<1>9. CASE u.kind \in Paying => PoolPays(o, a, b)
  <2>1. Reward(Revised(o, u), t) = x /\ Reward(Revised(o, t), u) = y
    BY <1>1, <1>3, <1>4, <1>9, PoolsCommute
  <2>2. xx = x
    BY <1>6, <1>7, <2>1
  <2>3. y1 = y
    <3>1. CASE Keeps(o, t)
      BY <1>6, <2>1, <3>1
    <3>2. CASE ~ Keeps(o, t)
      <4>1. u.kind = "register"
        BY <1>1, <1>3, <3>2, TxFields DEF Keeps, Paying
      <4>2. \A z : Reward(z, u) = 0
        BY <4>1 DEF Reward
      <4> QED BY <4>2
    <3> QED BY <3>1, <3>2
  <2> HIDE DEF x, y, xx, y1
  <2>4. x1 = After(After(v, t, x), u, y) /\ x2 = After(After(v, u, y), t, x)
    BY <1>5, <2>2, <2>3
  <2>5. x2 = x1
    BY <1>1, <2>4, ViewsCommute
  <2>6. CASE t.kind = "undelegate" /\ u.kind \in {"register", "withdraw"}
               /\ DOMAIN o.delegators = {a}
    BY <2>5, <2>6 DEF Outcome, LastLeaves, o
  <2>7. CASE ~ (t.kind = "undelegate" /\ u.kind \in {"register", "withdraw"}
                  /\ DOMAIN o.delegators = {a})
    <3>1. /\ Keeps(o, t) /\ Keeps(o, u)
          /\ Keeps(Revised(o, t), u) <=> Keeps(Revised(o, u), t)
      BY <1>1, <1>3, <1>4, <2>7, KeepingCommutes
    <3>2. Revised(Revised(o, t), u) = Revised(Revised(o, u), t)
      BY <1>1, <1>3, <1>4, <1>9, RevisionsCommute
    <3>3. t.kind # "register"
      BY DEF Paying
    <3>4. \A m \in NodeIDs : SameBook(h2, h1, m)
      BY <1>1, <1>2, <1>4, <3>1, <3>2, <3>3, NodesTogether
    <3> QED BY <2>5, <3>4 DEF Outcome
  <2> QED BY <2>6, <2>7
<1> QED BY <1>8, <1>9

\* Whatever the transactions, the nodes agree on what ReplicasAgree says.
LEMMA OrdersAgree ==
  ASSUME NEW e, NEW v, NEW t, NEW u, NEW h, Apart(e, v, t, u, h),
         NEW g1, NEW w1, Executed(e, v, t, g1, w1), NEW h1, NEW x1, Executed(g1, w1, u, h1, x1),
         NEW g2, NEW w2, Executed(e, v, u, g2, w2), NEW h2, NEW x2, Executed(g2, w2, t, h2, x2)
  PROVE  /\ SameRecords(x2, x1) /\ Common(h2) = Common(h1)
         /\ SameBooks(h2, h1, NodeIDs \ {t.nodeID})
         /\ \/ x2 = x1 /\ SameBooks(h2, h1, NodeIDs)
            \/ TooSmall(e, t, u)
            \/ (LastLeaves(e, t, u) \/ LastLeaves(e, u, t)) /\ x2 = x1
<1>1. /\ t \in Txs /\ u \in Txs /\ KeysApart(t, u) /\ Apart(e, v, u, t, h)
  BY DEF Apart
<1>2. BothOrders(e, t, u, g1, h1, g2, h2)
  BY ApartBothOrders
<1>3. Common(h2) = Common(h1) /\ \A m \in NodeIDs \ {t.nodeID, u.nodeID} : SameBook(h2, h1, m)
  BY <1>1, <1>2, OthersAgree
<1>4. CASE t.nodeID # u.nodeID
  <2>1. x2 = x1 /\ \A m \in NodeIDs : SameBook(h2, h1, m)
    BY <1>4, NodesApartOutcome
  <2>2. SameBooks(h2, h1, NodeIDs) /\ SameBooks(h2, h1, NodeIDs \ {t.nodeID})
    BY <2>1, BooksSame
  <2> QED BY <1>3, <2>1, <2>2 DEF SameRecords
<1>5. CASE t.nodeID = u.nodeID
  <2>1. SameBooks(h2, h1, NodeIDs \ {t.nodeID})
    BY <1>3, <1>5, BooksSame
  <2>2. Outcome(e, t, u, h1, x1, h2, x2) \/ Outcome(e, u, t, h2, x2, h1, x1)
    <3>1. CASE t.kind \in Paying
      BY <1>5, <3>1, OneValidatorOutcome
    <3>2. CASE u.kind \in Paying
      BY <1>1, <1>5, <3>2, OneValidatorOutcome
    <3> QED BY <1>1, <1>5, <3>1, <3>2 DEF KeysApart
  <2>3. (\A m \in NodeIDs : SameBook(h2, h1, m)) => SameBooks(h2, h1, NodeIDs)
    BY BooksSame
  <2>4. (\A m \in NodeIDs : SameBook(h1, h2, m)) => \A m \in NodeIDs : SameBook(h2, h1, m)
    BY DEF SameBook
  <2>5. TooSmall(e, u, t) => TooSmall(e, t, u)
    <3> SUFFICES ASSUME TooSmall(e, u, t)
                 PROVE  TooSmall(e, t, u)
      OBVIOUS
    <3> DEFINE o == ValidatorOf(e, t.nodeID)
    <3>1. DueTo(o, u.actor) + DueTo(o, t.actor) = DueTo(o, t.actor) + DueTo(o, u.actor)
      <4>1. DueTo(o, u.actor) \in Uint64 /\ DueTo(o, t.actor) \in Uint64
        BY DueType
      <4> QED BY <4>1, EmissionAssumption DEF Uint64
    <3> QED BY <1>5, <3>1 DEF TooSmall, PoolPays
  <2> QED BY <1>3, <2>1, <2>2, <2>3, <2>4, <2>5 DEF Outcome, SameRecords
<1> QED BY <1>4, <1>5

-----------------------------------------------------------------------------
(* What the actions of the two nodes do.                                   *)

IsView(v) ==
  v = [balance |-> v.balance, registered |-> v.registered, delegated |-> v.delegated]

\* The chain state once the fee is paid.
LEMMA FeeView ==
  ASSUME IsView(view), NEW t
  PROVE  FeePaid(t.actor) = [balance |-> AfterFee(view.balance, t),
                             registered |-> view.registered, delegated |-> view.delegated]
  BY DEF FeePaid, AfterFee, IsView

\* The checks of a transaction.
LEMMA ChecksMean ==
  ASSUME IsView(view), NEW t \in Txs, Checks(t)
  PROVE  Permitted(view, t, height) /\ Known(em, t)
<1> DEFINE v == FeePaid(t.actor)
<1>1. v.registered = view.registered /\ v.delegated = view.delegated
  <2>1. v = [balance |-> AfterFee(view.balance, t),
             registered |-> view.registered, delegated |-> view.delegated]
    BY FeeView
  <2> HIDE DEF v
  <2> QED BY <2>1
<1> HIDE DEF v
<1>2. CASE t.kind = "register"
  <2>1. RegisterChecks(v, t.actor, t.nodeID, t.start, t.end, t.amount, t.feeRate)
    BY <1>2 DEF Checks, v
  <2> QED BY <1>1, <1>2, <2>1 DEF RegisterChecks, Permitted, Known
<1>3. CASE t.kind = "withdraw"
  <2>1. WithdrawChecks(v, t.actor, t.nodeID)
    BY <1>3 DEF Checks, v
  <2> QED BY <1>1, <1>3, <2>1 DEF WithdrawChecks, Permitted, Known
<1>4. CASE t.kind = "delegate"
  <2>1. DelegateChecks(v, t.actor, t.nodeID, t.start, t.end, t.amount)
    BY <1>4 DEF Checks, v
  <2> QED BY <1>1, <1>4, <2>1 DEF DelegateChecks, DelegateUserStakeOk, Permitted, Known
<1>5. CASE t.kind = "undelegate"
  <2>1. UndelegateChecks(v, t.actor, t.nodeID)
    BY <1>5 DEF Checks, v
  <2> QED BY <1>1, <1>5, <2>1 DEF UndelegateChecks, Permitted, Known
<1>6. CASE t.kind = "claimValidator"
  <2>1. ClaimValidatorChecks(v, t.actor, t.nodeID)
    BY <1>6 DEF Checks, v
  <2> QED BY <1>1, <1>6, <2>1 DEF ClaimValidatorChecks, Permitted, Known
<1>7. CASE t.kind = "claimDelegation"
  <2>1. ClaimDelegationChecks(v, t.actor, t.nodeID, t.userStakeAddress)
    BY <1>7 DEF Checks, v
  <2> QED BY <1>1, <1>7, <2>1 DEF ClaimDelegationChecks, Permitted, Known
<1> QED BY <1>2, <1>3, <1>4, <1>5, <1>6, <1>7, TxFields

\* The reward a transaction pays is that of the book.
LEMMA RewardOfBook ==
  ASSUME NEW e, NEW t, Known(e, t)
  PROVE  /\ t.kind \in {"withdraw", "claimValidator"} =>
              Reward(BookOf(e, t.nodeID).validator, t) = WithdrawReward(e, t.nodeID)
         /\ t.kind = "undelegate" =>
              Reward(BookOf(e, t.nodeID).validator, t) = UndelegateReward(e, t.nodeID, t.actor)
         /\ t.kind = "claimDelegation" =>
              Reward(BookOf(e, t.nodeID).validator, t)
                = CalculateUserDelegationRewards(e, t.nodeID, t.actor)
<1> DEFINE o == ValidatorOf(e, t.nodeID)
           b == BookOf(e, t.nodeID).validator
<1>1. t.kind \in {"withdraw", "claimValidator", "undelegate", "claimDelegation"} => b = o
  BY DEF Known, HasDelegator, BookOf, Book
<1>2. CalculateUserDelegationRewards(e, t.nodeID, t.actor) = DueTo(o, t.actor)
  BY DueCalculated
<1>3. UndelegateReward(e, t.nodeID, t.actor) = Clamped(o, t.actor)
  BY <1>2 DEF UndelegateReward, Clamped
<1>4. WithdrawReward(e, t.nodeID) = o.AccumulatedStakedReward
  BY DEF WithdrawReward
<1> HIDE DEF o, b
<1> QED BY <1>1, <1>2, <1>3, <1>4 DEF Reward, b

\* A transaction that passes its checks is executed.
LEMMA ApplyExecutes ==
  ASSUME IsView(view), NEW t \in Txs, Apply(t), Permitted(view, t, height), Known(em, t)
  PROVE  Executed(em, view, t, em', view') /\ height' = height
<1> DEFINE a == t.actor
           n == t.nodeID
           f == AfterFee(view.balance, t)
           v == FeePaid(a)
           x == Reward(BookOf(em, n).validator, t)
           s == Stake(view, t)
           ok == Succeeds(view.balance, t, s, x)
<1>1. v = [balance |-> f, registered |-> view.registered, delegated |-> view.delegated]
  BY FeeView
<1>2. /\ v.balance = f /\ v.registered = view.registered /\ v.delegated = view.delegated
  BY <1>1
<1>3. /\ t.kind \in {"withdraw", "claimValidator"} => x = WithdrawReward(em, n)
      /\ t.kind = "undelegate" => x = UndelegateReward(em, n, a)
      /\ t.kind = "claimDelegation" => x = CalculateUserDelegationRewards(em, n, a)
  BY RewardOfBook
<1> HIDE DEF v, f, x
<1>4. CASE t.kind = "register"
  <2> DEFINE rec == [StakeEndBlock |-> t.end, StakedAmount |-> t.amount,
                     RewardAddress |-> t.rewardAddress, OwnerAddress |-> a]
  <2>1. RegisterTx(a, n, t.start, t.end, t.amount, t.feeRate, t.rewardAddress)
    BY <1>4 DEF Apply
  <2>2. RegisterChecks(v, a, n, t.start, t.end, t.amount, t.feeRate)
    BY <1>2, <1>4 DEF RegisterChecks, Permitted
  <2>3. /\ ExecuteRegister(a, n, t.start, t.end, t.amount, t.feeRate, t.rewardAddress)
        /\ height' = height
    BY <2>1, <2>2 DEF RegisterTx, BeginTx, v
  <2>4. em' = RegisterValidatorStake(em, n, t.start, t.end, t.amount, t.feeRate)
    BY <2>3 DEF ExecuteRegister
  <2>5. \/ CanSubBalance(v.balance, a, t.amount)
           /\ view' = [v EXCEPT !.balance = SubBalance(@, a, t.amount),
                                !.registered = Put(@, n, rec)]
        \/ ~ CanSubBalance(v.balance, a, t.amount) /\ view' = v
    BY <2>3 DEF ExecuteRegister, v
  <2>6. ok <=> CanSubBalance(f, a, t.amount)
    BY <1>4 DEF Succeeds, Spending, PayingOut, f
  <2>7. /\ BalanceAfter(view.balance, t, s, x) = IF ok THEN SubBalance(f, a, t.amount) ELSE f
        /\ RegisteredAfter(view.registered, t, ok)
             = IF ok THEN Put(view.registered, n, rec) ELSE view.registered
        /\ DelegatedAfter(view.delegated, t, ok) = view.delegated
    BY <1>4 DEF BalanceAfter, Moved, RegisteredAfter, DelegatedAfter, Spending, PayingOut, f
  <2> HIDE DEF ok, rec, s
  <2>8. view' = [balance |-> BalanceAfter(view.balance, t, s, x),
                 registered |-> RegisteredAfter(view.registered, t, ok),
                 delegated |-> DelegatedAfter(view.delegated, t, ok)]
    BY <1>1, <1>2, <2>5, <2>6, <2>7
  <2> QED BY <1>4, <2>3, <2>4, <2>8 DEF Executed, Tells, After, ok, s, x
<1>5. CASE t.kind = "delegate"
  <2> DEFINE rec == [StakeStartBlock |-> t.start, StakeEndBlock |-> t.end,
                     StakedAmount |-> t.amount, RewardAddress |-> t.rewardAddress]
             k   == <<n, a>>
  <2>1. DelegateTx(a, n, t.start, t.end, t.amount, t.rewardAddress)
    BY <1>5 DEF Apply
  <2>2. DelegateChecks(v, a, n, t.start, t.end, t.amount)
    BY <1>2, <1>5 DEF DelegateChecks, DelegateUserStakeOk, Permitted, Known
  <2>3. /\ ExecuteDelegate(a, n, t.start, t.end, t.amount, t.rewardAddress)
        /\ height' = height
    BY <2>1, <2>2 DEF DelegateTx, BeginTx, v
  <2>4. em' = DelegateUserStake(em, n, a, t.start, t.end, t.amount)
    BY <2>3 DEF ExecuteDelegate
  <2>5. \/ CanSubBalance(v.balance, a, t.amount)
           /\ view' = [v EXCEPT !.balance = SubBalance(@, a, t.amount),
                                !.delegated = Put(@, k, rec)]
        \/ ~ CanSubBalance(v.balance, a, t.amount) /\ view' = v
    BY <2>3 DEF ExecuteDelegate, v
  <2>6. ok <=> CanSubBalance(f, a, t.amount)
    BY <1>5 DEF Succeeds, Spending, PayingOut, f
  <2>7. /\ BalanceAfter(view.balance, t, s, x) = IF ok THEN SubBalance(f, a, t.amount) ELSE f
        /\ RegisteredAfter(view.registered, t, ok) = view.registered
        /\ DelegatedAfter(view.delegated, t, ok)
             = IF ok THEN Put(view.delegated, k, rec) ELSE view.delegated
    BY <1>5 DEF BalanceAfter, Moved, RegisteredAfter, DelegatedAfter, Spending, PayingOut, f
  <2> HIDE DEF ok, rec, s, k
  <2>8. view' = [balance |-> BalanceAfter(view.balance, t, s, x),
                 registered |-> RegisteredAfter(view.registered, t, ok),
                 delegated |-> DelegatedAfter(view.delegated, t, ok)]
    BY <1>1, <1>2, <2>5, <2>6, <2>7
  <2> QED BY <1>5, <2>3, <2>4, <2>8 DEF Executed, Tells, After, ok, s, x
<1>6. CASE t.kind = "withdraw"
  <2> DEFINE r == t.rewardAddress
  <2>1. WithdrawTx(a, n, r)
    BY <1>6 DEF Apply
  <2>2. WithdrawChecks(v, a, n)
    BY <1>2, <1>6 DEF WithdrawChecks, Permitted, Known
  <2>3. ExecuteWithdraw(a, n, r) /\ height' = height
    BY <2>1, <2>2 DEF WithdrawTx, BeginTx, v
  <2>4. em' = WithdrawValidatorStake(em, n)
    BY <2>3 DEF ExecuteWithdraw
  <2>5. s = v.registered[n].StakedAmount
    BY <1>2, <1>6 DEF Stake
  <2> HIDE DEF s
  <2>6. view' = IF CanPayOut(v.balance, r, x, a, s)
                  THEN [v EXCEPT !.balance = PayOut(@, r, x, a, s),
                                 !.registered = Delete(@, n)]
                  ELSE v
    BY <1>3, <1>6, <2>3, <2>5 DEF ExecuteWithdraw, v
  <2>7. ok <=> CanPayOut(f, r, x, a, s)
    BY <1>6 DEF Succeeds, Spending, PayingOut, f
  <2>8. /\ BalanceAfter(view.balance, t, s, x) = IF ok THEN PayOut(f, r, x, a, s) ELSE f
        /\ RegisteredAfter(view.registered, t, ok)
             = IF ok THEN Delete(view.registered, n) ELSE view.registered
        /\ DelegatedAfter(view.delegated, t, ok) = view.delegated
    BY <1>6 DEF BalanceAfter, Moved, RegisteredAfter, DelegatedAfter, Spending, PayingOut, f
  <2> HIDE DEF ok
  <2>9. view' = [balance |-> BalanceAfter(view.balance, t, s, x),
                 registered |-> RegisteredAfter(view.registered, t, ok),
                 delegated |-> DelegatedAfter(view.delegated, t, ok)]
    BY <1>1, <1>2, <2>6, <2>7, <2>8
  <2> QED BY <1>6, <2>3, <2>4, <2>9 DEF Executed, Tells, After, ok, s, x
<1>7. CASE t.kind = "undelegate"
  <2> DEFINE r == t.rewardAddress
             k == <<n, a>>
  <2>1. UndelegateTx(a, n, r)
    BY <1>7 DEF Apply
  <2>2. UndelegateChecks(v, a, n)
    BY <1>2, <1>7 DEF UndelegateChecks, Permitted, Known
  <2>3. ExecuteUndelegate(a, n, r) /\ height' = height
    BY <2>1, <2>2 DEF UndelegateTx, BeginTx, v
  <2>4. em' = UndelegateUserStake(em, n, a)
    BY <2>3 DEF ExecuteUndelegate
  <2>5. s = v.delegated[k].StakedAmount
    BY <1>2, <1>7 DEF Stake
  <2> HIDE DEF s
  <2>6. view' = IF CanPayOut(v.balance, r, x, a, s)
                  THEN [v EXCEPT !.balance = PayOut(@, r, x, a, s),
                                 !.delegated = Delete(@, k)]
                  ELSE v
    BY <1>3, <1>7, <2>3, <2>5 DEF ExecuteUndelegate, v
  <2>7. ok <=> CanPayOut(f, r, x, a, s)
    BY <1>7 DEF Succeeds, Spending, PayingOut, f
  <2>8. /\ BalanceAfter(view.balance, t, s, x) = IF ok THEN PayOut(f, r, x, a, s) ELSE f
        /\ RegisteredAfter(view.registered, t, ok) = view.registered
        /\ DelegatedAfter(view.delegated, t, ok)
             = IF ok THEN Delete(view.delegated, k) ELSE view.delegated
    BY <1>7 DEF BalanceAfter, Moved, RegisteredAfter, DelegatedAfter, Spending, PayingOut, f
  <2> HIDE DEF ok, k
  <2>9. view' = [balance |-> BalanceAfter(view.balance, t, s, x),
                 registered |-> RegisteredAfter(view.registered, t, ok),
                 delegated |-> DelegatedAfter(view.delegated, t, ok)]
    BY <1>1, <1>2, <2>6, <2>7, <2>8
  <2> QED BY <1>7, <2>3, <2>4, <2>9 DEF Executed, Tells, After, ok, s, x
<1>8. CASE t.kind \in {"claimValidator", "claimDelegation"}
  <2>1. /\ t.kind = "claimValidator" => ClaimValidatorTx(a, n)
        /\ t.kind = "claimDelegation" => ClaimDelegationTx(a, n, a)
    BY <1>8 DEF Apply, Permitted
  <2>2. /\ t.kind = "claimValidator" => ClaimValidatorChecks(v, a, n)
        /\ t.kind = "claimDelegation" => ClaimDelegationChecks(v, a, n, a)
    BY <1>2, <1>8 DEF ClaimValidatorChecks, ClaimDelegationChecks, Permitted, Known
  <2>3. /\ t.kind = "claimValidator" => ExecuteClaimValidator(a, n)
        /\ t.kind = "claimDelegation" => ExecuteClaimDelegation(a, n, a)
        /\ height' = height
    BY <1>8, <2>1, <2>2 DEF ClaimValidatorTx, ClaimDelegationTx, BeginTx, v
  <2>4. Tells(em, em', t)
    BY <1>8, <2>3 DEF ExecuteClaimValidator, ExecuteClaimDelegation, Tells
  <2>5. view' = PayReward(v, a, x)
    BY <1>3, <1>8, <2>3 DEF ExecuteClaimValidator, ExecuteClaimDelegation, v
  <2>6. ok <=> CanAddBalance(f, a, x)
    BY <1>8 DEF Succeeds, Spending, PayingOut, f
  <2>7. /\ BalanceAfter(view.balance, t, s, x) = IF ok THEN AddBalance(f, a, x) ELSE f
        /\ RegisteredAfter(view.registered, t, ok) = view.registered
        /\ DelegatedAfter(view.delegated, t, ok) = view.delegated
    BY <1>8 DEF BalanceAfter, Moved, RegisteredAfter, DelegatedAfter, Spending, PayingOut, f
  <2> HIDE DEF ok, s
  <2>8. view' = [balance |-> BalanceAfter(view.balance, t, s, x),
                 registered |-> RegisteredAfter(view.registered, t, ok),
                 delegated |-> DelegatedAfter(view.delegated, t, ok)]
    BY <1>1, <1>2, <2>5, <2>6, <2>7 DEF PayReward
  <2> QED BY <1>8, <2>3, <2>4, <2>8 DEF Executed, After, ok, s, x
<1> QED BY <1>4, <1>5, <1>6, <1>7, <1>8, TxFields

\* A node is told nothing by an operator but its arguments: those of the second
\* node are those of the first.
LEMMA SecondBalances ==
  /\ \A b, a, x : /\ Second!CanAddBalance(b, a, x) <=> CanAddBalance(b, a, x)
                  /\ Second!AddBalance(b, a, x) = AddBalance(b, a, x)
                  /\ Second!CanSubBalance(b, a, x) <=> CanSubBalance(b, a, x)
                  /\ Second!SubBalance(b, a, x) = SubBalance(b, a, x)
  /\ \A b, r, x, a, y :
       /\ Second!CanPayOut(b, r, x, a, y) <=> CanPayOut(b, r, x, a, y)
       /\ Second!PayOut(b, r, x, a, y) = PayOut(b, r, x, a, y)
<1>1. \A b, a, x : /\ Second!CanAddBalance(b, a, x) <=> CanAddBalance(b, a, x)
                   /\ Second!AddBalance(b, a, x) = AddBalance(b, a, x)
                   /\ Second!CanSubBalance(b, a, x) <=> CanSubBalance(b, a, x)
                   /\ Second!SubBalance(b, a, x) = SubBalance(b, a, x)
  BY DEF Second!CanAddBalance, CanAddBalance, Second!AddBalance, AddBalance,
         Second!CanSubBalance, CanSubBalance, Second!SubBalance, SubBalance
<1> QED BY <1>1 DEF Second!CanPayOut, CanPayOut, Second!PayOut, PayOut

LEMMA SecondMaps ==
  /\ \A m, k, v : Second!Put(m, k, v) = Put(m, k, v)
  /\ \A m, k : Second!Delete(m, k) = Delete(m, k)
  /\ \A x : Second!Wrap(x) = Wrap(x) /\ Second!FloatToUint64(x) = FloatToUint64(x)
  BY DEF Second!Put, Put, Second!Delete, Delete, Second!Wrap, Wrap,
         Second!FloatToUint64, FloatToUint64, Second!Uint64, Uint64

LEMMA SecondLookups ==
  /\ \A e, n : /\ Second!HasValidator(e, n) <=> HasValidator(e, n)
               /\ Second!ValidatorOf(e, n) = ValidatorOf(e, n)
               /\ Second!WithdrawReward(e, n) = WithdrawReward(e, n)
  /\ \A e, n, a : Second!HasDelegator(e, n, a) <=> HasDelegator(e, n, a)
  /\ \A e, n, v : Second!WithValidator(e, n, v) = WithValidator(e, n, v)
  BY DEF Second!HasValidator, HasValidator, Second!ValidatorOf, ValidatorOf,
         Second!WithdrawReward, WithdrawReward, Second!HasDelegator, HasDelegator,
         Second!WithValidator, WithValidator

LEMMA SecondCalculate ==
  ASSUME NEW e, NEW n, NEW a
  PROVE  Second!CalculateUserDelegationRewards(e, n, a) = CalculateUserDelegationRewards(e, n, a)
  BY DEF Second!CalculateUserDelegationRewards, CalculateUserDelegationRewards,
         Second!ValidatorOf, ValidatorOf, Second!Wrap, Wrap, Second!FloatToUint64,
         FloatToUint64, Second!Uint64, Uint64, Second!MapThenSumSet, MapThenSumSet,
         Second!MapThenFoldSet, MapThenFoldSet

LEMMA SecondUndelegateReward ==
  ASSUME NEW e, NEW n, NEW a
  PROVE  Second!UndelegateReward(e, n, a) = UndelegateReward(e, n, a)
  BY SecondCalculate, SecondLookups DEF Second!UndelegateReward, UndelegateReward

\* The calls of the balancer.
LEMMA SecondRegister ==
  ASSUME NEW e, NEW n, NEW s, NEW t, NEW x, NEW r
  PROVE  Second!RegisterValidatorStake(e, n, s, t, x, r) = RegisterValidatorStake(e, n, s, t, x, r)
  BY DEF Second!RegisterValidatorStake, RegisterValidatorStake, Second!Put, Put,
         Second!NewValidator, NewValidator, Second!EmptyMap, EmptyMap,
         Second!HasValidator, HasValidator

LEMMA SecondDelegate ==
  ASSUME NEW e, NEW n, NEW a, NEW s, NEW t, NEW x
  PROVE  Second!DelegateUserStake(e, n, a, s, t, x) = DelegateUserStake(e, n, a, s, t, x)
  BY DEF Second!DelegateUserStake, DelegateUserStake, Second!Put, Put,
         Second!NewDelegator, NewDelegator, Second!ValidatorOf, ValidatorOf,
         Second!WithValidator, WithValidator

LEMMA SecondWithdraw ==
  ASSUME NEW e, NEW n
  PROVE  /\ Second!WithdrawValidatorStake(e, n) = WithdrawValidatorStake(e, n)
         /\ Second!ClaimValidatorRewards(e, n) = ClaimValidatorRewards(e, n)
  BY DEF Second!WithdrawValidatorStake, WithdrawValidatorStake, Second!ClaimValidatorRewards,
         ClaimValidatorRewards, Second!ValidatorOf, ValidatorOf, Second!WithValidator,
         WithValidator

LEMMA SecondUndelegate ==
  ASSUME NEW e, NEW n, NEW a
  PROVE  Second!UndelegateUserStake(e, n, a) = UndelegateUserStake(e, n, a)
<1>1. Second!UndelegateReward(e, n, a) = UndelegateReward(e, n, a)
  BY SecondUndelegateReward
<1> QED BY <1>1 DEF Second!UndelegateUserStake, UndelegateUserStake, Second!Delete, Delete,
             Second!ValidatorOf, ValidatorOf, Second!WithValidator, WithValidator,
             Second!Wrap, Wrap

LEMMA SecondClaimDelegator ==
  ASSUME NEW e, NEW n, NEW a
  PROVE  Second!ClaimDelegatorRewards(e, n, a) = ClaimDelegatorRewards(e, n, a)
<1>1. Second!CalculateUserDelegationRewards(e, n, a) = CalculateUserDelegationRewards(e, n, a)
  BY SecondCalculate
<1> QED BY <1>1 DEF Second!ClaimDelegatorRewards, ClaimDelegatorRewards,
             Second!ValidatorOf, ValidatorOf, Second!WithValidator, WithValidator,
             Second!Wrap, Wrap

LEMMA SecondFeeView ==
  ASSUME IsView(view2), NEW t
  PROVE  Second!FeePaid(t.actor) = [balance |-> AfterFee(view2.balance, t),
                                    registered |-> view2.registered,
                                    delegated |-> view2.delegated]
  BY SecondBalances DEF Second!FeePaid, AfterFee, IsView

\* The same on the second node.
LEMMA SecondExecutes ==
  ASSUME IsView(view2), NEW t \in Txs, Second!Apply(t), Permitted(view2, t, height), Known(em2, t)
  PROVE  Executed(em2, view2, t, em2', view2') /\ height' = height
<1> DEFINE a == t.actor
           n == t.nodeID
           f == AfterFee(view2.balance, t)
           v == Second!FeePaid(a)
           x == Reward(BookOf(em2, n).validator, t)
           s == Stake(view2, t)
           ok == Succeeds(view2.balance, t, s, x)
<1>1. v = [balance |-> f, registered |-> view2.registered, delegated |-> view2.delegated]
  BY SecondFeeView
<1>2. /\ v.balance = f /\ v.registered = view2.registered /\ v.delegated = view2.delegated
  BY <1>1
<1>3. /\ t.kind \in {"withdraw", "claimValidator"} => x = WithdrawReward(em2, n)
      /\ t.kind = "undelegate" => x = UndelegateReward(em2, n, a)
      /\ t.kind = "claimDelegation" => x = CalculateUserDelegationRewards(em2, n, a)
  BY RewardOfBook
<1> HIDE DEF v, f, x
<1>4. CASE t.kind = "register"
  <2> DEFINE rec == [StakeEndBlock |-> t.end, StakedAmount |-> t.amount,
                     RewardAddress |-> t.rewardAddress, OwnerAddress |-> a]
  <2>1. Second!RegisterTx(a, n, t.start, t.end, t.amount, t.feeRate, t.rewardAddress)
    BY <1>4 DEF Second!Apply
  <2>2. Second!RegisterChecks(v, a, n, t.start, t.end, t.amount, t.feeRate)
    BY <1>2, <1>4 DEF Second!RegisterChecks, Permitted,
                      Second!UnmarshalValidatorStakeInfoOk, UnmarshalValidatorStakeInfoOk
  <2>3. /\ Second!ExecuteRegister(a, n, t.start, t.end, t.amount, t.feeRate, t.rewardAddress)
        /\ height' = height
    BY <2>1, <2>2 DEF Second!RegisterTx, Second!BeginTx, v
  <2>4. em2' = RegisterValidatorStake(em2, n, t.start, t.end, t.amount, t.feeRate)
    BY <2>3, SecondRegister DEF Second!ExecuteRegister
  <2>5. \/ CanSubBalance(v.balance, a, t.amount)
           /\ view2' = [v EXCEPT !.balance = SubBalance(@, a, t.amount),
                                !.registered = Put(@, n, rec)]
        \/ ~ CanSubBalance(v.balance, a, t.amount) /\ view2' = v
    BY <2>3, SecondBalances, SecondMaps DEF Second!ExecuteRegister, v
  <2>6. ok <=> CanSubBalance(f, a, t.amount)
    BY <1>4 DEF Succeeds, Spending, PayingOut, f
  <2>7. /\ BalanceAfter(view2.balance, t, s, x) = IF ok THEN SubBalance(f, a, t.amount) ELSE f
        /\ RegisteredAfter(view2.registered, t, ok)
             = IF ok THEN Put(view2.registered, n, rec) ELSE view2.registered
        /\ DelegatedAfter(view2.delegated, t, ok) = view2.delegated
    BY <1>4 DEF BalanceAfter, Moved, RegisteredAfter, DelegatedAfter, Spending, PayingOut, f
  <2> HIDE DEF ok, rec, s
  <2>8. view2' = [balance |-> BalanceAfter(view2.balance, t, s, x),
                 registered |-> RegisteredAfter(view2.registered, t, ok),
                 delegated |-> DelegatedAfter(view2.delegated, t, ok)]
    BY <1>1, <1>2, <2>5, <2>6, <2>7
  <2> QED BY <1>4, <2>3, <2>4, <2>8 DEF Executed, Tells, After, ok, s, x
<1>5. CASE t.kind = "delegate"
  <2> DEFINE rec == [StakeStartBlock |-> t.start, StakeEndBlock |-> t.end,
                     StakedAmount |-> t.amount, RewardAddress |-> t.rewardAddress]
             k   == <<n, a>>
  <2>1. Second!DelegateTx(a, n, t.start, t.end, t.amount, t.rewardAddress)
    BY <1>5 DEF Second!Apply
  <2>2. Second!DelegateChecks(v, a, n, t.start, t.end, t.amount)
    BY <1>2, <1>5, SecondLookups DEF Second!DelegateChecks, Second!DelegateUserStakeOk,
                                     Permitted, Known
  <2>3. /\ Second!ExecuteDelegate(a, n, t.start, t.end, t.amount, t.rewardAddress)
        /\ height' = height
    BY <2>1, <2>2 DEF Second!DelegateTx, Second!BeginTx, v
  <2>4. em2' = DelegateUserStake(em2, n, a, t.start, t.end, t.amount)
    BY <2>3, SecondDelegate DEF Second!ExecuteDelegate
  <2>5. \/ CanSubBalance(v.balance, a, t.amount)
           /\ view2' = [v EXCEPT !.balance = SubBalance(@, a, t.amount),
                                !.delegated = Put(@, k, rec)]
        \/ ~ CanSubBalance(v.balance, a, t.amount) /\ view2' = v
    BY <2>3, SecondBalances, SecondMaps DEF Second!ExecuteDelegate, v
  <2>6. ok <=> CanSubBalance(f, a, t.amount)
    BY <1>5 DEF Succeeds, Spending, PayingOut, f
  <2>7. /\ BalanceAfter(view2.balance, t, s, x) = IF ok THEN SubBalance(f, a, t.amount) ELSE f
        /\ RegisteredAfter(view2.registered, t, ok) = view2.registered
        /\ DelegatedAfter(view2.delegated, t, ok)
             = IF ok THEN Put(view2.delegated, k, rec) ELSE view2.delegated
    BY <1>5 DEF BalanceAfter, Moved, RegisteredAfter, DelegatedAfter, Spending, PayingOut, f
  <2> HIDE DEF ok, rec, s, k
  <2>8. view2' = [balance |-> BalanceAfter(view2.balance, t, s, x),
                 registered |-> RegisteredAfter(view2.registered, t, ok),
                 delegated |-> DelegatedAfter(view2.delegated, t, ok)]
    BY <1>1, <1>2, <2>5, <2>6, <2>7
  <2> QED BY <1>5, <2>3, <2>4, <2>8 DEF Executed, Tells, After, ok, s, x
<1>6. CASE t.kind = "withdraw"
  <2> DEFINE r == t.rewardAddress
  <2>1. Second!WithdrawTx(a, n, r)
    BY <1>6 DEF Second!Apply
  <2>2. Second!WithdrawChecks(v, a, n)
    BY <1>2, <1>6, SecondLookups DEF Second!WithdrawChecks, Permitted, Known
  <2>3. Second!ExecuteWithdraw(a, n, r) /\ height' = height
    BY <2>1, <2>2 DEF Second!WithdrawTx, Second!BeginTx, v
  <2>4. em2' = WithdrawValidatorStake(em2, n)
    BY <2>3, SecondWithdraw DEF Second!ExecuteWithdraw
  <2>5. s = v.registered[n].StakedAmount
    BY <1>2, <1>6 DEF Stake
  <2> HIDE DEF s
  <2>6. view2' = IF CanPayOut(v.balance, r, x, a, s)
                  THEN [v EXCEPT !.balance = PayOut(@, r, x, a, s),
                                 !.registered = Delete(@, n)]
                  ELSE v
    BY <1>3, <1>6, <2>3, <2>5, SecondBalances, SecondMaps, SecondLookups
       DEF Second!ExecuteWithdraw, v
  <2>7. ok <=> CanPayOut(f, r, x, a, s)
    BY <1>6 DEF Succeeds, Spending, PayingOut, f
  <2>8. /\ BalanceAfter(view2.balance, t, s, x) = IF ok THEN PayOut(f, r, x, a, s) ELSE f
        /\ RegisteredAfter(view2.registered, t, ok)
             = IF ok THEN Delete(view2.registered, n) ELSE view2.registered
        /\ DelegatedAfter(view2.delegated, t, ok) = view2.delegated
    BY <1>6 DEF BalanceAfter, Moved, RegisteredAfter, DelegatedAfter, Spending, PayingOut, f
  <2> HIDE DEF ok
  <2>9. view2' = [balance |-> BalanceAfter(view2.balance, t, s, x),
                 registered |-> RegisteredAfter(view2.registered, t, ok),
                 delegated |-> DelegatedAfter(view2.delegated, t, ok)]
    BY <1>1, <1>2, <2>6, <2>7, <2>8
  <2> QED BY <1>6, <2>3, <2>4, <2>9 DEF Executed, Tells, After, ok, s, x
<1>7. CASE t.kind = "undelegate"
  <2> DEFINE r == t.rewardAddress
             k == <<n, a>>
  <2>1. Second!UndelegateTx(a, n, r)
    BY <1>7 DEF Second!Apply
  <2>2. Second!UndelegateChecks(v, a, n)
    BY <1>2, <1>7, SecondLookups DEF Second!UndelegateChecks, Permitted, Known
  <2>3. Second!ExecuteUndelegate(a, n, r) /\ height' = height
    BY <2>1, <2>2 DEF Second!UndelegateTx, Second!BeginTx, v
  <2>4. em2' = UndelegateUserStake(em2, n, a)
    BY <2>3, SecondUndelegate DEF Second!ExecuteUndelegate
  <2>5. s = v.delegated[k].StakedAmount
    BY <1>2, <1>7 DEF Stake
  <2> HIDE DEF s
  <2>6. view2' = IF CanPayOut(v.balance, r, x, a, s)
                  THEN [v EXCEPT !.balance = PayOut(@, r, x, a, s),
                                 !.delegated = Delete(@, k)]
                  ELSE v
    BY <1>3, <1>7, <2>3, <2>5, SecondBalances, SecondMaps, SecondUndelegateReward
       DEF Second!ExecuteUndelegate, v
  <2>7. ok <=> CanPayOut(f, r, x, a, s)
    BY <1>7 DEF Succeeds, Spending, PayingOut, f
  <2>8. /\ BalanceAfter(view2.balance, t, s, x) = IF ok THEN PayOut(f, r, x, a, s) ELSE f
        /\ RegisteredAfter(view2.registered, t, ok) = view2.registered
        /\ DelegatedAfter(view2.delegated, t, ok)
             = IF ok THEN Delete(view2.delegated, k) ELSE view2.delegated
    BY <1>7 DEF BalanceAfter, Moved, RegisteredAfter, DelegatedAfter, Spending, PayingOut, f
  <2> HIDE DEF ok, k
  <2>9. view2' = [balance |-> BalanceAfter(view2.balance, t, s, x),
                 registered |-> RegisteredAfter(view2.registered, t, ok),
                 delegated |-> DelegatedAfter(view2.delegated, t, ok)]
    BY <1>1, <1>2, <2>6, <2>7, <2>8
  <2> QED BY <1>7, <2>3, <2>4, <2>9 DEF Executed, Tells, After, ok, s, x
<1>8. CASE t.kind \in {"claimValidator", "claimDelegation"}
  <2>1. /\ t.kind = "claimValidator" => Second!ClaimValidatorTx(a, n)
        /\ t.kind = "claimDelegation" => Second!ClaimDelegationTx(a, n, a)
    BY <1>8 DEF Second!Apply, Permitted
  <2>2. /\ t.kind = "claimValidator" => Second!ClaimValidatorChecks(v, a, n)
        /\ t.kind = "claimDelegation" => Second!ClaimDelegationChecks(v, a, n, a)
    BY <1>2, <1>8, SecondLookups DEF Second!ClaimValidatorChecks,
                                     Second!ClaimDelegationChecks, Permitted, Known
  <2>3. /\ t.kind = "claimValidator" => Second!ExecuteClaimValidator(a, n)
        /\ t.kind = "claimDelegation" => Second!ExecuteClaimDelegation(a, n, a)
        /\ height' = height
    BY <1>8, <2>1, <2>2 DEF Second!ClaimValidatorTx, Second!ClaimDelegationTx, Second!BeginTx, v
  <2>4. Tells(em2, em2', t)
    BY <1>8, <2>3, SecondWithdraw, SecondClaimDelegator
       DEF Second!ExecuteClaimValidator, Second!ExecuteClaimDelegation, Tells
  <2>5. view2' = Second!PayReward(v, a, x)
    BY <1>3, <1>8, <2>3, SecondLookups, SecondCalculate
       DEF Second!ExecuteClaimValidator, Second!ExecuteClaimDelegation, v
  <2>6. ok <=> CanAddBalance(f, a, x)
    BY <1>8 DEF Succeeds, Spending, PayingOut, f
  <2>7. /\ BalanceAfter(view2.balance, t, s, x) = IF ok THEN AddBalance(f, a, x) ELSE f
        /\ RegisteredAfter(view2.registered, t, ok) = view2.registered
        /\ DelegatedAfter(view2.delegated, t, ok) = view2.delegated
    BY <1>8 DEF BalanceAfter, Moved, RegisteredAfter, DelegatedAfter, Spending, PayingOut, f
  <2> HIDE DEF ok, s
  <2>8. view2' = [balance |-> BalanceAfter(view2.balance, t, s, x),
                 registered |-> RegisteredAfter(view2.registered, t, ok),
                 delegated |-> DelegatedAfter(view2.delegated, t, ok)]
    BY <1>1, <1>2, <2>5, <2>6, <2>7, SecondBalances DEF Second!PayReward
  <2> QED BY <1>8, <2>3, <2>4, <2>8 DEF Executed, After, ok, s, x
<1> QED BY <1>4, <1>5, <1>6, <1>7, <1>8, TxFields

-----------------------------------------------------------------------------
(* Controller.Accepted and the pointers of events.                         *)

NoNewPointers(e, g) ==
  /\ DOMAIN g.heap = DOMAIN e.heap
  /\ g.activationEvents \subseteq e.activationEvents
  /\ g.deactivationEvents \subseteq e.deactivationEvents

\* Each of the four stages only takes events out.
LEMMA StageEvents ==
  ASSUME NEW e, IsEmission(e), NEW h
  PROVE  \A g \in {ActivateValidators(e, h), DeactivateValidators(e, h),
                   ActivateDelegators(e, h), DeactivateDelegators(e, h)} :
           NoNewPointers(e, g)
<1>1. NoNewPointers(e, ActivateValidators(e, h))
  <2> DEFINE g == ActivateValidators(e, h)
             E == {ev \in e.activationEvents : ev[1] # h}
  <2>1. /\ g = [e EXCEPT !.heap = g.heap, !.TotalStaked = g.TotalStaked, !.activationEvents = E]
        /\ DOMAIN g.heap = DOMAIN e.heap
    BY DEF ActivateValidators, IsEmission, EmissionFields
  <2>2. E \subseteq e.activationEvents
    OBVIOUS
  <2> HIDE DEF g, E
  <2>3. NoNewPointers(e, g)
    BY <2>1, <2>2 DEF NoNewPointers, IsEmission, EmissionFields
  <2> QED BY <2>3 DEF g
<1>2. NoNewPointers(e, DeactivateValidators(e, h))
  <2> DEFINE g == DeactivateValidators(e, h)
             E == {ev \in e.deactivationEvents : ev[1] # h}
  <2>1. /\ g = [e EXCEPT !.heap = g.heap, !.TotalStaked = g.TotalStaked, !.deactivationEvents = E]
        /\ DOMAIN g.heap = DOMAIN e.heap
    BY DEF DeactivateValidators, IsEmission, EmissionFields
  <2>2. E \subseteq e.deactivationEvents
    OBVIOUS
  <2> HIDE DEF g, E
  <2>3. NoNewPointers(e, g)
    BY <2>1, <2>2 DEF NoNewPointers, IsEmission, EmissionFields
  <2> QED BY <2>3 DEF g
<1>3. NoNewPointers(e, ActivateDelegators(e, h))
  <2> DEFINE g == ActivateDelegators(e, h)
             E == {ev \in e.delegatorActivationEvents : ev[1] # h}
  <2>1. /\ g = [e EXCEPT !.heap = g.heap, !.TotalStaked = g.TotalStaked, !.delegatorActivationEvents = E]
        /\ DOMAIN g.heap = DOMAIN e.heap
    BY DEF ActivateDelegators, IsEmission, EmissionFields
  <2>2. E \subseteq e.delegatorActivationEvents
    OBVIOUS
  <2> HIDE DEF g, E
  <2>3. NoNewPointers(e, g)
    BY <2>1, <2>2 DEF NoNewPointers, IsEmission, EmissionFields
  <2> QED BY <2>3 DEF g
<1>4. NoNewPointers(e, DeactivateDelegators(e, h))
  <2> DEFINE g == DeactivateDelegators(e, h)
             E == {ev \in e.delegatorDeactivationEvents : ev[1] # h}
  <2>1. /\ g = [e EXCEPT !.heap = g.heap, !.TotalStaked = g.TotalStaked, !.delegatorDeactivationEvents = E]
        /\ DOMAIN g.heap = DOMAIN e.heap
    BY DEF DeactivateDelegators, IsEmission, EmissionFields
  <2>2. E \subseteq e.delegatorDeactivationEvents
    OBVIOUS
  <2> HIDE DEF g, E
  <2>3. NoNewPointers(e, g)
    BY <2>1, <2>2 DEF NoNewPointers, IsEmission, EmissionFields
  <2> QED BY <2>3 DEF g
<1> QED BY <1>1, <1>2, <1>3, <1>4

LEMMA NoNewPointersTransitive ==
  ASSUME NEW e, NEW f, NEW g, NoNewPointers(e, f), NoNewPointers(f, g)
  PROVE  NoNewPointers(e, g)
  BY DEF NoNewPointers

\* Nor does the whole of processEvents put one in.
LEMMA ProcessEventsPointers ==
  ASSUME NEW e, IsEmission(e), NEW h
  PROVE  NoNewPointers(e, processEvents(e, h))
<1> DEFINE e1 == ActivateValidators(e, h)
           e2 == DeactivateValidators(e1, h)
           e3 == ActivateDelegators(e2, h)
           e4 == DeactivateDelegators(e3, h)
<1>1. IsEmission(e1) /\ NoNewPointers(e, e1)
  BY ActivateValidatorsType, StageEvents
<1> HIDE DEF e1
<1>2. IsEmission(e2) /\ NoNewPointers(e1, e2)
  BY <1>1, DeactivateValidatorsType, StageEvents
<1> HIDE DEF e2
<1>3. IsEmission(e3) /\ NoNewPointers(e2, e3)
  BY <1>2, ActivateDelegatorsType, StageEvents
<1> HIDE DEF e3
<1>4. NoNewPointers(e3, e4)
  BY <1>3, StageEvents
<1> HIDE DEF e4
<1>5. processEvents(e, h) = e4
  BY DEF processEvents, e1, e2, e3, e4
<1> QED BY <1>1, <1>2, <1>3, <1>4, <1>5, NoNewPointersTransitive

\* Paying validators rewrites objects.
LEMMA DistributePointers ==
  ASSUME NEW e, IsEmission(e), NEW x, NEW b, NEW h, NEW o
  PROVE  NoNewPointers(e, distributeValidatorRewardsOrFees(e, x, b, h, o))
<1> DEFINE g == distributeValidatorRewardsOrFees(e, x, b, h, o)
<1>1. g = [e EXCEPT !.heap = g.heap] /\ DOMAIN g.heap = DOMAIN e.heap
  BY DEF distributeValidatorRewardsOrFees, IsEmission, EmissionFields
<1> HIDE DEF g
<1>2. NoNewPointers(e, g)
  BY <1>1 DEF NoNewPointers, IsEmission, EmissionFields
<1> QED BY <1>2 DEF g

\* Controller.Accepted makes no new events and no new objects.
LEMMA AcceptedPointers ==
  ASSUME Typed, Accepted
  PROVE  NoNewPointers(em, em')
<1>1. IsEmission(em)
  BY DEF Typed, TypeOK
<1> DEFINE p == processEvents(em, height)
<1>2. IsEmission(p) /\ NoNewPointers(em, p)
  BY <1>1, ProcessEventsType, ProcessEventsPointers
<1>3. CASE AcceptedFees
  <2>1. NoNewPointers(em, em)
    BY DEF NoNewPointers
  <2>2. ASSUME NEW fee, NEW o
        PROVE  NoNewPointers(em, DistributeFees(em, fee, height, o))
    <3> DEFINE part == IF Wrap(p.TotalSupply + fee) > MaxSupply
                         THEN Wrap(MaxSupply - p.TotalSupply) ELSE fee
               half == Wrap(p.AccumulatedReward + part \div 2)
               q    == [p EXCEPT !.AccumulatedReward = half]
               rest == part - part \div 2
    <3>1. half \in Uint64
      BY WrapType
    <3>2. DistributeFees(em, fee, height, o) =
            IF q.TotalStaked = 0 \/ rest = 0 THEN q
            ELSE distributeValidatorRewardsOrFees(q, rest, FALSE, height, o)
      BY DEF DistributeFees
    <3> HIDE DEF p, half, rest
    <3>3. IsEmission(q) /\ NoNewPointers(p, q)
      BY <1>2, <3>1 DEF IsEmission, EmissionFields, NoNewPointers
    <3> HIDE DEF q
    <3>4. NoNewPointers(em, q)
      BY <1>2, <3>3, NoNewPointersTransitive
    <3>5. NoNewPointers(q, distributeValidatorRewardsOrFees(q, rest, FALSE, height, o))
      BY <3>3, DistributePointers, Zenon
    <3>6. NoNewPointers(em, distributeValidatorRewardsOrFees(q, rest, FALSE, height, o))
      BY <3>4, <3>5, NoNewPointersTransitive, Zenon
    <3> QED BY <3>2, <3>4, <3>6
  <2> HIDE DEF p
  <2> QED BY <1>3, <2>1, <2>2 DEF AcceptedFees
<1>4. CASE AcceptedMint
  <2>1. PICK o \in MapOrders : em' = MintNewNAI(em, height, o)
    BY <1>4 DEF AcceptedMint
  <2> DEFINE d == distributeValidatorRewardsOrFees(p, GetRewardsPerEpoch(p), TRUE, height, o)
             S == Wrap(d.TotalSupply + MintedNAI(em, height))
             m == [d EXCEPT !.TotalSupply = S]
  <2>2. em' = m \/ em' = p
    BY <2>1 DEF MintNewNAI
  <2>3. NoNewPointers(p, d)
    BY <1>2, DistributePointers
  <2>4. d = [p EXCEPT !.heap = d.heap]
    BY <1>2 DEF distributeValidatorRewardsOrFees, IsEmission, EmissionFields
  <2> HIDE DEF p, d, S
  <2>5. NoNewPointers(d, m)
    BY <1>2, <2>4 DEF NoNewPointers, IsEmission, EmissionFields
  <2> HIDE DEF m
  <2>6. NoNewPointers(em, m)
    BY <1>2, <2>3, <2>5, NoNewPointersTransitive
  <2> QED BY <1>2, <2>2, <2>6
<1>5. CASE AcceptedAdd
  <2> DEFINE S == em'.TotalSupply
  <2>1. em' = [em EXCEPT !.TotalSupply = S]
    BY <1>1, <1>5 DEF AcceptedAdd, AddToTotalSupply, IsEmission, EmissionFields
  <2> HIDE DEF S
  <2> QED BY <1>1, <2>1 DEF NoNewPointers, IsEmission, EmissionFields
<1> QED BY <1>3, <1>4, <1>5 DEF Accepted

\* So the events of a balancer keep to its heap.
LEMMA PointersStayKnown ==
  ASSUME NEW e, PointersKnown(e), NEW g, NoNewPointers(e, g)
  PROVE  PointersKnown(g)
  BY DEF PointersKnown, NoNewPointers

-----------------------------------------------------------------------------
(* The nodes agree.                                                        *)

\* A transaction as an action of Staking.
LEMMA ApplyIsExecuteTx ==
  ASSUME NEW t \in Txs, Apply(t)
  PROVE  ExecuteTx
<1>1. t.actor \in Addresses /\ t.nodeID \in NodeIDs
  BY TxFields
<1>2. CASE t.kind = "register"
  <2>1. /\ t.start \in Heights /\ t.end \in Heights /\ t.amount \in StakeAmounts
        /\ t.feeRate \in FeeRates /\ t.rewardAddress \in RewardAddresses
    BY <1>2, TxFields
  <2>2. RegisterTx(t.actor, t.nodeID, t.start, t.end, t.amount, t.feeRate, t.rewardAddress)
    BY <1>2 DEF Apply
  <2> QED BY <1>1, <2>1, <2>2 DEF ExecuteTx
<1>3. CASE t.kind = "withdraw"
  <2>1. t.rewardAddress \in RewardAddresses /\ WithdrawTx(t.actor, t.nodeID, t.rewardAddress)
    BY <1>3, TxFields DEF Apply
  <2> QED BY <1>1, <2>1 DEF ExecuteTx
<1>4. CASE t.kind = "delegate"
  <2>1. /\ t.start \in Heights \ {0} /\ t.end \in Heights /\ t.amount \in StakeAmounts
        /\ t.rewardAddress \in RewardAddresses
    BY <1>4 DEF Txs, Registers, Delegates, Payouts, Claims
  <2>2. DelegateTx(t.actor, t.nodeID, t.start, t.end, t.amount, t.rewardAddress)
    BY <1>4 DEF Apply
  <2> QED BY <1>1, <2>1, <2>2 DEF ExecuteTx
<1>5. CASE t.kind = "undelegate"
  <2>1. t.rewardAddress \in RewardAddresses /\ UndelegateTx(t.actor, t.nodeID, t.rewardAddress)
    BY <1>5, TxFields DEF Apply
  <2> QED BY <1>1, <2>1 DEF ExecuteTx
<1>6. CASE t.kind = "claimValidator"
  <2>1. ClaimValidatorTx(t.actor, t.nodeID)
    BY <1>6 DEF Apply
  <2> QED BY <1>1, <2>1 DEF ExecuteTx
<1>7. CASE t.kind = "claimDelegation"
  <2>1. /\ t.userStakeAddress \in Addresses
        /\ ClaimDelegationTx(t.actor, t.nodeID, t.userStakeAddress)
    BY <1>7, TxFields DEF Apply
  <2> QED BY <1>1, <2>1 DEF ExecuteTx
<1> QED BY <1>2, <1>3, <1>4, <1>5, <1>6, <1>7, TxFields

\* The chain state has three tables.
LEMMA LedgerIsView ==
  ASSUME NEW v, IsLedger(v)
  PROVE  IsView(v) /\ DOMAIN v.balance = Addresses
  BY DEF IsLedger, IsView

\* The fee of a transaction that is executed can be paid, and not much else moves.
LEMMA ApplyBegins ==
  ASSUME NEW t \in Txs, Apply(t)
  PROVE  BeginTx(t.actor)
  BY DEF Apply, RegisterTx, WithdrawTx, DelegateTx, UndelegateTx, ClaimValidatorTx,
         ClaimDelegationTx

LEMMA SecondBegins ==
  ASSUME NEW t \in Txs, Second!Apply(t)
  PROVE  CanSubBalance(view2.balance, t.actor, TxFee)
<1>1. Second!BeginTx(t.actor)
  BY DEF Second!Apply, Second!RegisterTx, Second!WithdrawTx, Second!DelegateTx,
         Second!UndelegateTx, Second!ClaimValidatorTx, Second!ClaimDelegationTx
<1> QED BY <1>1, SecondBalances DEF Second!BeginTx

\* What is known of the nodes while they have executed the same.
Together ==
  /\ Typed /\ Backed /\ PointersKnown(em)
  /\ em2 = em /\ view2 = view

\* A transaction that passes its checks is allowed.
LEMMA AllowedNow ==
  ASSUME TypeOK, Backed, Headroom, NEW t \in Txs, Checks(t),
         CanSubBalance(view.balance, t.actor, TxFee)
  PROVE  Allowed(em, view, t, height)
<1> DEFINE n == t.nodeID
           a == t.actor
<1>1. IsEmission(em) /\ IsLedger(view) /\ IsView(view)
  BY LedgerIsView DEF TypeOK
<1>2. Permitted(view, t, height) /\ Known(em, t)
  BY <1>1, ChecksMean
<1>3. n \in NodeIDs /\ a \in Addresses
  BY TxFields
<1>4. ASSUME t.kind \in {"withdraw", "delegate", "claimValidator"}
      PROVE  ValidatorOf(em, n).StakedAmount # 0
  <2>1. n \in DOMAIN view.registered
    BY <1>2, <1>4 DEF Permitted
  <2>2. /\ ValidatorOf(em, n).StakedAmount = view.registered[n].StakedAmount
        /\ view.registered[n].StakedAmount > 0
    BY <2>1 DEF Backed, RecordsBacked, RegistrationBacked
  <2>3. ~ (0 > 0)
    OBVIOUS
  <2> QED BY <2>2, <2>3
<1>5. ASSUME t.kind = "undelegate", NEW x \in Uint64, x <= DueTo(ValidatorOf(em, n), a)
      PROVE  Succeeds(view.balance, t, Stake(view, t), x)
  <2> DEFINE y == view.delegated[<<n, a>>].StakedAmount
             z == DueTo(ValidatorOf(em, n), a)
  <2>1. <<n, a>> \in DOMAIN view.delegated /\ HasDelegator(em, n, a)
    BY <1>2, <1>5 DEF Permitted, Known
  <2>2. n \in DOMAIN em.validators
    BY <2>1 DEF HasDelegator, HasValidator
  <2>3. CalculateUserDelegationRewards(em, n, a) = z
    BY DueCalculated
  <2>4. \A b \in Addresses : view.balance[b] + (z + y) < Word
    BY <1>3, <2>1, <2>2, <2>3 DEF Headroom
  <2>5. y \in Uint64
    BY <1>1, <2>1 DEF IsLedger, IsMap, DelegateRecord
  <2>6. z \in Uint64
    BY DueType
  <2>7. t.rewardAddress \in Addresses
    BY <1>5, TxFields, StakingAssumption
  <2>8. CanPayOut(FeePaid(a).balance, t.rewardAddress, x, a, y)
    <3> HIDE DEF y, z
    <3>1. x <= z
      BY <1>5 DEF z
    <3> QED BY <1>3, <2>4, <2>5, <2>6, <2>7, <3>1, RoomToPayOut
  <2>9. FeePaid(a).balance = AfterFee(view.balance, t)
    <3>1. FeePaid(a) = [balance |-> AfterFee(view.balance, t),
                        registered |-> view.registered, delegated |-> view.delegated]
      BY <1>1, FeeView
    <3> QED BY <3>1
  <2>10. Stake(view, t) = y
    BY <1>5 DEF Stake
  <2> QED BY <1>5, <2>8, <2>9, <2>10 DEF Succeeds, Spending, PayingOut
<1> QED BY <1>2, <1>4, <1>5 DEF Allowed

\* The nodes begin to execute two transactions without a common key.
LEMMA DivergeApart ==
  ASSUME Together, Headroom, Diverge
  PROVE  /\ fork' = [phase |-> "apart", first |-> fork'.first, second |-> fork'.second,
                     before |-> em]
         /\ height' = height
         /\ Apart(em, view, fork'.first, fork'.second, height)
         /\ Executed(em, view, fork'.first, em', view')
         /\ Executed(em, view, fork'.second, em2', view2')
<1>1. PICK t \in Txs, u \in Txs :
        /\ Checks(t) /\ Checks(u) /\ StateKeys(t) \cap StateKeys(u) = {}
        /\ Apply(t) /\ Second!Apply(u)
        /\ fork' = [phase |-> "apart", first |-> t, second |-> u, before |-> em]
  BY DEF Diverge, Ready
<1>2. fork'.first = t /\ fork'.second = u
  BY <1>1
<1>3. TypeOK /\ Backed /\ IsEmission(em) /\ PointersKnown(em) /\ em2 = em /\ view2 = view
  BY DEF Together, Typed, TypeOK
<1>4. IsView(view) /\ IsView(view2) /\ DOMAIN view.balance = Addresses
  BY <1>3, LedgerIsView DEF TypeOK
<1>5. CanSubBalance(view.balance, t.actor, TxFee)
  BY <1>1, ApplyBegins DEF BeginTx
<1>6. CanSubBalance(view.balance, u.actor, TxFee)
  BY <1>1, <1>3, SecondBegins
<1>7. Allowed(em, view, t, height) /\ Allowed(em, view, u, height)
  BY <1>1, <1>3, <1>5, <1>6, AllowedNow
<1>8. KeysApart(t, u) /\ KeysApart(u, t)
  BY <1>1, DisjointKeys
<1>9. Apart(em, view, t, u, height)
  BY <1>3, <1>4, <1>7, <1>8 DEF Apart
<1>10. Executed(em, view, t, em', view') /\ height' = height
  BY <1>1, <1>4, <1>7, ApplyExecutes DEF Allowed
<1>11. Executed(em2, view2, u, em2', view2')
  BY <1>1, <1>3, <1>4, <1>7, SecondExecutes DEF Allowed
<1> QED BY <1>1, <1>2, <1>3, <1>9, <1>10, <1>11

\* What is known of the nodes when each has executed one of the two.
Halfway ==
  /\ fork = [phase |-> "apart", first |-> fork.first, second |-> fork.second,
             before |-> fork.before]
  /\ \E v : /\ Apart(fork.before, v, fork.first, fork.second, height)
            /\ Executed(fork.before, v, fork.first, em, view)
            /\ Executed(fork.before, v, fork.second, em2, view2)

\* What one transaction leaves the other.
LEMMA OtherRemains ==
  ASSUME NEW e, NEW v, NEW t, NEW u, NEW h, Apart(e, v, t, u, h),
         NEW g, NEW w, Executed(e, v, t, g, w)
  PROVE  Permitted(w, u, h) /\ Known(g, u) /\ IsView(w)
<1>1. /\ IsEmission(e) /\ PointersKnown(e) /\ t \in Txs /\ u \in Txs /\ KeysApart(t, u)
      /\ Permitted(v, t, h) /\ Known(e, t) /\ Permitted(v, u, h)
  BY DEF Apart, Allowed
<1>2. Revises(e, g, t)
  BY <1>1, ExecutedRevises
<1>3. Known(g, u)
  BY <1>2, KnownKept
<1> DEFINE x == Reward(BookOf(e, t.nodeID).validator, t)
<1>4. w = After(v, t, x)
  BY DEF Executed
<1> HIDE DEF x
<1>5. Permitted(w, u, h)
  BY <1>1, <1>4, RecordsKept
<1>6. IsView(w)
  BY <1>4 DEF After, IsView
<1> QED BY <1>3, <1>5, <1>6

\* The nodes have executed both.
LEMMA ConvergeAgrees ==
  ASSUME Halfway, Converge
  PROVE  ReplicasAgree' /\ fork'.phase = "met"
<1> DEFINE t == fork.first
           u == fork.second
           e == fork.before
<1>1. /\ fork = [phase |-> "apart", first |-> t, second |-> u, before |-> e]
      /\ \E v : /\ Apart(e, v, t, u, height)
                /\ Executed(e, v, t, em, view) /\ Executed(e, v, u, em2, view2)
  BY DEF Halfway
<1>2. PICK v : /\ Apart(e, v, t, u, height)
               /\ Executed(e, v, t, em, view) /\ Executed(e, v, u, em2, view2)
  BY <1>1
<1>3. /\ Apply(u) /\ Second!Apply(t)
      /\ fork' = [fork EXCEPT !.phase = "met"]
  BY DEF Converge
<1>4. fork'.phase = "met" /\ fork'.first = t /\ fork'.second = u /\ fork'.before = e
  BY <1>1, <1>3
<1> HIDE DEF t, u, e
<1>5. t \in Txs /\ u \in Txs /\ Apart(e, v, u, t, height)
  BY <1>2 DEF Apart
<1>6. Permitted(view, u, height) /\ Known(em, u) /\ IsView(view)
  BY <1>2, OtherRemains
<1>7. Permitted(view2, t, height) /\ Known(em2, t) /\ IsView(view2)
  BY <1>2, <1>5, OtherRemains
<1>8. Executed(em, view, u, em', view')
  BY <1>3, <1>5, <1>6, ApplyExecutes
<1>9. Executed(em2, view2, t, em2', view2')
  BY <1>3, <1>5, <1>7, SecondExecutes
<1>10. /\ SameRecords(view2', view') /\ Common(em2') = Common(em')
       /\ SameBooks(em2', em', NodeIDs \ {t.nodeID})
       /\ \/ view2' = view' /\ SameBooks(em2', em', NodeIDs)
          \/ TooSmall(e, t, u)
          \/ (LastLeaves(e, t, u) \/ LastLeaves(e, u, t)) /\ view2' = view'
  BY <1>2, <1>8, <1>9, OrdersAgree
<1>11. TooSmall(e, t, u) => PoolTooSmall'
  <2> SUFFICES ASSUME TooSmall(e, t, u)
               PROVE  PoolTooSmall'
    OBVIOUS
  <2> DEFINE n == t.nodeID
             o == ValidatorOf(e, n)
  <2>1. /\ CalculateUserDelegationRewards(e, n, t.actor) = DueTo(o, t.actor)
        /\ CalculateUserDelegationRewards(e, n, u.actor) = DueTo(o, u.actor)
    BY DueCalculated
  <2>2. o.AccumulatedDelegatedReward < DueTo(o, t.actor) + DueTo(o, u.actor)
    <3>1. IsEmission(e)
      BY <1>2 DEF Apart
    <3>2. o.AccumulatedDelegatedReward \in Uint64
      BY <3>1, KnownBook DEF TooSmall, HasDelegator
    <3>3. DueTo(o, t.actor) \in Uint64 /\ DueTo(o, u.actor) \in Uint64
      BY DueType
    <3>4. ~ (DueTo(o, t.actor) + DueTo(o, u.actor) <= o.AccumulatedDelegatedReward)
      BY DEF TooSmall, PoolPays
    <3> QED BY <3>2, <3>3, <3>4, EmissionAssumption DEF Uint64
  <2>3. /\ t.kind \in {"undelegate", "claimDelegation"}
        /\ u.kind \in {"undelegate", "claimDelegation"}
        /\ u.nodeID = n /\ HasDelegator(e, n, t.actor) /\ HasDelegator(e, n, u.actor)
    BY DEF TooSmall, Paying
  <2> QED BY <1>4, <2>1, <2>2, <2>3 DEF PoolTooSmall
<1>12. LastLeaves(e, t, u) \/ LastLeaves(e, u, t) => DropsValidator'
  BY <1>4 DEF LastLeaves, DropsValidator
<1> QED BY <1>4, <1>10, <1>11, <1>12 DEF ReplicasAgree, SameRecords

\* A step that both nodes take.
LEMMA InStepTogether ==
  ASSUME Together, Headroom, InStep
  PROVE  Together'
<1>1. /\ TypeOK /\ Typed /\ Backed /\ IsEmission(em) /\ PointersKnown(em)
      /\ em2 = em /\ view2 = view
  BY DEF Together, Typed, TypeOK
<1>2. em2' = em' /\ view2' = view'
  BY DEF InStep
<1>3. CASE NewBlock \/ AcceptBlock \/ Finished
  <2>1. em' = em /\ view' = view
    BY <1>3 DEF NewBlock, AcceptBlock, Finished, vars
  <2>2. Typed'
    BY <1>1, <1>3, NextTyped DEF Next
  <2>3. Backed' /\ PointersKnown(em')
    BY <1>1, <2>1 DEF Backed, RecordsBacked
  <2> QED BY <1>2, <2>2, <2>3 DEF Together
<1>4. CASE Accepted
  <2>1. Typed' /\ SameTerms(em, em')
    BY <1>1, <1>4, AcceptedTyped
  <2>2. view' = view
    BY <1>4 DEF Accepted, AcceptedFees, AcceptedMint, AcceptedAdd
  <2>3. Backed'
    BY <1>1, <2>1, <2>2, SameTermsKeepsBacked
  <2>4. PointersKnown(em')
    BY <1>1, <1>4, AcceptedPointers, PointersStayKnown
  <2> QED BY <1>2, <2>1, <2>3, <2>4 DEF Together
<1>5. ASSUME NEW t \in Txs, Checks(t), Apply(t)
      PROVE  Together'
  <2>1. ExecuteTx
    BY <1>5, ApplyIsExecuteTx
  <2>2. Typed' /\ Backed'
    BY <1>1, <2>1, TxTyped, ExecuteTxBacked
  <2>3. IsView(view)
    BY <1>1, LedgerIsView DEF TypeOK
  <2>4. Permitted(view, t, height) /\ Known(em, t)
    BY <1>5, <2>3, ChecksMean
  <2>5. Executed(em, view, t, em', view')
    BY <1>5, <2>3, <2>4, ApplyExecutes
  <2>6. PointersKnown(em')
    BY <1>1, <2>4, <2>5, ExecutedRevises DEF Revises
  <2> QED BY <1>2, <2>2, <2>6 DEF Together
<1> QED BY <1>3, <1>4, <1>5 DEF InStep, Ready

\* The inductive invariant: what is known in each phase.
Nodes ==
  /\ fork = NoFork => Together
  /\ fork.phase = "apart" => Halfway
  /\ ReplicasAgree

LEMMA InitNodes ==
  ASSUME ReplicasInit
  PROVE  Nodes
<1>1. fork = NoFork /\ fork.phase = "together"
  BY DEF ReplicasInit, NoFork
<1>2. Typed /\ Backed
  BY InitTyped, EmptyMapType DEF ReplicasInit, Init, Backed, RecordsBacked
<1>3. PointersKnown(em)
  BY DEF ReplicasInit, Init, New, PointersKnown
<1>4. Together
  BY <1>2, <1>3 DEF Together, ReplicasInit
<1> QED BY <1>1, <1>4 DEF Nodes, ReplicasAgree

LEMMA NextNodes ==
  ASSUME Nodes, Headroom, [ReplicasNext]_replicas
  PROVE  Nodes'
<1>1. CASE InStep
  <2>1. fork = NoFork /\ fork' = fork /\ Together
    BY <1>1 DEF InStep, Nodes
  <2>2. fork'.phase = "together"
    BY <2>1 DEF NoFork
  <2>3. Together'
    BY <1>1, <2>1, InStepTogether
  <2> QED BY <2>2, <2>3 DEF Nodes, ReplicasAgree
<1>2. CASE Diverge
  <2>1. Together
    BY <1>2 DEF Diverge, Nodes
  <2>2. /\ fork' = [phase |-> "apart", first |-> fork'.first, second |-> fork'.second,
                    before |-> em]
        /\ height' = height
        /\ Apart(em, view, fork'.first, fork'.second, height)
        /\ Executed(em, view, fork'.first, em', view')
        /\ Executed(em, view, fork'.second, em2', view2')
    BY <1>2, <2>1, DivergeApart
  <2>3. fork'.phase = "apart" /\ fork'.before = em
    BY <2>2
  <2>4. fork' # NoFork
    BY <2>3 DEF NoFork
  <2>5. Halfway'
    BY <2>2, <2>3 DEF Halfway
  <2> QED BY <2>3, <2>4, <2>5 DEF Nodes, ReplicasAgree
<1>3. CASE Converge
  <2>1. Halfway
    BY <1>3 DEF Converge, Nodes
  <2>2. ReplicasAgree' /\ fork'.phase = "met"
    BY <1>3, <2>1, ConvergeAgrees
  <2>3. fork' # NoFork
    BY <2>2 DEF NoFork
  <2> QED BY <2>2, <2>3 DEF Nodes
<1>4. CASE FeesApart
  <2>1. fork'.phase = "fees" /\ fork' # NoFork
    BY <1>4 DEF FeesApart, NoFork
  <2> QED BY <2>1 DEF Nodes, ReplicasAgree
<1>5. CASE UNCHANGED replicas
  <2>1. /\ fork' = fork /\ height' = height /\ em' = em /\ em2' = em2
        /\ view' = view /\ view2' = view2 /\ UNCHANGED vars
    BY <1>5 DEF replicas, vars
  <2>2. Together => Together'
    BY <2>1 DEF Together, Typed, TypeOK, Backed, RecordsBacked, vars
  <2>3. Halfway => Halfway'
    BY <2>1 DEF Halfway
  <2>4. ReplicasAgree => ReplicasAgree'
    BY <2>1 DEF ReplicasAgree, PoolTooSmall, DropsValidator
  <2> QED BY <2>1, <2>2, <2>3, <2>4 DEF Nodes
<1> QED BY <1>1, <1>2, <1>3, <1>4, <1>5 DEF ReplicasNext, Compared

\* Two nodes that execute transactions without a common state key in different
\* orders agree on the records of stakes, on the books of other validators and,
\* but for the two races that ReplicasAgree names, on everything; as long as no
\* pay-out would overflow a balance.
THEOREM ReplicasConverge == ReplicasSpec /\ []Headroom => []ReplicasAgree
<1>1. ReplicasInit => Nodes
  BY InitNodes
<1>2. Nodes /\ Headroom /\ [ReplicasNext]_replicas => Nodes'
  BY NextNodes
<1>3. Nodes => ReplicasAgree
  BY DEF Nodes
<1> QED BY <1>1, <1>2, <1>3, PTL DEF ReplicasSpec

-----------------------------------------------------------------------------
(* The fees of a block, distributed in two orders of the map of validators. *)

\* What the second node does with a balancer is what the first does.
LEMMA SecondValidatorStages ==
  ASSUME NEW e, NEW h
  PROVE  /\ Second!ActivateValidators(e, h) = ActivateValidators(e, h)
         /\ Second!DeactivateValidators(e, h) = DeactivateValidators(e, h)
<1>1. Second!ActivateValidators(e, h) = ActivateValidators(e, h)
  BY DEF Second!ActivateValidators, ActivateValidators, Second!ValidatorStake,
         ValidatorStake, Second!Wrap, Wrap, Second!MapThenSumSet, MapThenSumSet,
         Second!MapThenFoldSet, MapThenFoldSet
<1>2. Second!DeactivateValidators(e, h) = DeactivateValidators(e, h)
  BY DEF Second!DeactivateValidators, DeactivateValidators, Second!ValidatorStake,
         ValidatorStake, Second!Wrap, Wrap, Second!MapThenSumSet, MapThenSumSet,
         Second!MapThenFoldSet, MapThenFoldSet
<1> QED BY <1>1, <1>2

LEMMA SecondDelegatorStages ==
  ASSUME NEW e, NEW h
  PROVE  /\ Second!ActivateDelegators(e, h) = ActivateDelegators(e, h)
         /\ Second!DeactivateDelegators(e, h) = DeactivateDelegators(e, h)
<1>1. Second!ActivateDelegators(e, h) = ActivateDelegators(e, h)
  BY DEF Second!ActivateDelegators, ActivateDelegators, Second!IsLive, IsLive,
         Second!HasValidator, HasValidator, Second!StakeOf, StakeOf, Second!Starting,
         Starting, Second!SetActive, SetActive, Second!Wrap, Wrap,
         Second!SumFunctionOnSet, SumFunctionOnSet, Second!FoldFunctionOnSet,
         FoldFunctionOnSet, Second!MapThenSumSet, MapThenSumSet,
         Second!MapThenFoldSet, MapThenFoldSet
<1>2. Second!DeactivateDelegators(e, h) = DeactivateDelegators(e, h)
  BY DEF Second!DeactivateDelegators, DeactivateDelegators, Second!IsLive, IsLive,
         Second!HasValidator, HasValidator, Second!StakeOf, StakeOf, Second!Ending,
         Ending, Second!SetActive, SetActive, Second!Wrap, Wrap,
         Second!SumFunctionOnSet, SumFunctionOnSet, Second!FoldFunctionOnSet,
         FoldFunctionOnSet, Second!MapThenSumSet, MapThenSumSet,
         Second!MapThenFoldSet, MapThenFoldSet
<1> QED BY <1>1, <1>2

LEMMA SecondProcessEvents ==
  ASSUME NEW e, NEW h
  PROVE  Second!processEvents(e, h) = processEvents(e, h)
  BY SecondValidatorStages, SecondDelegatorStages DEF Second!processEvents, processEvents

\* A fee among the validators.
Shared(e, x, o) ==
  [e EXCEPT !.heap = [r \in DOMAIN e.heap |->
     LET v == e.heap[r]
     IN IF IsLive(e, r) /\ v.IsActive
          THEN CreditFee(v, TotalValidatorAmount(e, v, x), DistributedUpTo(e, x, o, v.NodeID))
          ELSE v]]

LEMMA FeeShared ==
  ASSUME NEW e, NEW x, NEW h, NEW o
  PROVE  /\ distributeValidatorRewardsOrFees(e, x, FALSE, h, o) = Shared(e, x, o)
         /\ Second!distributeValidatorRewardsOrFees(e, x, FALSE, h, o) = Shared(e, x, o)
<1>1. distributeValidatorRewardsOrFees(e, x, FALSE, h, o) = Shared(e, x, o)
  BY DEF distributeValidatorRewardsOrFees, Shared
<1>2. Second!distributeValidatorRewardsOrFees(e, x, FALSE, h, o) = Shared(e, x, o)
  BY DEF Second!distributeValidatorRewardsOrFees, Shared, Second!IsLive, IsLive,
         Second!HasValidator, HasValidator, Second!CreditFee, CreditFee,
         Second!DelegationRewards, DelegationRewards, Second!DistributedUpTo,
         DistributedUpTo, Second!TotalValidatorAmount, TotalValidatorAmount,
         Second!ValidatorOf, ValidatorOf, Second!ValidatorStake, ValidatorStake,
         Second!Wrap, Wrap, Second!FloatToUint64, FloatToUint64, Second!Uint64, Uint64,
         Second!SumFunctionOnSet, SumFunctionOnSet, Second!FoldFunctionOnSet,
         FoldFunctionOnSet, Second!MapThenFoldSet, MapThenFoldSet
<1> QED BY <1>1, <1>2, Zenon

\* The fee of a block as both nodes distribute it.
LEMMA FeesShared ==
  ASSUME NEW e, IsEmission(e), NEW fee, NEW h, NEW o, NEW w
  PROVE  \E q, x : /\ IsEmission(q)
                   /\ \/ /\ DistributeFees(e, fee, h, o) = q
                         /\ Second!DistributeFees(e, fee, h, w) = q
                      \/ /\ DistributeFees(e, fee, h, o) = Shared(q, x, o)
                         /\ Second!DistributeFees(e, fee, h, w) = Shared(q, x, w)
<1> DEFINE p    == processEvents(e, h)
           part == IF Wrap(p.TotalSupply + fee) > MaxSupply
                     THEN Wrap(MaxSupply - p.TotalSupply) ELSE fee
           half == Wrap(p.AccumulatedReward + part \div 2)
           q    == [p EXCEPT !.AccumulatedReward = half]
           rest == part - part \div 2
<1>1. IsEmission(p) /\ half \in Uint64
  BY ProcessEventsType, WrapType
<1>2. IsEmission(q)
  <2> HIDE DEF p, half
  <2> QED BY <1>1 DEF IsEmission, EmissionFields
<1>3. DistributeFees(e, fee, h, o) =
        IF q.TotalStaked = 0 \/ rest = 0 THEN q
        ELSE distributeValidatorRewardsOrFees(q, rest, FALSE, h, o)
  BY DEF DistributeFees
<1>4. Second!DistributeFees(e, fee, h, w) =
        IF q.TotalStaked = 0 \/ rest = 0 THEN q
        ELSE Second!distributeValidatorRewardsOrFees(q, rest, FALSE, h, w)
  <2>1. Second!processEvents(e, h) = p
    BY SecondProcessEvents
  <2>2. \A x : Second!Wrap(x) = Wrap(x)
    BY SecondMaps
  <2> HIDE DEF p
  <2> QED BY <2>1, <2>2 DEF Second!DistributeFees
<1> HIDE DEF q, rest
<1>5. /\ distributeValidatorRewardsOrFees(q, rest, FALSE, h, o) = Shared(q, rest, o)
      /\ Second!distributeValidatorRewardsOrFees(q, rest, FALSE, h, w) = Shared(q, rest, w)
  BY FeeShared, Zenon
<1>6. \/ /\ DistributeFees(e, fee, h, o) = q
         /\ Second!DistributeFees(e, fee, h, w) = q
      \/ /\ DistributeFees(e, fee, h, o) = Shared(q, rest, o)
         /\ Second!DistributeFees(e, fee, h, w) = Shared(q, rest, w)
  BY <1>3, <1>4, <1>5, Zenon
<1> QED BY <1>2, <1>6

\* A validator that earns alone is paid its own amount, whatever the order.
LEMMA EarnsAlone ==
  ASSUME NEW e, IsEmission(e), NEW x, NEW o \in MapOrders, NEW n \in Earning(e),
         Cardinality(Earning(e)) <= 1
  PROVE  DistributedUpTo(e, x, o, n) = TotalValidatorAmount(e, ValidatorOf(e, n), x)
<1> DEFINE upTo == {m \in DOMAIN e.validators : o[m] <= o[n]}
           amount == [m \in upTo |-> TotalValidatorAmount(e, ValidatorOf(e, m), x)]
           E == Earning(e)
<1>1. DOMAIN e.validators \subseteq NodeIDs /\ IsFiniteSet(NodeIDs)
  BY EmissionAssumption DEF IsEmission, IsMap
<1>2. IsFiniteSet(upTo) /\ IsFiniteSet(E)
  BY <1>1, FS_Subset DEF Earning
<1>3. \A m \in E : m = n
  <2> SUFFICES ASSUME NEW m \in E, m # n
               PROVE  FALSE
    OBVIOUS
  <2>1. IsFiniteSet({n}) /\ Cardinality({n}) = 1
    BY FS_Singleton
  <2>2. IsFiniteSet({n} \cup {m}) /\ Cardinality({n} \cup {m}) = 2
    BY <2>1, FS_AddElement
  <2>3. {n} \cup {m} \subseteq E
    OBVIOUS
  <2>4. Cardinality({n} \cup {m}) <= Cardinality(E)
    BY <1>2, <2>3, FS_Subset
  <2>5. Cardinality(E) \in Nat
    BY <1>2, FS_CardinalityType
  <2> HIDE DEF E
  <2>6. Cardinality(E) <= 1
    BY DEF E
  <2> QED BY <2>2, <2>4, <2>5, <2>6
<1>4. n \in upTo
  <2>1. n \in NodeIDs /\ n \in DOMAIN e.validators
    BY <1>1 DEF Earning
  <2>2. o[n] \in 1 .. Cardinality(NodeIDs)
    BY <2>1 DEF MapOrders
  <2>3. o[n] <= o[n]
    BY <2>2
  <2> QED BY <2>1, <2>3
<1>5. \A m \in upTo \ {n} : amount[m] = 0
  BY <1>3 DEF Earning, TotalValidatorAmount
<1>6. amount[n] \in Int
  <2>1. \A y : FloatToUint64(y) \in Int
    BY EmissionAssumption DEF FloatToUint64, Uint64
  <2>2. TotalValidatorAmount(e, ValidatorOf(e, n), x) \in Int
    BY <2>1 DEF TotalValidatorAmount
  <2> QED BY <1>4, <2>2
<1> HIDE DEF upTo, amount
<1>7. \A m \in upTo : amount[m] \in Int
  BY <1>5, <1>6
<1>8. SumFunctionOnSet(amount, upTo) = amount[n] + SumFunctionOnSet(amount, upTo \ {n})
  BY <1>2, <1>4, <1>7, SumRemove
<1>9. SumFunctionOnSet(amount, upTo \ {n}) = 0
  <2>1. IsFiniteSet(upTo \ {n})
    BY <1>2, FS_Subset
  <2> QED BY <1>5, <2>1, SumZero
<1>10. SumFunctionOnSet(amount, upTo) = amount[n]
  BY <1>6, <1>8, <1>9
<1>11. DistributedUpTo(e, x, o, n) = SumFunctionOnSet(amount, upTo)
  BY DEF DistributedUpTo, amount, upTo
<1>12. amount[n] = TotalValidatorAmount(e, ValidatorOf(e, n), x)
  BY <1>4 DEF amount
<1> QED BY <1>10, <1>11, <1>12

\* What two orders of the map make of the same balancer.
FeesMatch(e, f) ==
  /\ Common(f) = Common(e)
  /\ DOMAIN f.validators = DOMAIN e.validators
  /\ \A n \in DOMAIN e.validators :
       \E x \in Uint64 :
         ValidatorOf(f, n) = [ValidatorOf(e, n) EXCEPT !.AccumulatedStakedReward = x]
  /\ SameBooks(f, e, NodeIDs) \/ Cardinality(Earning(e)) > 1

\* The credit of a fee is a new AccumulatedStakedReward.
LEMMA CreditIsReward ==
  ASSUME NEW v, IsValidator(v), NEW amount, NEW d, NEW d2
  PROVE  /\ CreditFee(v, amount, d).IsActive = v.IsActive
         /\ \E x \in Uint64 :
              CreditFee(v, amount, d2)
                = [CreditFee(v, amount, d) EXCEPT !.AccumulatedStakedReward = x]
<1> DEFINE y == Wrap(v.AccumulatedStakedReward + (amount - DelegationRewards(v, amount)) + d)
           x == Wrap(v.AccumulatedStakedReward + (amount - DelegationRewards(v, amount)) + d2)
<1>1. /\ CreditFee(v, amount, d) = [v EXCEPT !.AccumulatedStakedReward = y]
      /\ CreditFee(v, amount, d2) = [v EXCEPT !.AccumulatedStakedReward = x]
  BY DEF CreditFee
<1>2. x \in Uint64
  BY WrapType
<1> HIDE DEF x, y
<1>3. [v EXCEPT !.AccumulatedStakedReward = x]
        = [[v EXCEPT !.AccumulatedStakedReward = y] EXCEPT !.AccumulatedStakedReward = x]
  BY DEF IsValidator
<1>4. [v EXCEPT !.AccumulatedStakedReward = y].IsActive = v.IsActive
  BY DEF IsValidator
<1>5. CreditFee(v, amount, d2) = [CreditFee(v, amount, d) EXCEPT !.AccumulatedStakedReward = x]
  BY <1>1, <1>3
<1>6. CreditFee(v, amount, d).IsActive = v.IsActive
  BY <1>1, <1>4
<1> QED BY <1>2, <1>5, <1>6

\* A balancer matches itself.
LEMMA FeesMatchSame ==
  ASSUME NEW e, IsEmission(e)
  PROVE  FeesMatch(e, e)
<1>1. ASSUME NEW n \in DOMAIN e.validators
      PROVE  \E x \in Uint64 :
               ValidatorOf(e, n) = [ValidatorOf(e, n) EXCEPT !.AccumulatedStakedReward = x]
  <2> DEFINE v == ValidatorOf(e, n)
  <2>1. IsValidator(v)
    BY DEF ValidatorOf, IsEmission, IsMap
  <2> HIDE DEF v
  <2>2. v = [v EXCEPT !.AccumulatedStakedReward = v.AccumulatedStakedReward]
    BY <2>1 DEF IsValidator
  <2>3. v.AccumulatedStakedReward \in Uint64
    BY <2>1 DEF IsValidator
  <2>4. \E x \in Uint64 : v = [v EXCEPT !.AccumulatedStakedReward = x]
    BY <2>2, <2>3
  <2> QED BY <2>4 DEF v
<1>2. SameBooks(e, e, NodeIDs)
  BY DEF SameBooks
<1> QED BY <1>1, <1>2 DEF FeesMatch

\* A fee shared in two orders.
LEMMA SharedMatch ==
  ASSUME NEW e, IsEmission(e), NEW x, NEW o \in MapOrders, NEW w \in MapOrders
  PROVE  FeesMatch(Shared(e, x, o), Shared(e, x, w))
<1> DEFINE g == Shared(e, x, o)
           k == Shared(e, x, w)
           amount(r) == TotalValidatorAmount(e, e.heap[r], x)
           up(r, c) == DistributedUpTo(e, x, c, e.heap[r].NodeID)
<1>1. /\ g = [e EXCEPT !.heap = g.heap] /\ k = [e EXCEPT !.heap = k.heap]
      /\ \A r \in DOMAIN e.heap :
           IF IsLive(e, r) /\ e.heap[r].IsActive
             THEN /\ g.heap[r] = CreditFee(e.heap[r], amount(r), up(r, o))
                  /\ k.heap[r] = CreditFee(e.heap[r], amount(r), up(r, w))
             ELSE g.heap[r] = e.heap[r] /\ k.heap[r] = e.heap[r]
  BY DEF Shared, IsEmission, EmissionFields
<1> HIDE DEF g, k, amount, up
<1>2. /\ g.validators = e.validators /\ k.validators = e.validators
      /\ g.activationEvents = e.activationEvents /\ k.activationEvents = e.activationEvents
      /\ g.deactivationEvents = e.deactivationEvents
      /\ k.deactivationEvents = e.deactivationEvents
      /\ Common(g) = Common(e) /\ Common(k) = Common(e)
  BY <1>1 DEF Common, IsEmission, EmissionFields
<1>3. ASSUME NEW n \in DOMAIN e.validators
      PROVE  /\ e.validators[n] \in DOMAIN e.heap
             /\ IsValidator(ValidatorOf(e, n)) /\ IsLive(e, e.validators[n])
             /\ ValidatorOf(e, n).NodeID = n
             /\ ValidatorOf(e, n) = e.heap[e.validators[n]]
             /\ ValidatorOf(g, n) = g.heap[e.validators[n]]
             /\ ValidatorOf(k, n) = k.heap[e.validators[n]]
  BY <1>2 DEF ValidatorOf, IsEmission, IsMap, IsLive, HasValidator
<1>4. ASSUME NEW n \in DOMAIN e.validators
      PROVE  /\ ValidatorOf(g, n).IsActive = ValidatorOf(e, n).IsActive
             /\ \E y \in Uint64 : ValidatorOf(k, n)
                  = [ValidatorOf(g, n) EXCEPT !.AccumulatedStakedReward = y]
  <2> DEFINE r == e.validators[n]
             v == e.heap[r]
  <2>1. IsValidator(v) /\ r \in DOMAIN e.heap
    BY <1>3
  <2>2. /\ ValidatorOf(e, n) = v /\ ValidatorOf(g, n) = g.heap[r]
        /\ ValidatorOf(k, n) = k.heap[r]
    BY <1>3
  <2> HIDE DEF r, v
  <2>3. CASE g.heap[r] = v /\ k.heap[r] = v
    <3>1. v = [v EXCEPT !.AccumulatedStakedReward = v.AccumulatedStakedReward]
      BY <2>1 DEF IsValidator
    <3>2. v.AccumulatedStakedReward \in Uint64
      BY <2>1 DEF IsValidator
    <3> QED BY <2>2, <2>3, <3>1, <3>2
  <2>4. CASE /\ g.heap[r] = CreditFee(v, amount(r), up(r, o))
             /\ k.heap[r] = CreditFee(v, amount(r), up(r, w))
    BY <2>1, <2>2, <2>4, CreditIsReward
  <2> QED BY <1>1, <2>1, <2>3, <2>4 DEF v
<1>5. Earning(g) = Earning(e)
  BY <1>2, <1>4 DEF Earning
<1>6. ASSUME ~ (Cardinality(Earning(g)) > 1)
      PROVE  SameBooks(k, g, NodeIDs)
  <2>1. Cardinality(Earning(e)) <= 1
    <3>1. IsFiniteSet(Earning(e))
      <4>1. Earning(e) \in SUBSET NodeIDs
        BY DEF Earning, IsEmission, IsMap
      <4> QED BY <4>1, EmissionAssumption, FS_Subset
    <3>2. Cardinality(Earning(e)) \in Nat
      BY <3>1, FS_CardinalityType
    <3> QED BY <1>5, <1>6, <3>2
  <2>2. ASSUME NEW n \in DOMAIN e.validators
        PROVE  ValidatorOf(k, n) = ValidatorOf(g, n)
    <3> DEFINE r == e.validators[n]
    <3>1. CASE ~ e.heap[r].IsActive
      BY <1>1, <1>3, <3>1
    <3>2. CASE e.heap[r].IsActive
      <4>1. n \in Earning(e)
        BY <1>3, <3>2 DEF Earning
      <4>2. up(r, o) = up(r, w)
        BY <1>3, <2>1, <4>1, EarnsAlone DEF up
      <4> QED BY <1>1, <1>3, <3>2, <4>2
    <3> QED BY <3>1, <3>2
  <2>3. \A n \in DOMAIN e.validators : Book(k, n) = Book(g, n)
    BY <1>2, <2>2 DEF Book
  <2> QED BY <1>2, <2>3 DEF SameBooks, HasValidator
<1>7. FeesMatch(g, k)
  BY <1>2, <1>4, <1>6 DEF FeesMatch
<1> QED BY <1>7 DEF g, k

\* Both nodes take the step of Controller.Accepted that distributes fees.
LEMMA FeesApartAgree ==
  ASSUME TypeOK, em2 = em, FeesApart
  PROVE  FeesMatch(em', em2')
<1>1. IsEmission(em) /\ queue # <<>>
  BY DEF TypeOK, FeesApart, AcceptedFees
<1> DEFINE fee == Head(queue)
<1>2. fee \in Int
  BY <1>1, HeadTailProperties, EmissionAssumption DEF TypeOK, Uint64
<1>3. \/ \E o \in MapOrders : fee > 0 /\ em' = DistributeFees(em, fee, height, o)
      \/ fee = 0 /\ em' = em
  BY DEF FeesApart, AcceptedFees
<1>4. \/ \E w \in MapOrders : fee > 0 /\ em2' = Second!DistributeFees(em, fee, height, w)
      \/ fee = 0 /\ em2' = em
  <2>1. Second!MapOrders = MapOrders
    BY DEF Second!MapOrders, MapOrders, Second!Cardinality, Cardinality
  <2>2. Second!AcceptedFees
    BY DEF FeesApart
  <2>3. \/ /\ fee > 0
           /\ \E w \in MapOrders : em2' = Second!DistributeFees(em2, fee, height, w)
        \/ fee = 0 /\ em2' = em2
    BY <2>1, <2>2 DEF Second!AcceptedFees
  <2> QED BY <2>3
<1> HIDE DEF fee
<1>5. CASE fee = 0
  <2>1. em' = em /\ em2' = em
    BY <1>2, <1>3, <1>4, <1>5
  <2> QED BY <1>1, <2>1, FeesMatchSame
<1>6. CASE fee # 0
  <2>1. PICK o \in MapOrders, w \in MapOrders :
          /\ em' = DistributeFees(em, fee, height, o)
          /\ em2' = Second!DistributeFees(em, fee, height, w)
    BY <1>3, <1>4, <1>6
  <2>2. PICK q, x :
          /\ IsEmission(q)
          /\ \/ em' = q /\ em2' = q
             \/ em' = Shared(q, x, o) /\ em2' = Shared(q, x, w)
    BY <1>1, <2>1, FeesShared
  <2> QED BY <2>2, FeesMatchSame, SharedMatch
<1> QED BY <1>5, <1>6

\* The order in which Go ranges over the map of validators shows in what they have
\* earned and in nothing else, and not even there unless two of them are active.
THEOREM FeesConverge == ReplicasSpec => []FeesAgree
<1> DEFINE Inv == (fork = NoFork => Typed /\ em2 = em) /\ FeesAgree
<1>1. ReplicasInit => Inv
  <2> SUFFICES ASSUME ReplicasInit
               PROVE  Inv
    OBVIOUS
  <2>1. fork.phase # "fees" /\ em2 = em /\ Typed
    BY InitTyped DEF ReplicasInit, NoFork
  <2> QED BY <2>1 DEF FeesAgree
<1>2. Inv /\ [ReplicasNext]_replicas => Inv'
  <2> SUFFICES ASSUME Inv, [ReplicasNext]_replicas
               PROVE  Inv'
    OBVIOUS
  <2>1. CASE InStep
    <3>1. fork = NoFork /\ fork' = fork /\ em2' = em' /\ Typed
      BY <2>1 DEF InStep
    <3>2. Next
      BY <2>1, ApplyIsExecuteTx DEF InStep, Ready, Next
    <3>3. Typed'
      BY <3>1, <3>2, NextTyped
    <3>4. fork'.phase # "fees"
      BY <3>1 DEF NoFork
    <3> QED BY <3>1, <3>3, <3>4 DEF FeesAgree
  <2>2. CASE Diverge
    <3>1. fork'.phase = "apart"
      BY <2>2 DEF Diverge
    <3> QED BY <3>1 DEF NoFork, FeesAgree
  <2>3. CASE Converge
    <3>1. fork # NoFork /\ fork' = [fork EXCEPT !.phase = "met"]
      BY <2>3 DEF Converge, NoFork
    <3>2. fork'.phase # "fees" /\ fork' # NoFork
      BY <3>1 DEF NoFork
    <3> QED BY <3>2 DEF FeesAgree
  <2>4. CASE FeesApart
    <3>1. TypeOK /\ em2 = em /\ fork'.phase = "fees"
      BY <2>4 DEF FeesApart, Typed
    <3>2. FeesMatch(em', em2')
      BY <2>4, <3>1, FeesApartAgree
    <3>3. FeesAgree'
      BY <3>2 DEF FeesMatch, FeesAgree
    <3> QED BY <3>1, <3>3 DEF NoFork
  <2>5. CASE UNCHANGED replicas
    <3>1. /\ fork' = fork /\ em' = em /\ em2' = em2 /\ UNCHANGED vars
      BY <2>5 DEF replicas, vars
    <3>2. Typed => Typed'
      BY <3>1 DEF Typed, TypeOK, vars
    <3>3. FeesAgree'
      BY <3>1 DEF FeesAgree
    <3> QED BY <3>1, <3>2, <3>3
  <2> QED BY <2>1, <2>2, <2>3, <2>4, <2>5 DEF ReplicasNext, Compared
<1>3. Inv => FeesAgree
  OBVIOUS
<1> QED BY <1>1, <1>2, <1>3, PTL DEF ReplicasSpec
=============================================================================
