--------------------------- MODULE EmissionProofs ---------------------------
(***************************************************************************)
(* Lemmas about the methods of the emission balancer: each of them keeps   *)
(* the balancer well formed, and says which terms of the stakes it leaves  *)
(* alone and which delegators it starts or stops.  They are cited by the   *)
(* theorems of StakingProofs.                                              *)
(***************************************************************************)
EXTENDS Emission, TLAPS

\* Unsigned arithmetic wraps: every result is a uint64.
LEMMA WrapType == \A x : Wrap(x) \in Uint64
  BY EmissionAssumption DEF Wrap, Uint64

\* A float converted to uint64 is a uint64, out of range or not.
LEMMA FloatType == \A q : FloatToUint64(q) \in Uint64
  BY EmissionAssumption DEF FloatToUint64

\* Zero is a uint64.
LEMMA ZeroType == 0 \in Uint64
  BY EmissionAssumption DEF Uint64

\* Storing a key in a map.
LEMMA PutType ==
  ASSUME NEW K, NEW V, NEW m, IsMap(m, K, V), NEW k \in K, NEW v \in V
  PROVE  /\ IsMap(Put(m, k, v), K, V)
         /\ DOMAIN Put(m, k, v) = DOMAIN m \cup {k}
         /\ Put(m, k, v)[k] = v
         /\ \A x \in DOMAIN m \ {k} : Put(m, k, v)[x] = m[x]
  BY DEF IsMap, Put

\* Deleting a key of a map.
LEMMA DeleteType ==
  ASSUME NEW K, NEW V, NEW m, IsMap(m, K, V), NEW k
  PROVE  /\ IsMap(Delete(m, k), K, V)
         /\ DOMAIN Delete(m, k) = DOMAIN m \ {k}
         /\ \A x \in DOMAIN m \ {k} : Delete(m, k)[x] = m[x]
  BY DEF IsMap, Delete

\* The empty map is a map of any type.
LEMMA EmptyMapType ==
  \A K, V : IsMap(EmptyMap, K, V) /\ DOMAIN EmptyMap = {}
  BY DEF IsMap, EmptyMap

-----------------------------------------------------------------------------
\* f holds the same validators and delegators as e, under the same terms;
\* activity, rewards and events may differ.
SameTerms(e, f) ==
  /\ f.validators = e.validators
  /\ DOMAIN f.heap = DOMAIN e.heap
  /\ \A r \in DOMAIN e.heap :
       /\ f.heap[r].NodeID = e.heap[r].NodeID
       /\ f.heap[r].StakedAmount = e.heap[r].StakedAmount
       /\ DOMAIN f.heap[r].delegators = DOMAIN e.heap[r].delegators
       /\ \A a \in DOMAIN e.heap[r].delegators :
            LET c == e.heap[r].delegators[a]
                d == f.heap[r].delegators[a]
            IN /\ d.StakedAmount = c.StakedAmount
               /\ d.StakeStartBlock = c.StakeStartBlock
               /\ d.StakeEndBlock = c.StakeEndBlock

\* SameTerms is transitive.
LEMMA SameTermsTransitive ==
  ASSUME NEW e, NEW f, NEW g, SameTerms(e, f), SameTerms(f, g)
  PROVE  SameTerms(e, g)
  BY DEF SameTerms

\* Rewriting every object in place keeps the balancer well formed.
LEMMA RewriteType ==
  ASSUME NEW e, IsEmission(e), NEW f,
         f \in EmissionFields(f.heap, f.validators),
         f.validators = e.validators, f.allocated = e.allocated,
         f.heap \in [DOMAIN e.heap -> {f.heap[r] : r \in DOMAIN e.heap}],
         \A r \in DOMAIN e.heap : /\ IsValidator(f.heap[r])
                                  /\ f.heap[r].NodeID = e.heap[r].NodeID
  PROVE  IsEmission(f)
<1>1. DOMAIN f.heap = DOMAIN e.heap /\ DOMAIN e.heap = 1 .. e.allocated
  BY DEF IsEmission
<1>2. f.heap \in [1 .. f.allocated -> {f.heap[r] : r \in 1 .. f.allocated}]
  BY <1>1
<1>3. \A n \in DOMAIN f.validators : f.heap[f.validators[n]].NodeID = n
  BY DEF IsEmission, IsMap
<1>4. IsMap(f.validators, NodeIDs, DOMAIN f.heap)
  BY <1>1 DEF IsEmission
<1> QED BY <1>1, <1>2, <1>3, <1>4 DEF IsEmission

\* Replacing the object of one node.
LEMMA WithValidatorType ==
  ASSUME NEW e, IsEmission(e), NEW n \in DOMAIN e.validators,
         NEW v, IsValidator(v), v.NodeID = n
  PROVE  /\ IsEmission(WithValidator(e, n, v))
         /\ WithValidator(e, n, v).TotalSupply = e.TotalSupply
         /\ WithValidator(e, n, v).validators = e.validators
         /\ ValidatorOf(WithValidator(e, n, v), n) = v
         /\ \A m \in DOMAIN e.validators \ {n} :
              ValidatorOf(WithValidator(e, n, v), m) = ValidatorOf(e, m)
<1> DEFINE w == WithValidator(e, n, v)
           r == e.validators[n]
<1>1. r \in DOMAIN e.heap
  BY DEF IsEmission, IsMap
<1>2. w = [e EXCEPT !.heap = [e.heap EXCEPT ![r] = v]]
  BY DEF WithValidator
<1> HIDE DEF w
<1>3. /\ w.validators = e.validators
      /\ w.allocated = e.allocated
      /\ w.TotalSupply = e.TotalSupply
      /\ w.heap = [e.heap EXCEPT ![r] = v]
      /\ w \in EmissionFields(w.heap, w.validators)
  BY <1>2 DEF IsEmission, EmissionFields
<1>4. \A m \in DOMAIN e.validators \ {n} : e.validators[m] # r
  BY DEF IsEmission
<1>5. w.heap[r] = v /\ \A x \in DOMAIN e.heap \ {r} : w.heap[x] = e.heap[x]
  BY <1>1, <1>3 DEF IsEmission
<1>6. w.heap \in [DOMAIN e.heap -> {w.heap[x] : x \in DOMAIN e.heap}]
  BY <1>1, <1>3 DEF IsEmission
<1>7. \A x \in DOMAIN e.heap : IsValidator(w.heap[x]) /\ w.heap[x].NodeID = e.heap[x].NodeID
  BY <1>1, <1>5 DEF IsEmission
<1>8. IsEmission(w)
  BY <1>3, <1>6, <1>7, RewriteType
<1>9. ValidatorOf(w, n) = v
  BY <1>3, <1>5 DEF ValidatorOf
<1>10. \A m \in DOMAIN e.validators \ {n} : ValidatorOf(w, m) = ValidatorOf(e, m)
  BY <1>3, <1>4, <1>5 DEF ValidatorOf, IsEmission, IsMap
<1> QED BY <1>3, <1>8, <1>9, <1>10 DEF w

-----------------------------------------------------------------------------
\* The object `validators` holds for a node.
LEMMA ValidatorOfType ==
  ASSUME NEW e, IsEmission(e), NEW n \in DOMAIN e.validators
  PROVE  IsValidator(ValidatorOf(e, n)) /\ ValidatorOf(e, n).NodeID = n
  BY DEF IsEmission, IsMap, ValidatorOf

\* The fresh balancer of emission.New.
LEMMA NewType ==
  ASSUME NEW t \in Uint64
  PROVE  IsEmission(New(t)) /\ New(t).TotalSupply = t
<1>1. New(t) \in EmissionFields(New(t).heap, New(t).validators)
  BY ZeroType DEF New, EmissionFields
<1>2. /\ New(t).heap = EmptyMap /\ New(t).validators = EmptyMap
      /\ New(t).allocated = 0 /\ New(t).TotalSupply = t
  BY DEF New
<1>3. EmptyMap \in [1 .. 0 -> {EmptyMap[r] : r \in 1 .. 0}]
  BY DEF EmptyMap
<1> QED BY <1>1, <1>2, <1>3, EmptyMapType DEF IsEmission

\* RegisterValidatorStake records the new stake of the node and leaves its
\* delegators and every other validator alone.
LEMMA RegisterType ==
  ASSUME NEW e, IsEmission(e), NEW n \in NodeIDs, NEW s \in Heights,
         NEW t \in Heights, NEW x \in Uint64, NEW f \in Percent
  PROVE  LET g == RegisterValidatorStake(e, n, s, t, x, f)
         IN /\ IsEmission(g)
            /\ g.TotalSupply = e.TotalSupply
            /\ DOMAIN g.validators = DOMAIN e.validators \cup {n}
            /\ ValidatorOf(g, n).StakedAmount = x
            /\ HasValidator(e, n) =>
                 ValidatorOf(g, n).delegators = ValidatorOf(e, n).delegators
            /\ \A m \in DOMAIN e.validators \ {n} :
                 ValidatorOf(g, m) = ValidatorOf(e, m)
<1> DEFINE g   == RegisterValidatorStake(e, n, s, t, x, f)
           known == HasValidator(e, n)
           ref == IF known THEN e.validators[n] ELSE e.allocated + 1
           old == IF known THEN e.heap[ref] ELSE NewValidator(n)
           v   == [old EXCEPT !.IsActive = TRUE, !.StakedAmount = x,
                              !.DelegationFeeRate = f]
           k   == IF known THEN e.allocated ELSE e.allocated + 1
<1>1. IsValidator(old) /\ old.NodeID = n
  <2>1. CASE known
    BY <2>1, ValidatorOfType DEF HasValidator, ValidatorOf
  <2>2. CASE ~ known
    BY <2>2, EmptyMapType, ZeroType DEF NewValidator, Percent, IsValidator
  <2> QED BY <2>1, <2>2
<1> HIDE DEF old
<1>2. IsValidator(v) /\ v.NodeID = n /\ v.StakedAmount = x /\ v.delegators = old.delegators
  BY <1>1 DEF IsValidator
<1> HIDE DEF v
<1>3. /\ e.allocated \in Nat /\ DOMAIN e.heap = 1 .. e.allocated
      /\ known => ref \in DOMAIN e.heap
      /\ ~ known => ref = e.allocated + 1
  BY DEF IsEmission, IsMap, EmissionFields, HasValidator
<1>4. g = [e EXCEPT !.heap = Put(e.heap, ref, v), !.allocated = k,
                    !.validators = Put(e.validators, n, ref),
                    !.activationEvents = @ \cup {<<s, ref>>},
                    !.deactivationEvents = @ \cup {<<t, ref>>}]
  BY DEF RegisterValidatorStake, v, old
<1>5. /\ ref \in Nat /\ k \in Nat
      /\ {<<s, ref>>} \subseteq Heights \X Nat
      /\ {<<t, ref>>} \subseteq Heights \X Nat
  BY <1>3
<1> HIDE DEF g, ref, k
<1>6. /\ g.heap = Put(e.heap, ref, v) /\ g.allocated = k
      /\ g.validators = Put(e.validators, n, ref)
      /\ g.TotalSupply = e.TotalSupply
      /\ g \in EmissionFields(g.heap, g.validators)
  BY <1>4, <1>5 DEF IsEmission, EmissionFields
<1>7. /\ DOMAIN g.heap = 1 .. k /\ DOMAIN g.heap = DOMAIN e.heap \cup {ref}
      /\ g.heap[ref] = v
      /\ \A r \in DOMAIN e.heap \ {ref} : g.heap[r] = e.heap[r]
  BY <1>3, <1>6 DEF Put, k, ref
<1>8. g.heap \in [1 .. k -> {g.heap[r] : r \in 1 .. k}]
  BY <1>6, <1>7 DEF Put
<1>9. \A r \in DOMAIN g.heap : IsValidator(g.heap[r])
  BY <1>2, <1>7 DEF IsEmission
<1>10. /\ DOMAIN g.validators = DOMAIN e.validators \cup {n}
       /\ g.validators[n] = ref
       /\ \A m \in DOMAIN e.validators \ {n} : g.validators[m] = e.validators[m]
  BY <1>6 DEF Put
<1>11. \A m \in DOMAIN e.validators \ {n} : e.validators[m] \in DOMAIN e.heap \ {ref}
  BY <1>3 DEF IsEmission, IsMap, ref, HasValidator
<1>12. IsMap(g.validators, NodeIDs, DOMAIN g.heap)
  BY <1>6, <1>7, <1>10, <1>11 DEF IsEmission, IsMap, Put
<1>13. \A m \in DOMAIN e.validators \ {n} : ValidatorOf(g, m) = ValidatorOf(e, m)
  BY <1>7, <1>10, <1>11 DEF ValidatorOf
<1>14. ValidatorOf(g, n) = v
  BY <1>7, <1>10 DEF ValidatorOf
<1>15. \A m \in DOMAIN g.validators : g.heap[g.validators[m]].NodeID = m
  BY <1>2, <1>10, <1>13, <1>14 DEF ValidatorOf, IsEmission
<1>16. IsEmission(g)
  BY <1>6, <1>8, <1>9, <1>12, <1>15 DEF IsEmission
<1>17. known => old.delegators = ValidatorOf(e, n).delegators
  BY DEF old, ref, ValidatorOf
<1> QED BY <1>2, <1>6, <1>10, <1>13, <1>14, <1>16, <1>17 DEF g

\* WithdrawValidatorStake takes the stake of the node, and nothing else.
LEMMA WithdrawType ==
  ASSUME NEW e, IsEmission(e), NEW n, HasValidator(e, n)
  PROVE  LET g == WithdrawValidatorStake(e, n)
         IN /\ IsEmission(g)
            /\ g.TotalSupply = e.TotalSupply
            /\ g.validators = e.validators
            /\ ValidatorOf(g, n).delegators = ValidatorOf(e, n).delegators
            /\ \A m \in DOMAIN e.validators \ {n} :
                 ValidatorOf(g, m) = ValidatorOf(e, m)
<1> DEFINE v == ValidatorOf(e, n)
           w == [v EXCEPT !.AccumulatedStakedReward = 0,
                          !.IsActive = FALSE, !.StakedAmount = 0]
<1>1. IsValidator(v) /\ v.NodeID = n
  BY ValidatorOfType DEF HasValidator
<1> HIDE DEF v
<1>2. IsValidator(w) /\ w.NodeID = n /\ w.delegators = v.delegators
  BY <1>1, ZeroType DEF IsValidator
<1>3. WithdrawValidatorStake(e, n) = WithValidator(e, n, w)
  BY DEF WithdrawValidatorStake, v
<1> HIDE DEF w
<1>4. n \in DOMAIN e.validators
  BY DEF HasValidator
<1> QED BY <1>2, <1>3, <1>4, WithValidatorType DEF v

\* DelegateUserStake adds one delegator, with the terms it was given.
LEMMA DelegateType ==
  ASSUME NEW e, IsEmission(e), NEW n, NEW a \in Addresses, HasValidator(e, n),
         NEW s \in Heights, NEW t \in Heights, NEW x \in Uint64
  PROVE  LET g == DelegateUserStake(e, n, a, s, t, x)
             d == NewDelegator(s, t, x)
         IN /\ IsEmission(g)
            /\ g.TotalSupply = e.TotalSupply
            /\ g.validators = e.validators
            /\ ValidatorOf(g, n).StakedAmount = ValidatorOf(e, n).StakedAmount
            /\ ValidatorOf(g, n).delegators = Put(ValidatorOf(e, n).delegators, a, d)
            /\ \A m \in DOMAIN e.validators \ {n} :
                 ValidatorOf(g, m) = ValidatorOf(e, m)
<1> DEFINE v == ValidatorOf(e, n)
           d == NewDelegator(s, t, x)
           p == Put(v.delegators, a, d)
           w == [v EXCEPT !.delegators = p]
           q == WithValidator(e, n, w)
           g == DelegateUserStake(e, n, a, s, t, x)
<1>1. IsValidator(v) /\ v.NodeID = n /\ n \in DOMAIN e.validators /\ n \in NodeIDs
  BY ValidatorOfType DEF HasValidator, IsEmission, IsMap
<1>2. g = [q EXCEPT !.delegatorActivationEvents = @ \cup {<<s, n, a>>},
                    !.delegatorDeactivationEvents = @ \cup {<<t, n, a>>}]
  BY DEF DelegateUserStake
<1> HIDE DEF v, g
<1>3. d \in Delegator
  BY DEF Delegator, NewDelegator
<1>4. IsMap(p, Addresses, Delegator)
  BY <1>1, <1>3, PutType DEF IsValidator
<1> HIDE DEF p
<1>5. IsValidator(w) /\ w.NodeID = n /\ w.StakedAmount = v.StakedAmount /\ w.delegators = p
  BY <1>1, <1>4 DEF IsValidator
<1> HIDE DEF w
<1>6. /\ IsEmission(q) /\ q.validators = e.validators /\ q.TotalSupply = e.TotalSupply
      /\ ValidatorOf(q, n) = w
      /\ \A m \in DOMAIN e.validators \ {n} : ValidatorOf(q, m) = ValidatorOf(e, m)
  BY <1>1, <1>5, WithValidatorType
<1> HIDE DEF q
<1>7. /\ {<<s, n, a>>} \subseteq Heights \X NodeIDs \X Addresses
      /\ {<<t, n, a>>} \subseteq Heights \X NodeIDs \X Addresses
  BY <1>1
<1>8. /\ g.heap = q.heap /\ g.validators = q.validators /\ g.allocated = q.allocated
      /\ g.TotalSupply = q.TotalSupply
      /\ g \in EmissionFields(g.heap, g.validators)
  BY <1>2, <1>6, <1>7 DEF IsEmission, EmissionFields
<1>9. IsEmission(g)
  BY <1>6, <1>8 DEF IsEmission
<1>10. \A m : ValidatorOf(g, m) = ValidatorOf(q, m)
  BY <1>8 DEF ValidatorOf
<1> QED BY <1>5, <1>6, <1>8, <1>9, <1>10 DEF g, v, p

\* UndelegateUserStake removes one delegator; it drops the validator only if
\* that has no stake and no other delegator.
LEMMA UndelegateType ==
  ASSUME NEW e, IsEmission(e), NEW n, NEW a, HasDelegator(e, n, a)
  PROVE  LET g == UndelegateUserStake(e, n, a)
         IN /\ IsEmission(g)
            /\ g.TotalSupply = e.TotalSupply
            /\ \A m \in DOMAIN e.validators \ {n} :
                 HasValidator(g, m) /\ ValidatorOf(g, m) = ValidatorOf(e, m)
            /\ \/ /\ HasValidator(g, n)
                  /\ ValidatorOf(g, n).StakedAmount = ValidatorOf(e, n).StakedAmount
                  /\ ValidatorOf(g, n).delegators = Delete(ValidatorOf(e, n).delegators, a)
               \/ /\ ValidatorOf(e, n).StakedAmount = 0
                  /\ DOMAIN ValidatorOf(e, n).delegators = {a}
<1> DEFINE v == ValidatorOf(e, n)
           p == Delete(v.delegators, a)
           x == Wrap(v.AccumulatedDelegatedReward - UndelegateReward(e, n, a))
           w == [v EXCEPT !.AccumulatedDelegatedReward = x, !.delegators = p]
           q == WithValidator(e, n, w)
           g == UndelegateUserStake(e, n, a)
           gone == ~ w.IsActive /\ w.StakedAmount = 0 /\ DOMAIN w.delegators = {}
           rest == IF gone THEN Delete(q.validators, n) ELSE q.validators
<1>1. IsValidator(v) /\ v.NodeID = n /\ n \in DOMAIN e.validators /\ a \in DOMAIN v.delegators
  BY ValidatorOfType DEF HasDelegator, HasValidator
<1>2. g = [q EXCEPT !.validators = rest]
  BY DEF UndelegateUserStake
<1>3. x \in Uint64
  BY WrapType
<1> HIDE DEF v, g, x
<1>4. IsMap(p, Addresses, Delegator) /\ DOMAIN p = DOMAIN v.delegators \ {a}
  BY <1>1 DEF IsValidator, IsMap, Delete
<1> HIDE DEF p
<1>5. IsValidator(w) /\ w.NodeID = n /\ w.StakedAmount = v.StakedAmount /\ w.delegators = p
  BY <1>1, <1>3, <1>4 DEF IsValidator
<1> HIDE DEF w
<1>6. /\ IsEmission(q) /\ q.validators = e.validators /\ q.TotalSupply = e.TotalSupply
      /\ ValidatorOf(q, n) = w
      /\ \A m \in DOMAIN e.validators \ {n} : ValidatorOf(q, m) = ValidatorOf(e, m)
  BY <1>1, <1>5, WithValidatorType
<1> HIDE DEF q
<1>7. /\ IsMap(rest, NodeIDs, DOMAIN q.heap)
      /\ DOMAIN q.validators \ {n} \subseteq DOMAIN rest
      /\ DOMAIN rest \subseteq DOMAIN q.validators
      /\ \A m \in DOMAIN rest : rest[m] = q.validators[m]
      /\ ~ gone => n \in DOMAIN rest
  BY <1>1, <1>6 DEF IsEmission, IsMap, Delete
<1> HIDE DEF rest
<1>8. /\ g.heap = q.heap /\ g.validators = rest /\ g.allocated = q.allocated
      /\ g.TotalSupply = q.TotalSupply
      /\ g \in EmissionFields(g.heap, g.validators)
  BY <1>2, <1>6 DEF IsEmission, EmissionFields
<1>9. IsEmission(g)
  BY <1>6, <1>7, <1>8 DEF IsEmission
<1>10. \A m \in DOMAIN rest : HasValidator(g, m) /\ ValidatorOf(g, m) = ValidatorOf(q, m)
  BY <1>7, <1>8 DEF ValidatorOf, HasValidator
<1>11. gone => v.StakedAmount = 0 /\ DOMAIN v.delegators = {a}
  BY <1>1, <1>4, <1>5
<1>12. \A m \in DOMAIN e.validators \ {n} :
         HasValidator(g, m) /\ ValidatorOf(g, m) = ValidatorOf(e, m)
  BY <1>6, <1>7, <1>10
<1>13. ~ gone => HasValidator(g, n) /\ ValidatorOf(g, n) = w
  BY <1>6, <1>7, <1>10
<1> QED BY <1>5, <1>6, <1>8, <1>9, <1>11, <1>12, <1>13 DEF g, v, p

\* A claim touches the reward pools only.
LEMMA ClaimType ==
  ASSUME NEW e, IsEmission(e), NEW n, HasValidator(e, n)
  PROVE  /\ LET g == ClaimValidatorRewards(e, n)
            IN IsEmission(g) /\ SameTerms(e, g) /\ g.TotalSupply = e.TotalSupply
         /\ \A a : LET g == ClaimDelegatorRewards(e, n, a)
                   IN IsEmission(g) /\ SameTerms(e, g) /\ g.TotalSupply = e.TotalSupply
<1> DEFINE v == ValidatorOf(e, n)
<1>1. /\ IsValidator(v) /\ v.NodeID = n /\ n \in DOMAIN e.validators
      /\ e.validators[n] \in DOMAIN e.heap /\ v = e.heap[e.validators[n]]
  BY ValidatorOfType DEF HasValidator, IsEmission, IsMap, ValidatorOf
<1> HIDE DEF v
<1>2. ASSUME NEW w, IsValidator(w), w.NodeID = n, w.StakedAmount = v.StakedAmount,
             w.delegators = v.delegators
      PROVE  LET g == WithValidator(e, n, w)
             IN IsEmission(g) /\ SameTerms(e, g) /\ g.TotalSupply = e.TotalSupply
  <2> DEFINE g == WithValidator(e, n, w)
  <2>1. g.heap = [e.heap EXCEPT ![e.validators[n]] = w]
    BY DEF WithValidator, IsEmission, EmissionFields
  <2>2. IsEmission(g) /\ g.TotalSupply = e.TotalSupply /\ g.validators = e.validators
    BY <1>1, <1>2, WithValidatorType
  <2> HIDE DEF g
  <2>3. /\ DOMAIN g.heap = DOMAIN e.heap
        /\ g.heap[e.validators[n]] = w
        /\ \A r \in DOMAIN e.heap \ {e.validators[n]} : g.heap[r] = e.heap[r]
    BY <1>1, <2>1 DEF IsEmission
  <2>4. SameTerms(e, g)
    BY <1>1, <1>2, <2>2, <2>3 DEF SameTerms
  <2> QED BY <2>2, <2>4 DEF g
<1>3. ASSUME NEW x \in Uint64
      PROVE  LET w == [v EXCEPT !.AccumulatedStakedReward = x]
             IN /\ IsValidator(w) /\ w.NodeID = n /\ w.StakedAmount = v.StakedAmount
                /\ w.delegators = v.delegators
  BY <1>1 DEF IsValidator
<1>4. ASSUME NEW x \in Uint64
      PROVE  LET w == [v EXCEPT !.AccumulatedDelegatedReward = x]
             IN /\ IsValidator(w) /\ w.NodeID = n /\ w.StakedAmount = v.StakedAmount
                /\ w.delegators = v.delegators
  BY <1>1 DEF IsValidator
<1>5. LET g == ClaimValidatorRewards(e, n)
      IN IsEmission(g) /\ SameTerms(e, g) /\ g.TotalSupply = e.TotalSupply
  BY <1>2, <1>3, ZeroType DEF ClaimValidatorRewards, v
<1>6. ASSUME NEW a
      PROVE  LET g == ClaimDelegatorRewards(e, n, a)
             IN IsEmission(g) /\ SameTerms(e, g) /\ g.TotalSupply = e.TotalSupply
  BY <1>2, <1>4, WrapType DEF ClaimDelegatorRewards, v
<1> QED BY <1>5, <1>6

-----------------------------------------------------------------------------

\* The first stage of processEvents changes no terms.
LEMMA ActivateValidatorsType ==
  ASSUME NEW e, IsEmission(e), NEW h
  PROVE  LET g == ActivateValidators(e, h)
         IN IsEmission(g) /\ SameTerms(e, g) /\ g.TotalSupply = e.TotalSupply
<1> DEFINE g == ActivateValidators(e, h)
           S == {r \in DOMAIN e.heap : <<h, r>> \in e.activationEvents /\ ~ e.heap[r].IsActive}
           H == [r \in DOMAIN e.heap |->
                   IF r \in S THEN [e.heap[r] EXCEPT !.IsActive = TRUE] ELSE e.heap[r]]
           E == {ev \in e.activationEvents : ev[1] # h}
<1>1. PICK T \in Uint64 :
        g = [e EXCEPT !.heap = H, !.TotalStaked = T, !.activationEvents = E]
  BY WrapType DEF ActivateValidators
<1>2. ASSUME NEW r \in DOMAIN e.heap
      PROVE  LET v == e.heap[r]
                 w == H[r]
             IN /\ IsValidator(w) /\ w.NodeID = v.NodeID
                /\ w.StakedAmount = v.StakedAmount /\ w.delegators = v.delegators
  <2>1. IsValidator(e.heap[r])
    BY DEF IsEmission
  <2>2. H[r] = [e.heap[r] EXCEPT !.IsActive = TRUE] \/ H[r] = e.heap[r]
    OBVIOUS
  <2> QED BY <2>1, <2>2 DEF IsValidator
<1>3. H \in [DOMAIN e.heap -> {H[r] : r \in DOMAIN e.heap}]
  OBVIOUS
<1> HIDE DEF g, H
<1>4. /\ g.heap = H /\ g.validators = e.validators /\ g.allocated = e.allocated
      /\ g.TotalSupply = e.TotalSupply
      /\ g \in EmissionFields(g.heap, g.validators)
  BY <1>1 DEF IsEmission, EmissionFields
<1>5. IsEmission(g)
  BY <1>2, <1>3, <1>4, RewriteType
<1>6. SameTerms(e, g)
  BY <1>2, <1>3, <1>4 DEF SameTerms
<1> QED BY <1>4, <1>5, <1>6 DEF g

\* Nor does the second.
LEMMA DeactivateValidatorsType ==
  ASSUME NEW e, IsEmission(e), NEW h
  PROVE  LET g == DeactivateValidators(e, h)
         IN IsEmission(g) /\ SameTerms(e, g) /\ g.TotalSupply = e.TotalSupply
<1> DEFINE g == DeactivateValidators(e, h)
           S == {r \in DOMAIN e.heap : <<h, r>> \in e.deactivationEvents /\ e.heap[r].IsActive}
           H == [r \in DOMAIN e.heap |->
                   IF r \in S THEN [e.heap[r] EXCEPT !.IsActive = FALSE] ELSE e.heap[r]]
           E == {ev \in e.deactivationEvents : ev[1] # h}
<1>1. PICK T \in Uint64 :
        g = [e EXCEPT !.heap = H, !.TotalStaked = T, !.deactivationEvents = E]
  BY WrapType DEF DeactivateValidators
<1>2. ASSUME NEW r \in DOMAIN e.heap
      PROVE  LET v == e.heap[r]
                 w == H[r]
             IN /\ IsValidator(w) /\ w.NodeID = v.NodeID
                /\ w.StakedAmount = v.StakedAmount /\ w.delegators = v.delegators
  <2>1. IsValidator(e.heap[r])
    BY DEF IsEmission
  <2>2. H[r] = [e.heap[r] EXCEPT !.IsActive = FALSE] \/ H[r] = e.heap[r]
    OBVIOUS
  <2> QED BY <2>1, <2>2 DEF IsValidator
<1>3. H \in [DOMAIN e.heap -> {H[r] : r \in DOMAIN e.heap}]
  OBVIOUS
<1> HIDE DEF g, H
<1>4. /\ g.heap = H /\ g.validators = e.validators /\ g.allocated = e.allocated
      /\ g.TotalSupply = e.TotalSupply
      /\ g \in EmissionFields(g.heap, g.validators)
  BY <1>1 DEF IsEmission, EmissionFields
<1>5. IsEmission(g)
  BY <1>2, <1>3, <1>4, RewriteType
<1>6. SameTerms(e, g)
  BY <1>2, <1>3, <1>4 DEF SameTerms
<1> QED BY <1>4, <1>5, <1>6 DEF g

\* Flipping the activity of some delegators changes no other term.
LEMMA SetActiveType ==
  ASSUME NEW m, IsMap(m, Addresses, Delegator), NEW who, NEW flag \in BOOLEAN
  PROVE  LET w == SetActive(m, who, flag)
         IN /\ IsMap(w, Addresses, Delegator)
            /\ DOMAIN w = DOMAIN m
            /\ \A a \in DOMAIN m : /\ w[a].StakedAmount = m[a].StakedAmount
                                  /\ w[a].StakeStartBlock = m[a].StakeStartBlock
                                  /\ w[a].StakeEndBlock = m[a].StakeEndBlock
<1> DEFINE w == SetActive(m, who, flag)
<1>1. w = [a \in DOMAIN m |-> IF a \in who THEN [m[a] EXCEPT !.IsActive = flag] ELSE m[a]]
  BY DEF SetActive
<1> HIDE DEF w
<1>2. ASSUME NEW a \in DOMAIN m
      PROVE  /\ w[a] \in Delegator
             /\ w[a].StakedAmount = m[a].StakedAmount
             /\ w[a].StakeStartBlock = m[a].StakeStartBlock
             /\ w[a].StakeEndBlock = m[a].StakeEndBlock
  <2>1. m[a] \in Delegator
    BY DEF IsMap
  <2>2. w[a] = [m[a] EXCEPT !.IsActive = flag] \/ w[a] = m[a]
    BY <1>1
  <2> QED BY <2>1, <2>2 DEF Delegator
<1>3. DOMAIN w = DOMAIN m /\ w \in [DOMAIN m -> Delegator]
  BY <1>1, <1>2
<1> QED BY <1>2, <1>3 DEF IsMap, w

\* Nor does the third.
LEMMA ActivateDelegatorsType ==
  ASSUME NEW e, IsEmission(e), NEW h
  PROVE  LET g == ActivateDelegators(e, h)
         IN IsEmission(g) /\ SameTerms(e, g) /\ g.TotalSupply = e.TotalSupply
<1> DEFINE g == ActivateDelegators(e, h)
           E == {ev \in e.delegatorActivationEvents : ev[1] # h}
           D(r) == SetActive(e.heap[r].delegators, Starting(e, h, r), TRUE)
           F(r, x) == [e.heap[r] EXCEPT !.delegators = D(r), !.DelegatedAmount = x]
<1>1. /\ \E T \in Uint64 :
           g = [e EXCEPT !.heap = g.heap, !.TotalStaked = T, !.delegatorActivationEvents = E]
      /\ g.heap \in [DOMAIN e.heap -> {g.heap[r] : r \in DOMAIN e.heap}]
      /\ \A r \in DOMAIN e.heap :
           g.heap[r] = e.heap[r] \/ \E x \in Uint64 : g.heap[r] = F(r, x)
  BY WrapType DEF ActivateDelegators, IsEmission, EmissionFields
<1> HIDE DEF g
<1>2. /\ g.validators = e.validators /\ g.allocated = e.allocated
      /\ g.TotalSupply = e.TotalSupply
      /\ g \in EmissionFields(g.heap, g.validators)
  <2>1. PICK T \in Uint64 :
          g = [e EXCEPT !.heap = g.heap, !.TotalStaked = T, !.delegatorActivationEvents = E]
    BY <1>1
  <2>2. E \subseteq e.delegatorActivationEvents
    OBVIOUS
  <2> HIDE DEF E
  <2> QED BY <2>1, <2>2 DEF IsEmission, EmissionFields
<1>3. ASSUME NEW r \in DOMAIN e.heap
      PROVE  LET v == e.heap[r]
                 w == g.heap[r]
             IN /\ IsValidator(w) /\ w.NodeID = v.NodeID
                /\ w.StakedAmount = v.StakedAmount
                /\ w.delegators = v.delegators \/ w.delegators = D(r)
  <2>1. IsValidator(e.heap[r])
    BY DEF IsEmission
  <2>2. IsMap(D(r), Addresses, Delegator)
    BY <2>1, SetActiveType DEF IsValidator
  <2> HIDE DEF D
  <2>3. CASE g.heap[r] = e.heap[r]
    BY <2>1, <2>3
  <2>4. CASE \E x \in Uint64 : g.heap[r] = F(r, x)
    <3>1. PICK x \in Uint64 : g.heap[r] = F(r, x)
      BY <2>4
    <3>2. /\ g.heap[r].delegators = D(r) /\ g.heap[r].NodeID = e.heap[r].NodeID
          /\ g.heap[r].StakedAmount = e.heap[r].StakedAmount
      BY <2>1, <3>1 DEF IsValidator
    <3>3. IsValidator(g.heap[r])
      BY <2>1, <2>2, <3>1 DEF IsValidator
    <3> QED BY <3>2, <3>3
  <2> QED BY <1>1, <2>3, <2>4
<1>4. IsEmission(g)
  <2>1. \A r \in DOMAIN e.heap : /\ IsValidator(g.heap[r])
                                 /\ g.heap[r].NodeID = e.heap[r].NodeID
    BY <1>3
  <2>2. g.heap \in [DOMAIN e.heap -> {g.heap[r] : r \in DOMAIN e.heap}]
    BY <1>1
  <2> QED BY <1>2, <2>1, <2>2, RewriteType
<1>5. SameTerms(e, g)
  <2>1. \A r \in DOMAIN e.heap : IsMap(e.heap[r].delegators, Addresses, Delegator)
    BY DEF IsEmission, IsValidator
  <2>2. DOMAIN g.heap = DOMAIN e.heap
    BY <1>1
  <2>3. ASSUME NEW r \in DOMAIN e.heap
        PROVE  LET c == e.heap[r].delegators
                   d == g.heap[r].delegators
               IN /\ DOMAIN d = DOMAIN c
                  /\ \A a \in DOMAIN c :
                       /\ d[a].StakedAmount = c[a].StakedAmount
                       /\ d[a].StakeStartBlock = c[a].StakeStartBlock
                       /\ d[a].StakeEndBlock = c[a].StakeEndBlock
    <3>1. LET c == e.heap[r].delegators
          IN /\ DOMAIN D(r) = DOMAIN c
             /\ \A a \in DOMAIN c : /\ D(r)[a].StakedAmount = c[a].StakedAmount
                                   /\ D(r)[a].StakeStartBlock = c[a].StakeStartBlock
                                   /\ D(r)[a].StakeEndBlock = c[a].StakeEndBlock
      BY <2>1, SetActiveType
    <3>2. g.heap[r].delegators = e.heap[r].delegators \/ g.heap[r].delegators = D(r)
      BY <1>3
    <3> HIDE DEF D
    <3> QED BY <3>1, <3>2
  <2>4. \A r \in DOMAIN e.heap : /\ g.heap[r].NodeID = e.heap[r].NodeID
                                 /\ g.heap[r].StakedAmount = e.heap[r].StakedAmount
    BY <1>3
  <2> QED BY <1>2, <2>2, <2>3, <2>4 DEF SameTerms
<1> QED BY <1>2, <1>4, <1>5 DEF g

\* Nor does the fourth.
LEMMA DeactivateDelegatorsType ==
  ASSUME NEW e, IsEmission(e), NEW h
  PROVE  LET g == DeactivateDelegators(e, h)
         IN IsEmission(g) /\ SameTerms(e, g) /\ g.TotalSupply = e.TotalSupply
<1> DEFINE g == DeactivateDelegators(e, h)
           E == {ev \in e.delegatorDeactivationEvents : ev[1] # h}
           D(r) == SetActive(e.heap[r].delegators, Ending(e, h, r), FALSE)
           F(r, x) == [e.heap[r] EXCEPT !.delegators = D(r), !.DelegatedAmount = x]
<1>1. /\ \E T \in Uint64 :
           g = [e EXCEPT !.heap = g.heap, !.TotalStaked = T, !.delegatorDeactivationEvents = E]
      /\ g.heap \in [DOMAIN e.heap -> {g.heap[r] : r \in DOMAIN e.heap}]
      /\ \A r \in DOMAIN e.heap :
           g.heap[r] = e.heap[r] \/ \E x \in Uint64 : g.heap[r] = F(r, x)
  BY WrapType DEF DeactivateDelegators, IsEmission, EmissionFields
<1> HIDE DEF g
<1>2. /\ g.validators = e.validators /\ g.allocated = e.allocated
      /\ g.TotalSupply = e.TotalSupply
      /\ g \in EmissionFields(g.heap, g.validators)
  <2>1. PICK T \in Uint64 :
          g = [e EXCEPT !.heap = g.heap, !.TotalStaked = T, !.delegatorDeactivationEvents = E]
    BY <1>1
  <2>2. E \subseteq e.delegatorDeactivationEvents
    OBVIOUS
  <2> HIDE DEF E
  <2> QED BY <2>1, <2>2 DEF IsEmission, EmissionFields
<1>3. ASSUME NEW r \in DOMAIN e.heap
      PROVE  LET v == e.heap[r]
                 w == g.heap[r]
             IN /\ IsValidator(w) /\ w.NodeID = v.NodeID
                /\ w.StakedAmount = v.StakedAmount
                /\ w.delegators = v.delegators \/ w.delegators = D(r)
  <2>1. IsValidator(e.heap[r])
    BY DEF IsEmission
  <2>2. IsMap(D(r), Addresses, Delegator)
    BY <2>1, SetActiveType DEF IsValidator
  <2> HIDE DEF D
  <2>3. CASE g.heap[r] = e.heap[r]
    BY <2>1, <2>3
  <2>4. CASE \E x \in Uint64 : g.heap[r] = F(r, x)
    <3>1. PICK x \in Uint64 : g.heap[r] = F(r, x)
      BY <2>4
    <3>2. /\ g.heap[r].delegators = D(r) /\ g.heap[r].NodeID = e.heap[r].NodeID
          /\ g.heap[r].StakedAmount = e.heap[r].StakedAmount
      BY <2>1, <3>1 DEF IsValidator
    <3>3. IsValidator(g.heap[r])
      BY <2>1, <2>2, <3>1 DEF IsValidator
    <3> QED BY <3>2, <3>3
  <2> QED BY <1>1, <2>3, <2>4
<1>4. IsEmission(g)
  <2>1. \A r \in DOMAIN e.heap : /\ IsValidator(g.heap[r])
                                 /\ g.heap[r].NodeID = e.heap[r].NodeID
    BY <1>3
  <2>2. g.heap \in [DOMAIN e.heap -> {g.heap[r] : r \in DOMAIN e.heap}]
    BY <1>1
  <2> QED BY <1>2, <2>1, <2>2, RewriteType
<1>5. SameTerms(e, g)
  <2>1. \A r \in DOMAIN e.heap : IsMap(e.heap[r].delegators, Addresses, Delegator)
    BY DEF IsEmission, IsValidator
  <2>2. DOMAIN g.heap = DOMAIN e.heap
    BY <1>1
  <2>3. ASSUME NEW r \in DOMAIN e.heap
        PROVE  LET c == e.heap[r].delegators
                   d == g.heap[r].delegators
               IN /\ DOMAIN d = DOMAIN c
                  /\ \A a \in DOMAIN c :
                       /\ d[a].StakedAmount = c[a].StakedAmount
                       /\ d[a].StakeStartBlock = c[a].StakeStartBlock
                       /\ d[a].StakeEndBlock = c[a].StakeEndBlock
    <3>1. LET c == e.heap[r].delegators
          IN /\ DOMAIN D(r) = DOMAIN c
             /\ \A a \in DOMAIN c : /\ D(r)[a].StakedAmount = c[a].StakedAmount
                                   /\ D(r)[a].StakeStartBlock = c[a].StakeStartBlock
                                   /\ D(r)[a].StakeEndBlock = c[a].StakeEndBlock
      BY <2>1, SetActiveType
    <3>2. g.heap[r].delegators = e.heap[r].delegators \/ g.heap[r].delegators = D(r)
      BY <1>3
    <3> HIDE DEF D
    <3> QED BY <3>1, <3>2
  <2>4. \A r \in DOMAIN e.heap : /\ g.heap[r].NodeID = e.heap[r].NodeID
                                 /\ g.heap[r].StakedAmount = e.heap[r].StakedAmount
    BY <1>3
  <2> QED BY <1>2, <2>2, <2>3, <2>4 DEF SameTerms
<1> QED BY <1>2, <1>4, <1>5 DEF g

\* Processing the events of a height changes no terms.
LEMMA ProcessEventsType ==
  ASSUME NEW e, IsEmission(e), NEW h
  PROVE  LET g == processEvents(e, h)
         IN IsEmission(g) /\ SameTerms(e, g) /\ g.TotalSupply = e.TotalSupply
<1> DEFINE e1 == ActivateValidators(e, h)
           e2 == DeactivateValidators(e1, h)
           e3 == ActivateDelegators(e2, h)
           e4 == DeactivateDelegators(e3, h)
<1>1. IsEmission(e1) /\ SameTerms(e, e1) /\ e1.TotalSupply = e.TotalSupply
  BY ActivateValidatorsType
<1> HIDE DEF e1
<1>2. IsEmission(e2) /\ SameTerms(e1, e2) /\ e2.TotalSupply = e1.TotalSupply
  BY <1>1, DeactivateValidatorsType
<1> HIDE DEF e2
<1>3. IsEmission(e3) /\ SameTerms(e2, e3) /\ e3.TotalSupply = e2.TotalSupply
  BY <1>2, ActivateDelegatorsType
<1> HIDE DEF e3
<1>4. IsEmission(e4) /\ SameTerms(e3, e4) /\ e4.TotalSupply = e3.TotalSupply
  BY <1>3, DeactivateDelegatorsType
<1> HIDE DEF e4
<1>5. processEvents(e, h) = e4
  BY DEF processEvents, e1, e2, e3, e4
<1>6. SameTerms(e, e4)
  BY <1>1, <1>2, <1>3, <1>4, SameTermsTransitive
<1> QED BY <1>1, <1>2, <1>3, <1>4, <1>5, <1>6

-----------------------------------------------------------------------------
\* A reward or a fee credited to a validator touches its rewards only.
LEMMA CreditType ==
  ASSUME NEW v, IsValidator(v), NEW amount, NEW distributed, NEW epoch \in Epochs
  PROVE  \A w \in {CreditReward(v, amount, epoch), CreditFee(v, amount, distributed)} :
           /\ IsValidator(w) /\ w.NodeID = v.NodeID
           /\ w.StakedAmount = v.StakedAmount /\ w.delegators = v.delegators
<1> DEFINE d == DelegationRewards(v, amount)
           rewards == Put(v.epochRewards, epoch, d)
           amounts == Put(v.delegatedAmountPerEpoch, epoch, v.DelegatedAmount)
<1>1. d \in Uint64
  BY FloatType, ZeroType DEF DelegationRewards
<1>2. v.DelegatedAmount \in Uint64
  BY DEF IsValidator
<1>3. IsMap(rewards, Epochs, Uint64) /\ IsMap(amounts, Epochs, Uint64)
  BY <1>1, <1>2 DEF IsValidator, IsMap, Put
<1>4. \E x, y \in Uint64 :
        CreditReward(v, amount, epoch) =
          [v EXCEPT !.AccumulatedStakedReward = x, !.epochRewards = rewards,
                    !.delegatedAmountPerEpoch = amounts,
                    !.AccumulatedDelegatedReward = y]
  BY WrapType DEF CreditReward
<1>5. \E x \in Uint64 :
        CreditFee(v, amount, distributed) = [v EXCEPT !.AccumulatedStakedReward = x]
  BY WrapType DEF CreditFee
<1> HIDE DEF rewards, amounts
<1>6. ASSUME NEW x \in Uint64, NEW y \in Uint64
      PROVE  LET w == [v EXCEPT !.AccumulatedStakedReward = x, !.epochRewards = rewards,
                                !.delegatedAmountPerEpoch = amounts,
                                !.AccumulatedDelegatedReward = y]
             IN /\ IsValidator(w) /\ w.NodeID = v.NodeID
                /\ w.StakedAmount = v.StakedAmount /\ w.delegators = v.delegators
  BY <1>3 DEF IsValidator
<1>7. ASSUME NEW x \in Uint64
      PROVE  LET w == [v EXCEPT !.AccumulatedStakedReward = x]
             IN /\ IsValidator(w) /\ w.NodeID = v.NodeID
                /\ w.StakedAmount = v.StakedAmount /\ w.delegators = v.delegators
  BY DEF IsValidator
<1>8. LET w == CreditReward(v, amount, epoch)
      IN /\ IsValidator(w) /\ w.NodeID = v.NodeID
         /\ w.StakedAmount = v.StakedAmount /\ w.delegators = v.delegators
  <2>1. PICK x, y \in Uint64 :
          CreditReward(v, amount, epoch) =
            [v EXCEPT !.AccumulatedStakedReward = x, !.epochRewards = rewards,
                      !.delegatedAmountPerEpoch = amounts,
                      !.AccumulatedDelegatedReward = y]
    BY <1>4
  <2> DEFINE z == [v EXCEPT !.AccumulatedStakedReward = x, !.epochRewards = rewards,
                            !.delegatedAmountPerEpoch = amounts,
                            !.AccumulatedDelegatedReward = y]
  <2>2. /\ IsValidator(z) /\ z.NodeID = v.NodeID
        /\ z.StakedAmount = v.StakedAmount /\ z.delegators = v.delegators
    BY <1>6
  <2> HIDE DEF z
  <2>3. CreditReward(v, amount, epoch) = z
    BY <2>1 DEF z
  <2> QED BY <2>2, <2>3
<1>9. LET w == CreditFee(v, amount, distributed)
      IN /\ IsValidator(w) /\ w.NodeID = v.NodeID
         /\ w.StakedAmount = v.StakedAmount /\ w.delegators = v.delegators
  <2>1. PICK x \in Uint64 :
          CreditFee(v, amount, distributed) = [v EXCEPT !.AccumulatedStakedReward = x]
    BY <1>5
  <2> QED BY <2>1, <1>7
<1> QED BY <1>8, <1>9

\* distributeValidatorRewardsOrFees changes no terms and no supply.
LEMMA DistributeType ==
  ASSUME NEW e, IsEmission(e), NEW total, NEW isReward \in BOOLEAN,
         NEW h \in Heights, NEW order
  PROVE  LET g == distributeValidatorRewardsOrFees(e, total, isReward, h, order)
         IN IsEmission(g) /\ SameTerms(e, g) /\ g.TotalSupply = e.TotalSupply
<1> DEFINE g == distributeValidatorRewardsOrFees(e, total, isReward, h, order)
           amount(r) == TotalValidatorAmount(e, e.heap[r], total)
           upTo(r) == DistributedUpTo(e, total, order, e.heap[r].NodeID)
           epoch == h \div EpochLength
<1>1. /\ g = [e EXCEPT !.heap = g.heap]
      /\ g.heap \in [DOMAIN e.heap -> {g.heap[r] : r \in DOMAIN e.heap}]
      /\ \A r \in DOMAIN e.heap :
           g.heap[r] \in {e.heap[r], CreditReward(e.heap[r], amount(r), epoch),
                         CreditFee(e.heap[r], amount(r), upTo(r))}
  BY DEF distributeValidatorRewardsOrFees, IsEmission, EmissionFields
<1>2. epoch \in Epochs
  BY DEF Epochs
<1> HIDE DEF g, amount, upTo, epoch
<1>3. /\ g.validators = e.validators /\ g.allocated = e.allocated
      /\ g.TotalSupply = e.TotalSupply
      /\ g \in EmissionFields(g.heap, g.validators)
  BY <1>1 DEF IsEmission, EmissionFields
<1>4. ASSUME NEW r \in DOMAIN e.heap
      PROVE  LET v == e.heap[r]
                 w == g.heap[r]
             IN /\ IsValidator(w) /\ w.NodeID = v.NodeID
                /\ w.StakedAmount = v.StakedAmount /\ w.delegators = v.delegators
  <2>1. IsValidator(e.heap[r])
    BY DEF IsEmission
  <2>2. \A w \in {CreditReward(e.heap[r], amount(r), epoch),
                   CreditFee(e.heap[r], amount(r), upTo(r))} :
           /\ IsValidator(w) /\ w.NodeID = e.heap[r].NodeID
           /\ w.StakedAmount = e.heap[r].StakedAmount
           /\ w.delegators = e.heap[r].delegators
    BY <1>2, <2>1, CreditType
  <2>3. g.heap[r] \in {e.heap[r], CreditReward(e.heap[r], amount(r), epoch),
                       CreditFee(e.heap[r], amount(r), upTo(r))}
    BY <1>1
  <2> QED BY <2>1, <2>2, <2>3
<1>5. IsEmission(g)
  BY <1>1, <1>3, <1>4, RewriteType
<1>6. SameTerms(e, g)
  BY <1>1, <1>3, <1>4 DEF SameTerms
<1> QED BY <1>3, <1>5, <1>6 DEF g

\* Replacing the supply or the EmissionAccount's reward changes nothing else.
LEMMA SupplyType ==
  ASSUME NEW e, IsEmission(e), NEW x \in Uint64
  PROVE  /\ LET g == [e EXCEPT !.TotalSupply = x]
            IN IsEmission(g) /\ SameTerms(e, g) /\ g.TotalSupply = x
         /\ LET g == [e EXCEPT !.AccumulatedReward = x]
            IN IsEmission(g) /\ SameTerms(e, g) /\ g.TotalSupply = e.TotalSupply
<1> DEFINE g == [e EXCEPT !.TotalSupply = x]
           k == [e EXCEPT !.AccumulatedReward = x]
<1>1. /\ g.heap = e.heap /\ g.validators = e.validators /\ g.allocated = e.allocated
      /\ g.TotalSupply = x
      /\ g \in EmissionFields(g.heap, g.validators)
  BY DEF IsEmission, EmissionFields
<1>2. /\ k.heap = e.heap /\ k.validators = e.validators /\ k.allocated = e.allocated
      /\ k.TotalSupply = e.TotalSupply
      /\ k \in EmissionFields(k.heap, k.validators)
  BY DEF IsEmission, EmissionFields
<1> HIDE DEF g, k
<1>3. IsEmission(g) /\ SameTerms(e, g)
  BY <1>1 DEF IsEmission, SameTerms
<1>4. IsEmission(k) /\ SameTerms(e, k)
  BY <1>2 DEF IsEmission, SameTerms
<1> QED BY <1>1, <1>2, <1>3, <1>4 DEF g, k

\* MintNewNAI changes no terms; without a mint it leaves the supply alone.
LEMMA MintType ==
  ASSUME NEW e, IsEmission(e), NEW h \in Heights, NEW order
  PROVE  LET g == MintNewNAI(e, h, order)
         IN /\ IsEmission(g) /\ SameTerms(e, g)
            /\ MintedNAI(e, h) \in Uint64
            /\ MintedNAI(e, h) = 0 => g.TotalSupply = e.TotalSupply
<1> DEFINE p == processEvents(e, h)
           d == distributeValidatorRewardsOrFees(p, GetRewardsPerEpoch(p), TRUE, h, order)
           x == Wrap(d.TotalSupply + MintedNAI(e, h))
           k == [d EXCEPT !.TotalSupply = x]
           g == MintNewNAI(e, h, order)
<1>1. IsEmission(p) /\ SameTerms(e, p) /\ p.TotalSupply = e.TotalSupply
  BY ProcessEventsType
<1>2. MintedNAI(e, h) \in Uint64
  BY WrapType, ZeroType DEF MintedNAI, ActualDistributedAmount
<1>3. g = k \/ (g = p /\ MintedNAI(e, h) = 0)
  BY DEF MintNewNAI, MintedNAI
<1> HIDE DEF p, g
<1>4. IsEmission(d) /\ SameTerms(p, d) /\ d.TotalSupply = p.TotalSupply
  BY <1>1, DistributeType
<1>5. x \in Uint64
  BY WrapType
<1> HIDE DEF d
<1>6. MintedNAI(e, h) = 0 => x = d.TotalSupply
  <2>1. d.TotalSupply \in Uint64
    BY <1>4 DEF IsEmission, EmissionFields
  <2>2. d.TotalSupply \in Nat /\ d.TotalSupply < Word
    BY <2>1, EmissionAssumption DEF Uint64
  <2> QED BY <2>2, EmissionAssumption DEF Wrap
<1> HIDE DEF x
<1>7. IsEmission(k) /\ SameTerms(d, k) /\ k.TotalSupply = x
  BY <1>4, <1>5, SupplyType
<1> HIDE DEF k
<1>8. SameTerms(e, d) /\ SameTerms(e, k)
  BY <1>1, <1>4, <1>7, SameTermsTransitive
<1>9. /\ IsEmission(g) /\ SameTerms(e, g)
      /\ MintedNAI(e, h) = 0 => g.TotalSupply = e.TotalSupply
  BY <1>1, <1>3, <1>4, <1>6, <1>7, <1>8
<1> QED BY <1>2, <1>9 DEF g

\* DistributeFees changes no terms and no supply.
LEMMA FeesType ==
  ASSUME NEW e, IsEmission(e), NEW total, NEW h \in Heights, NEW order
  PROVE  LET g == DistributeFees(e, total, h, order)
         IN IsEmission(g) /\ SameTerms(e, g) /\ g.TotalSupply = e.TotalSupply
<1> DEFINE g == DistributeFees(e, total, h, order)
           p == processEvents(e, h)
           fee == IF Wrap(p.TotalSupply + total) > MaxSupply
                    THEN Wrap(MaxSupply - p.TotalSupply) ELSE total
           x == Wrap(p.AccumulatedReward + fee \div 2)
           q == [p EXCEPT !.AccumulatedReward = x]
           d == distributeValidatorRewardsOrFees(q, fee - fee \div 2, FALSE, h, order)
<1>1. IsEmission(p) /\ SameTerms(e, p) /\ p.TotalSupply = e.TotalSupply
  BY ProcessEventsType
<1>2. g = q \/ g = d
  BY DEF DistributeFees
<1> HIDE DEF p, fee, g
<1>3. x \in Uint64
  BY WrapType
<1> HIDE DEF x
<1>4. IsEmission(q) /\ SameTerms(p, q) /\ q.TotalSupply = p.TotalSupply
  BY <1>1, <1>3, SupplyType
<1> HIDE DEF q
<1>5. IsEmission(d) /\ SameTerms(q, d) /\ d.TotalSupply = q.TotalSupply
  BY <1>4, DistributeType
<1> HIDE DEF d
<1>6. SameTerms(e, q) /\ SameTerms(e, d)
  BY <1>1, <1>4, <1>5, SameTermsTransitive
<1>7. IsEmission(g) /\ SameTerms(e, g) /\ g.TotalSupply = e.TotalSupply
  BY <1>1, <1>2, <1>4, <1>5, <1>6
<1> QED BY <1>7 DEF g

\* AddToTotalSupply ends at or below the cap from wherever it starts: when the
\* supply is already above it, the difference wraps and the sum wraps back.
LEMMA AddToTotalSupplyType ==
  ASSUME NEW e, IsEmission(e), NEW amount \in Uint64
  PROVE  LET g == AddToTotalSupply(e, amount)
         IN IsEmission(g) /\ SameTerms(e, g) /\ g.TotalSupply <= MaxSupply
<1> DEFINE T == e.TotalSupply
           added == IF Wrap(T + amount) > MaxSupply
                      THEN Wrap(MaxSupply - T) ELSE amount
           x == Wrap(T + added)
<1>1. T \in Uint64
  BY DEF IsEmission, EmissionFields
<1>2. AddToTotalSupply(e, amount) = [e EXCEPT !.TotalSupply = x]
  BY DEF AddToTotalSupply
<1> HIDE DEF T
<1>3. x <= MaxSupply
  <2>1. CASE Wrap(T + amount) > MaxSupply
    <3>1. T + Wrap(MaxSupply - T) = MaxSupply \/ T + Wrap(MaxSupply - T) = MaxSupply + Word
      BY <1>1, EmissionAssumption DEF Wrap, Uint64
    <3>2. Wrap(MaxSupply) = MaxSupply /\ Wrap(MaxSupply + Word) = MaxSupply
      BY EmissionAssumption DEF Wrap, Uint64
    <3>3. x = Wrap(T + Wrap(MaxSupply - T))
      BY <2>1
    <3> QED BY <3>1, <3>2, <3>3, EmissionAssumption DEF Uint64
  <2>2. CASE ~ (Wrap(T + amount) > MaxSupply)
    <3>1. x = Wrap(T + amount)
      BY <2>2
    <3> QED BY <2>2, <3>1, WrapType, EmissionAssumption DEF Uint64
  <2> QED BY <2>1, <2>2
<1>4. x \in Uint64
  BY WrapType
<1> HIDE DEF x
<1> DEFINE g == [e EXCEPT !.TotalSupply = x]
<1>5. IsEmission(g) /\ SameTerms(e, g) /\ g.TotalSupply = x
  BY <1>4, SupplyType
<1> HIDE DEF g
<1>6. IsEmission(g) /\ SameTerms(e, g) /\ g.TotalSupply <= MaxSupply
  BY <1>3, <1>5
<1> QED BY <1>2, <1>6 DEF g

-----------------------------------------------------------------------------
(* Who is active, and when.                                               *)

\* f books the same delegators as e, active or not, and waits for the same
\* ends; a validator that e does not have has no delegators yet.
SameActivity(e, f) ==
  /\ f.delegatorDeactivationEvents = e.delegatorDeactivationEvents
  /\ \A n \in DOMAIN f.validators :
       \/ /\ n \in DOMAIN e.validators
          /\ ValidatorOf(f, n).delegators = ValidatorOf(e, n).delegators
          /\ ValidatorOf(f, n).DelegatedAmount = ValidatorOf(e, n).DelegatedAmount
       \/ /\ DOMAIN ValidatorOf(f, n).delegators = {}
          /\ ValidatorOf(f, n).DelegatedAmount = 0

\* SameActivity is transitive.
LEMMA SameActivityTransitive ==
  ASSUME NEW e, NEW f, NEW g, SameActivity(e, f), SameActivity(f, g)
  PROVE  SameActivity(e, g)
  BY DEF SameActivity

\* Objects that are rewritten in place and keep their delegators.
LEMMA RewriteActivity ==
  ASSUME NEW e, IsEmission(e), NEW f, f.validators = e.validators,
         f.delegatorDeactivationEvents = e.delegatorDeactivationEvents,
         \A r \in DOMAIN e.heap :
           /\ f.heap[r].delegators = e.heap[r].delegators
           /\ f.heap[r].DelegatedAmount = e.heap[r].DelegatedAmount
  PROVE  SameActivity(e, f)
<1>1. \A n \in DOMAIN e.validators : e.validators[n] \in DOMAIN e.heap
  BY DEF IsEmission, IsMap
<1> QED BY <1>1 DEF SameActivity, ValidatorOf

\* One object that is replaced and keeps its delegators.
LEMMA WithActivity ==
  ASSUME NEW e, IsEmission(e), NEW n \in DOMAIN e.validators,
         NEW v, IsValidator(v), v.NodeID = n,
         v.delegators = ValidatorOf(e, n).delegators,
         v.DelegatedAmount = ValidatorOf(e, n).DelegatedAmount
  PROVE  SameActivity(e, WithValidator(e, n, v))
<1> DEFINE w == WithValidator(e, n, v)
<1>1. w.delegatorDeactivationEvents = e.delegatorDeactivationEvents
  BY DEF WithValidator, IsEmission, EmissionFields
<1>2. /\ w.validators = e.validators /\ ValidatorOf(w, n) = v
      /\ \A m \in DOMAIN e.validators \ {n} : ValidatorOf(w, m) = ValidatorOf(e, m)
  BY WithValidatorType
<1> HIDE DEF w
<1> QED BY <1>1, <1>2 DEF SameActivity, w

\* Registration.
LEMMA RegisterActivity ==
  ASSUME NEW e, IsEmission(e), NEW n \in NodeIDs, NEW s \in Heights,
         NEW t \in Heights, NEW x \in Uint64, NEW f \in Percent
  PROVE  SameActivity(e, RegisterValidatorStake(e, n, s, t, x, f))
<1> DEFINE g   == RegisterValidatorStake(e, n, s, t, x, f)
           known == HasValidator(e, n)
           ref == IF known THEN e.validators[n] ELSE e.allocated + 1
           old == IF known THEN e.heap[ref] ELSE NewValidator(n)
           v   == [old EXCEPT !.IsActive = TRUE, !.StakedAmount = x,
                              !.DelegationFeeRate = f]
<1>1. IsValidator(old)
  <2>1. CASE known
    BY <2>1, ValidatorOfType DEF HasValidator, ValidatorOf
  <2>2. CASE ~ known
    BY <2>2, EmptyMapType, ZeroType DEF NewValidator, Percent, IsValidator
  <2> QED BY <2>1, <2>2
<1>2. \/ known /\ old = ValidatorOf(e, n)
      \/ DOMAIN old.delegators = {} /\ old.DelegatedAmount = 0
  BY EmptyMapType DEF NewValidator, ValidatorOf
<1> HIDE DEF old
<1>3. v.delegators = old.delegators /\ v.DelegatedAmount = old.DelegatedAmount
  BY <1>1 DEF IsValidator
<1> HIDE DEF v
<1>4. /\ DOMAIN g.validators = DOMAIN e.validators \cup {n}
      /\ \A m \in DOMAIN e.validators \ {n} : ValidatorOf(g, m) = ValidatorOf(e, m)
  BY RegisterType
<1>5. /\ g.delegatorDeactivationEvents = e.delegatorDeactivationEvents
      /\ g.heap = Put(e.heap, ref, v) /\ g.validators = Put(e.validators, n, ref)
  BY DEF RegisterValidatorStake, v, old, IsEmission, EmissionFields
<1> HIDE DEF g, ref
<1>6. ValidatorOf(g, n) = v
  BY <1>5 DEF ValidatorOf, Put
<1> QED BY <1>2, <1>3, <1>4, <1>5, <1>6 DEF SameActivity, HasValidator, g

\* Withdrawal and claims.
LEMMA PayActivity ==
  ASSUME NEW e, IsEmission(e), NEW n, HasValidator(e, n)
  PROVE  /\ SameActivity(e, WithdrawValidatorStake(e, n))
         /\ SameActivity(e, ClaimValidatorRewards(e, n))
         /\ \A a : SameActivity(e, ClaimDelegatorRewards(e, n, a))
<1> DEFINE v == ValidatorOf(e, n)
<1>1. IsValidator(v) /\ v.NodeID = n /\ n \in DOMAIN e.validators
  BY ValidatorOfType DEF HasValidator
<1> HIDE DEF v
<1>2. LET w == [v EXCEPT !.AccumulatedStakedReward = 0,
                         !.IsActive = FALSE, !.StakedAmount = 0]
      IN /\ IsValidator(w) /\ w.NodeID = n
         /\ w.delegators = v.delegators /\ w.DelegatedAmount = v.DelegatedAmount
  BY <1>1, ZeroType DEF IsValidator
<1>3. LET w == [v EXCEPT !.AccumulatedStakedReward = 0]
      IN /\ IsValidator(w) /\ w.NodeID = n
         /\ w.delegators = v.delegators /\ w.DelegatedAmount = v.DelegatedAmount
  BY <1>1, ZeroType DEF IsValidator
<1>4. ASSUME NEW x \in Uint64
      PROVE  LET w == [v EXCEPT !.AccumulatedDelegatedReward = x]
             IN /\ IsValidator(w) /\ w.NodeID = n
                /\ w.delegators = v.delegators /\ w.DelegatedAmount = v.DelegatedAmount
  BY <1>1 DEF IsValidator
<1>5. SameActivity(e, WithdrawValidatorStake(e, n))
  BY <1>1, <1>2, WithActivity DEF WithdrawValidatorStake, v
<1>6. SameActivity(e, ClaimValidatorRewards(e, n))
  BY <1>1, <1>3, WithActivity DEF ClaimValidatorRewards, v
<1>7. ASSUME NEW a PROVE SameActivity(e, ClaimDelegatorRewards(e, n, a))
  <2> DEFINE x == Wrap(v.AccumulatedDelegatedReward
                         - CalculateUserDelegationRewards(e, n, a))
             w == [v EXCEPT !.AccumulatedDelegatedReward = x]
  <2>1. x \in Uint64
    BY WrapType
  <2>2. ClaimDelegatorRewards(e, n, a) = WithValidator(e, n, w)
    BY DEF ClaimDelegatorRewards, v
  <2> HIDE DEF x
  <2>3. /\ IsValidator(w) /\ w.NodeID = n
        /\ w.delegators = v.delegators /\ w.DelegatedAmount = v.DelegatedAmount
    BY <1>4, <2>1
  <2> HIDE DEF w
  <2> QED BY <1>1, <2>2, <2>3, WithActivity DEF v
<1> QED BY <1>5, <1>6, <1>7

\* The first two stages of processEvents deal with validators.
LEMMA ValidatorStagesActivity ==
  ASSUME NEW e, IsEmission(e), NEW h
  PROVE  /\ SameActivity(e, ActivateValidators(e, h))
         /\ SameActivity(e, DeactivateValidators(e, h))
<1> DEFINE H(S, flag) ==
      [r \in DOMAIN e.heap |->
         IF r \in S THEN [e.heap[r] EXCEPT !.IsActive = flag] ELSE e.heap[r]]
<1>1. ASSUME NEW S, NEW flag \in BOOLEAN, NEW f, f.validators = e.validators,
             f.delegatorDeactivationEvents = e.delegatorDeactivationEvents,
             f.heap = H(S, flag)
      PROVE  SameActivity(e, f)
  <2>1. ASSUME NEW r \in DOMAIN e.heap
        PROVE  /\ H(S, flag)[r].delegators = e.heap[r].delegators
               /\ H(S, flag)[r].DelegatedAmount = e.heap[r].DelegatedAmount
    <3>1. IsValidator(e.heap[r])
      BY DEF IsEmission
    <3>2. H(S, flag)[r] = [e.heap[r] EXCEPT !.IsActive = flag] \/ H(S, flag)[r] = e.heap[r]
      OBVIOUS
    <3> HIDE DEF H
    <3> QED BY <3>1, <3>2 DEF IsValidator
  <2> HIDE DEF H
  <2> QED BY <1>1, <2>1, RewriteActivity
<1>2. SameActivity(e, ActivateValidators(e, h))
  <2> DEFINE f == ActivateValidators(e, h)
             S == {r \in DOMAIN e.heap : <<h, r>> \in e.activationEvents /\ ~ e.heap[r].IsActive}
  <2>1. /\ f.validators = e.validators
        /\ f.delegatorDeactivationEvents = e.delegatorDeactivationEvents
        /\ f.heap = H(S, TRUE)
    BY DEF ActivateValidators, IsEmission, EmissionFields
  <2> HIDE DEF f, S, H
  <2> QED BY <1>1, <2>1 DEF f
<1>3. SameActivity(e, DeactivateValidators(e, h))
  <2> DEFINE f == DeactivateValidators(e, h)
             S == {r \in DOMAIN e.heap : <<h, r>> \in e.deactivationEvents /\ e.heap[r].IsActive}
  <2>1. /\ f.validators = e.validators
        /\ f.delegatorDeactivationEvents = e.delegatorDeactivationEvents
        /\ f.heap = H(S, FALSE)
    BY DEF DeactivateValidators, IsEmission, EmissionFields
  <2> HIDE DEF f, S, H
  <2> QED BY <1>1, <2>1 DEF f
<1> QED BY <1>2, <1>3

\* A reward or a fee that is credited to one validator.
LEMMA CreditActivity ==
  ASSUME NEW v, IsValidator(v), NEW amount, NEW distributed, NEW epoch
  PROVE  \A w \in {CreditReward(v, amount, epoch), CreditFee(v, amount, distributed)} :
           w.delegators = v.delegators /\ w.DelegatedAmount = v.DelegatedAmount
  BY DEF IsValidator, CreditReward, CreditFee

\* Rewards or fees for all of them.
LEMMA DistributeActivity ==
  ASSUME NEW e, IsEmission(e), NEW total, NEW isReward, NEW h, NEW order
  PROVE  SameActivity(e, distributeValidatorRewardsOrFees(e, total, isReward, h, order))
<1> DEFINE g == distributeValidatorRewardsOrFees(e, total, isReward, h, order)
           amount(r) == TotalValidatorAmount(e, e.heap[r], total)
           upTo(r) == DistributedUpTo(e, total, order, e.heap[r].NodeID)
           epoch == h \div EpochLength
<1>1. /\ g.validators = e.validators
      /\ g.delegatorDeactivationEvents = e.delegatorDeactivationEvents
      /\ \A r \in DOMAIN e.heap :
           g.heap[r] \in {e.heap[r], CreditReward(e.heap[r], amount(r), epoch),
                         CreditFee(e.heap[r], amount(r), upTo(r))}
  BY DEF distributeValidatorRewardsOrFees, IsEmission, EmissionFields
<1> HIDE DEF g, amount, upTo, epoch
<1>2. ASSUME NEW r \in DOMAIN e.heap
      PROVE  /\ g.heap[r].delegators = e.heap[r].delegators
             /\ g.heap[r].DelegatedAmount = e.heap[r].DelegatedAmount
  <2>1. IsValidator(e.heap[r])
    BY DEF IsEmission
  <2>2. \A w \in {CreditReward(e.heap[r], amount(r), epoch),
                   CreditFee(e.heap[r], amount(r), upTo(r))} :
           /\ w.delegators = e.heap[r].delegators
           /\ w.DelegatedAmount = e.heap[r].DelegatedAmount
    BY <2>1, CreditActivity
  <2> QED BY <1>1, <2>2
<1> QED BY <1>1, <1>2, RewriteActivity DEF g

\* The supply and the account of the balancer itself.
LEMMA SupplyActivity ==
  ASSUME NEW e, IsEmission(e), NEW x
  PROVE  /\ SameActivity(e, [e EXCEPT !.TotalSupply = x])
         /\ SameActivity(e, [e EXCEPT !.AccumulatedReward = x])
<1> DEFINE g == [e EXCEPT !.TotalSupply = x]
           k == [e EXCEPT !.AccumulatedReward = x]
<1>1. /\ g.heap = e.heap /\ g.validators = e.validators
      /\ g.delegatorDeactivationEvents = e.delegatorDeactivationEvents
      /\ k.heap = e.heap /\ k.validators = e.validators
      /\ k.delegatorDeactivationEvents = e.delegatorDeactivationEvents
  BY DEF IsEmission, EmissionFields
<1> HIDE DEF g, k
<1> QED BY <1>1, RewriteActivity DEF g, k

-----------------------------------------------------------------------------
\* At height h, with the events up to height k processed: an active delegator
\* has started and has not been forgotten at its end, and the end of one that
\* is active, or may still become so, is waited for.
Punctual(d, n, a, ends, h, k) ==
  /\ d.IsActive => d.StakeStartBlock <= h /\ k < d.StakeEndBlock
  /\ d.IsActive \/ h < d.StakeEndBlock => <<d.StakeEndBlock, n, a>> \in ends

Timely(e, h, k) ==
  \A n \in DOMAIN e.validators : \A a \in DOMAIN ValidatorOf(e, n).delegators :
    Punctual(ValidatorOf(e, n).delegators[a], n, a, e.delegatorDeactivationEvents, h, k)

\* What leaves the delegators alone leaves them punctual.
LEMMA SameActivityTimely ==
  ASSUME NEW e, NEW f, SameActivity(e, f), NEW h, NEW k, Timely(e, h, k)
  PROVE  Timely(f, h, k)
  BY DEF SameActivity, Timely

\* The next height is one whose events are not processed yet.
LEMMA NextHeightTimely ==
  ASSUME NEW e, IsEmission(e), NEW h \in Heights, Timely(e, h, h)
  PROVE  Timely(e, h + 1, h)
<1> SUFFICES ASSUME NEW n \in DOMAIN e.validators,
                    NEW a \in DOMAIN ValidatorOf(e, n).delegators
             PROVE  Punctual(ValidatorOf(e, n).delegators[a], n, a,
                             e.delegatorDeactivationEvents, h + 1, h)
  BY DEF Timely
<1> DEFINE d == ValidatorOf(e, n).delegators[a]
<1>1. d \in Delegator
  BY ValidatorOfType DEF IsValidator, IsMap
<1>2. Punctual(d, n, a, e.delegatorDeactivationEvents, h, h)
  BY DEF Timely
<1> HIDE DEF d
<1>3. d.StakeStartBlock \in Int /\ d.StakeEndBlock \in Int /\ h \in Int
  BY <1>1, EmissionAssumption DEF Delegator, Heights
<1>4. Punctual(d, n, a, e.delegatorDeactivationEvents, h + 1, h)
  BY <1>2, <1>3 DEF Punctual
<1> QED BY <1>4 DEF d

\* No delegators, nothing to be late for.
LEMMA NewTimely == \A t, h, k : Timely(New(t), h, k)
  BY EmptyMapType DEF Timely, New

\* A new delegator waits for its end.
LEMMA DelegateTimely ==
  ASSUME NEW e, IsEmission(e), NEW n, NEW a \in Addresses, HasValidator(e, n),
         NEW s \in Heights, NEW t \in Heights, NEW x \in Uint64,
         NEW h, NEW k, Timely(e, h, k)
  PROVE  Timely(DelegateUserStake(e, n, a, s, t, x), h, k)
<1> DEFINE g == DelegateUserStake(e, n, a, s, t, x)
           c == NewDelegator(s, t, x)
<1>1. /\ g.validators = e.validators
      /\ ValidatorOf(g, n).delegators = Put(ValidatorOf(e, n).delegators, a, c)
      /\ \A m \in DOMAIN e.validators \ {n} : ValidatorOf(g, m) = ValidatorOf(e, m)
  BY DelegateType
<1>2. g.delegatorDeactivationEvents = e.delegatorDeactivationEvents \cup {<<t, n, a>>}
  BY DEF DelegateUserStake, WithValidator, IsEmission, EmissionFields
<1>3. ~ c.IsActive /\ c.StakeEndBlock = t
  BY DEF NewDelegator
<1> HIDE DEF g, c
<1>4. ASSUME NEW d, NEW m, NEW b,
             Punctual(d, m, b, e.delegatorDeactivationEvents, h, k)
      PROVE  Punctual(d, m, b, g.delegatorDeactivationEvents, h, k)
  BY <1>2, <1>4 DEF Punctual
<1>5. Punctual(c, n, a, g.delegatorDeactivationEvents, h, k)
  BY <1>2, <1>3 DEF Punctual
<1>6. ASSUME NEW m \in DOMAIN g.validators, NEW b \in DOMAIN ValidatorOf(g, m).delegators
      PROVE  Punctual(ValidatorOf(g, m).delegators[b], m, b,
                      g.delegatorDeactivationEvents, h, k)
  <2>1. CASE m = n /\ b = a
    BY <1>1, <1>5, <2>1 DEF Put
  <2>2. CASE m # n \/ b # a
    <3>1. /\ m \in DOMAIN e.validators /\ b \in DOMAIN ValidatorOf(e, m).delegators
          /\ ValidatorOf(g, m).delegators[b] = ValidatorOf(e, m).delegators[b]
      BY <1>1, <1>6, <2>2 DEF Put
    <3>2. Punctual(ValidatorOf(e, m).delegators[b], m, b,
                   e.delegatorDeactivationEvents, h, k)
      BY <3>1 DEF Timely
    <3> QED BY <1>4, <3>1, <3>2
  <2> QED BY <2>1, <2>2
<1> QED BY <1>6 DEF Timely, g

\* The books of a validator that one of its delegators leaves.
LEMMA UndelegateBooks ==
  ASSUME NEW e, IsEmission(e), NEW n, NEW a, HasDelegator(e, n, a)
  PROVE  LET g == UndelegateUserStake(e, n, a)
         IN n \in DOMAIN g.validators =>
              /\ ValidatorOf(g, n).delegators = Delete(ValidatorOf(e, n).delegators, a)
              /\ ValidatorOf(g, n).DelegatedAmount = ValidatorOf(e, n).DelegatedAmount
<1> DEFINE v == ValidatorOf(e, n)
           p == Delete(v.delegators, a)
           x == Wrap(v.AccumulatedDelegatedReward - UndelegateReward(e, n, a))
           w == [v EXCEPT !.AccumulatedDelegatedReward = x, !.delegators = p]
           q == WithValidator(e, n, w)
           g == UndelegateUserStake(e, n, a)
           gone == ~ w.IsActive /\ w.StakedAmount = 0 /\ DOMAIN w.delegators = {}
<1>1. IsValidator(v) /\ v.NodeID = n /\ n \in DOMAIN e.validators
  BY ValidatorOfType DEF HasDelegator, HasValidator
<1>2. g = [q EXCEPT !.validators = IF gone THEN Delete(@, n) ELSE @]
  BY DEF UndelegateUserStake
<1>3. x \in Uint64
  BY WrapType
<1> HIDE DEF v, g, x
<1>4. IsMap(p, Addresses, Delegator)
  BY <1>1 DEF IsValidator, IsMap, Delete
<1> HIDE DEF p
<1>5. /\ IsValidator(w) /\ w.NodeID = n
      /\ w.delegators = p /\ w.DelegatedAmount = v.DelegatedAmount
  BY <1>1, <1>3, <1>4 DEF IsValidator
<1> HIDE DEF w
<1>6. IsEmission(q) /\ ValidatorOf(q, n) = w
  BY <1>1, <1>5, WithValidatorType
<1> HIDE DEF q
<1>7. g.heap = q.heap /\ (g.validators = q.validators \/ g.validators = Delete(q.validators, n))
  BY <1>2, <1>6 DEF IsEmission, EmissionFields
<1>8. n \in DOMAIN g.validators => ValidatorOf(g, n) = w
  BY <1>6, <1>7 DEF ValidatorOf, Delete
<1> QED BY <1>5, <1>8 DEF g, v, p

\* A delegator leaves; the others wait as before.
LEMMA UndelegateTimely ==
  ASSUME NEW e, IsEmission(e), NEW n, NEW a, HasDelegator(e, n, a),
         NEW h, NEW k, Timely(e, h, k)
  PROVE  Timely(UndelegateUserStake(e, n, a), h, k)
<1> DEFINE g == UndelegateUserStake(e, n, a)
<1>1. /\ g.delegatorDeactivationEvents = e.delegatorDeactivationEvents
      /\ DOMAIN g.validators \subseteq DOMAIN e.validators
  BY DEF UndelegateUserStake, WithValidator, IsEmission, EmissionFields, Delete
<1>2. \A m \in DOMAIN e.validators \ {n} : ValidatorOf(g, m) = ValidatorOf(e, m)
  BY UndelegateType
<1>3. n \in DOMAIN g.validators =>
        ValidatorOf(g, n).delegators = Delete(ValidatorOf(e, n).delegators, a)
  BY UndelegateBooks
<1> HIDE DEF g
<1>4. ASSUME NEW m \in DOMAIN g.validators, NEW b \in DOMAIN ValidatorOf(g, m).delegators
      PROVE  /\ m \in DOMAIN e.validators /\ b \in DOMAIN ValidatorOf(e, m).delegators
             /\ ValidatorOf(g, m).delegators[b] = ValidatorOf(e, m).delegators[b]
  BY <1>1, <1>2, <1>3 DEF Delete
<1> QED BY <1>1, <1>4 DEF Timely, g

\* What the third stage of processEvents does to a validator in the map.
LEMMA ActivateDelegatorsBooks ==
  ASSUME NEW e, IsEmission(e), NEW h
  PROVE  LET g == ActivateDelegators(e, h)
         IN /\ g.validators = e.validators
            /\ g.delegatorDeactivationEvents = e.delegatorDeactivationEvents
            /\ \A r \in DOMAIN e.heap :
                 IF IsLive(e, r)
                   THEN LET S == Starting(e, h, r)
                        IN /\ g.heap[r].delegators =
                                SetActive(e.heap[r].delegators, S, TRUE)
                           /\ g.heap[r].DelegatedAmount =
                                Wrap(e.heap[r].DelegatedAmount + StakeOf(e.heap[r], S))
                   ELSE g.heap[r] = e.heap[r]
<1> DEFINE g == ActivateDelegators(e, h)
           D(r) == SetActive(e.heap[r].delegators, Starting(e, h, r), TRUE)
           x(r) == Wrap(e.heap[r].DelegatedAmount + StakeOf(e.heap[r], Starting(e, h, r)))
<1>1. /\ g.validators = e.validators
      /\ g.delegatorDeactivationEvents = e.delegatorDeactivationEvents
      /\ \A r \in DOMAIN e.heap :
           g.heap[r] = IF IsLive(e, r)
                         THEN [e.heap[r] EXCEPT !.delegators = D(r), !.DelegatedAmount = x(r)]
                         ELSE e.heap[r]
  BY DEF ActivateDelegators, IsEmission, EmissionFields
<1> HIDE DEF g, D, x
<1>2. ASSUME NEW r \in DOMAIN e.heap, IsLive(e, r)
      PROVE  g.heap[r].delegators = D(r) /\ g.heap[r].DelegatedAmount = x(r)
  <2>1. IsValidator(e.heap[r])
    BY DEF IsEmission
  <2>2. g.heap[r] = [e.heap[r] EXCEPT !.delegators = D(r), !.DelegatedAmount = x(r)]
    BY <1>1, <1>2
  <2> QED BY <2>1, <2>2 DEF IsValidator
<1> QED BY <1>1, <1>2 DEF g, D, x

\* And the fourth.
LEMMA DeactivateDelegatorsBooks ==
  ASSUME NEW e, IsEmission(e), NEW h
  PROVE  LET g == DeactivateDelegators(e, h)
         IN /\ g.validators = e.validators
            /\ g.delegatorDeactivationEvents = {ev \in e.delegatorDeactivationEvents : ev[1] # h}
            /\ \A r \in DOMAIN e.heap :
                 IF IsLive(e, r)
                   THEN LET S == Ending(e, h, r)
                        IN /\ g.heap[r].delegators =
                                SetActive(e.heap[r].delegators, S, FALSE)
                           /\ g.heap[r].DelegatedAmount =
                                Wrap(e.heap[r].DelegatedAmount - StakeOf(e.heap[r], S))
                   ELSE g.heap[r] = e.heap[r]
<1> DEFINE g == DeactivateDelegators(e, h)
           D(r) == SetActive(e.heap[r].delegators, Ending(e, h, r), FALSE)
           x(r) == Wrap(e.heap[r].DelegatedAmount - StakeOf(e.heap[r], Ending(e, h, r)))
<1>1. /\ g.validators = e.validators
      /\ g.delegatorDeactivationEvents = {ev \in e.delegatorDeactivationEvents : ev[1] # h}
      /\ \A r \in DOMAIN e.heap :
           g.heap[r] = IF IsLive(e, r)
                         THEN [e.heap[r] EXCEPT !.delegators = D(r), !.DelegatedAmount = x(r)]
                         ELSE e.heap[r]
  BY DEF DeactivateDelegators, IsEmission, EmissionFields
<1> HIDE DEF g, D, x
<1>2. ASSUME NEW r \in DOMAIN e.heap, IsLive(e, r)
      PROVE  g.heap[r].delegators = D(r) /\ g.heap[r].DelegatedAmount = x(r)
  <2>1. IsValidator(e.heap[r])
    BY DEF IsEmission
  <2>2. g.heap[r] = [e.heap[r] EXCEPT !.delegators = D(r), !.DelegatedAmount = x(r)]
    BY <1>1, <1>2
  <2> QED BY <2>1, <2>2 DEF IsValidator
<1> QED BY <1>1, <1>2 DEF g, D, x

\* The third stage starts those whose window is open.
LEMMA ActivateTimely ==
  ASSUME NEW e, IsEmission(e), NEW h \in Heights, NEW k \in Int, k <= h, Timely(e, h, k)
  PROVE  Timely(ActivateDelegators(e, h), h, k)
<1> DEFINE g == ActivateDelegators(e, h)
           on(r) == Starting(e, h, r)
           D(r) == SetActive(e.heap[r].delegators, on(r), TRUE)
<1>1. /\ g.validators = e.validators
      /\ g.delegatorDeactivationEvents = e.delegatorDeactivationEvents
      /\ \A r \in DOMAIN e.heap :
           g.heap[r].delegators = e.heap[r].delegators \/ g.heap[r].delegators = D(r)
  BY ActivateDelegatorsBooks
<1> HIDE DEF g
<1> SUFFICES ASSUME NEW n \in DOMAIN g.validators,
                    NEW a \in DOMAIN ValidatorOf(g, n).delegators
             PROVE  Punctual(ValidatorOf(g, n).delegators[a], n, a,
                             e.delegatorDeactivationEvents, h, k)
  BY <1>1 DEF Timely, g
<1> DEFINE r == e.validators[n]
           c == e.heap[r].delegators[a]
           d == g.heap[r].delegators[a]
<1>2. r \in DOMAIN e.heap /\ ValidatorOf(g, n) = g.heap[r] /\ ValidatorOf(e, n) = e.heap[r]
  BY <1>1 DEF IsEmission, IsMap, ValidatorOf
<1>3. IsMap(e.heap[r].delegators, Addresses, Delegator)
  BY <1>2 DEF IsEmission, IsValidator
<1>4. a \in DOMAIN e.heap[r].delegators /\ c \in Delegator
  BY <1>1, <1>2, <1>3 DEF SetActive, IsMap
<1>5. Punctual(c, n, a, e.delegatorDeactivationEvents, h, k)
  BY <1>1, <1>2, <1>4 DEF Timely
<1>6. d = c \/ (a \in on(r) /\ d = [c EXCEPT !.IsActive = TRUE])
  BY <1>1, <1>2, <1>4 DEF SetActive
<1>7. a \in on(r) => c.StakeStartBlock <= h /\ h < c.StakeEndBlock
  BY DEF Starting
<1> HIDE DEF c, d, on
<1>8. CASE d = c
  BY <1>2, <1>5, <1>8 DEF d
<1>9. CASE a \in on(r) /\ d = [c EXCEPT !.IsActive = TRUE]
  <2>1. d.StakeStartBlock = c.StakeStartBlock /\ d.StakeEndBlock = c.StakeEndBlock
    BY <1>4, <1>9 DEF Delegator
  <2>2. c.StakeEndBlock \in Int /\ h \in Int
    BY <1>4, EmissionAssumption DEF Delegator, Heights
  <2>3. Punctual(d, n, a, e.delegatorDeactivationEvents, h, k)
    BY <1>5, <1>7, <1>9, <2>1, <2>2 DEF Punctual
  <2> QED BY <1>2, <2>3 DEF d
<1> QED BY <1>6, <1>8, <1>9

\* The fourth stage stops those whose window closes.
LEMMA DeactivateTimely ==
  ASSUME NEW e, IsEmission(e), NEW h \in Heights, Timely(e, h, h - 1)
  PROVE  Timely(DeactivateDelegators(e, h), h, h)
<1> DEFINE g == DeactivateDelegators(e, h)
           off(r) == Ending(e, h, r)
           D(r) == SetActive(e.heap[r].delegators, off(r), FALSE)
           ends == e.delegatorDeactivationEvents
           left == {ev \in ends : ev[1] # h}
<1>1. /\ g.validators = e.validators /\ g.delegatorDeactivationEvents = left
      /\ \A r \in DOMAIN e.heap : IsLive(e, r) => g.heap[r].delegators = D(r)
  BY DeactivateDelegatorsBooks
<1> HIDE DEF g
<1> SUFFICES ASSUME NEW n \in DOMAIN g.validators,
                    NEW a \in DOMAIN ValidatorOf(g, n).delegators
             PROVE  Punctual(ValidatorOf(g, n).delegators[a], n, a, left, h, h)
  BY <1>1 DEF Timely, g
<1> DEFINE r == e.validators[n]
           c == e.heap[r].delegators[a]
           d == g.heap[r].delegators[a]
<1>2. /\ r \in DOMAIN e.heap /\ ValidatorOf(g, n) = g.heap[r] /\ ValidatorOf(e, n) = e.heap[r]
      /\ e.heap[r].NodeID = n
  BY <1>1 DEF IsEmission, IsMap, ValidatorOf
<1>3. IsMap(e.heap[r].delegators, Addresses, Delegator)
  BY <1>2 DEF IsEmission, IsValidator
<1>4. g.heap[r].delegators = D(r)
  BY <1>1, <1>2 DEF IsLive, HasValidator
<1>5. a \in DOMAIN e.heap[r].delegators /\ c \in Delegator
  BY <1>2, <1>3, <1>4 DEF SetActive, IsMap
<1>6. Punctual(c, n, a, ends, h, h - 1)
  BY <1>1, <1>2, <1>5 DEF Timely
<1>7. d = IF a \in off(r) THEN [c EXCEPT !.IsActive = FALSE] ELSE c
  BY <1>4, <1>5 DEF SetActive
<1>8. a \in off(r) <=> /\ <<h, n, a>> \in ends
                       /\ c.StakeEndBlock <= h /\ c.IsActive
  BY <1>2, <1>5 DEF Ending
<1>9. \A t : <<t, n, a>> \in left <=> <<t, n, a>> \in ends /\ t # h
  OBVIOUS
<1> HIDE DEF c, d, off, left, ends
<1>10. c.StakeStartBlock \in Int /\ c.StakeEndBlock \in Int /\ h \in Int
  BY <1>5, EmissionAssumption DEF Delegator, Heights
<1>11. CASE a \in off(r)
  <2>1. ~ d.IsActive /\ d.StakeEndBlock = c.StakeEndBlock
    BY <1>5, <1>7, <1>11 DEF Delegator
  <2>2. Punctual(d, n, a, left, h, h)
    BY <1>8, <1>10, <1>11, <2>1 DEF Punctual
  <2> QED BY <1>2, <2>2 DEF d
<1>12. CASE a \notin off(r)
  <2>1. d = c
    BY <1>7, <1>12
  <2>2. c.IsActive => h < c.StakeEndBlock
    BY <1>6, <1>8, <1>10, <1>12 DEF Punctual
  <2>3. Punctual(c, n, a, left, h, h)
    BY <1>6, <1>9, <1>10, <2>2 DEF Punctual
  <2> QED BY <1>2, <2>1, <2>3 DEF d
<1> QED BY <1>11, <1>12

\* Processing the events of height h catches up with it.
LEMMA ProcessEventsTimely ==
  ASSUME NEW e, IsEmission(e), NEW h \in Heights, Timely(e, h, h - 1)
  PROVE  Timely(processEvents(e, h), h, h)
<1> DEFINE e1 == ActivateValidators(e, h)
           e2 == DeactivateValidators(e1, h)
           e3 == ActivateDelegators(e2, h)
           e4 == DeactivateDelegators(e3, h)
<1>1. IsEmission(e1) /\ SameActivity(e, e1)
  BY ActivateValidatorsType, ValidatorStagesActivity
<1> HIDE DEF e1
<1>2. IsEmission(e2) /\ SameActivity(e1, e2)
  BY <1>1, DeactivateValidatorsType, ValidatorStagesActivity
<1> HIDE DEF e2
<1>3. Timely(e2, h, h - 1)
  BY <1>1, <1>2, SameActivityTimely
<1>4. IsEmission(e3)
  BY <1>2, ActivateDelegatorsType
<1>5. h - 1 \in Int /\ h - 1 <= h
  BY EmissionAssumption DEF Heights
<1>6. Timely(e3, h, h - 1)
  BY <1>2, <1>3, <1>5, ActivateTimely
<1> HIDE DEF e3
<1>7. Timely(e4, h, h)
  BY <1>4, <1>6, DeactivateTimely
<1> QED BY <1>7 DEF processEvents, e1, e2, e3

\* After the events, MintNewNAI pays rewards and leaves the delegators alone.
LEMMA MintActivity ==
  ASSUME NEW e, IsEmission(e), NEW h \in Heights, NEW order
  PROVE  SameActivity(processEvents(e, h), MintNewNAI(e, h, order))
<1> DEFINE p == processEvents(e, h)
           d == distributeValidatorRewardsOrFees(p, GetRewardsPerEpoch(p), TRUE, h, order)
           x == Wrap(d.TotalSupply + MintedNAI(e, h))
           k == [d EXCEPT !.TotalSupply = x]
<1>1. IsEmission(p)
  BY ProcessEventsType
<1>2. MintNewNAI(e, h, order) = k \/ MintNewNAI(e, h, order) = p
  BY DEF MintNewNAI
<1> HIDE DEF p
<1>3. IsEmission(d) /\ SameActivity(p, d)
  BY <1>1, DistributeType, DistributeActivity
<1> HIDE DEF d, x
<1>4. SameActivity(d, k)
  BY <1>3, SupplyActivity
<1> HIDE DEF k
<1>5. SameActivity(p, k)
  BY <1>3, <1>4, SameActivityTransitive
<1>6. SameActivity(p, p)
  BY <1>1, RewriteActivity
<1> QED BY <1>2, <1>5, <1>6 DEF p

\* So does DistributeFees with fees.
LEMMA FeesActivity ==
  ASSUME NEW e, IsEmission(e), NEW total, NEW h \in Heights, NEW order
  PROVE  SameActivity(processEvents(e, h), DistributeFees(e, total, h, order))
<1> DEFINE p == processEvents(e, h)
           fee == IF Wrap(p.TotalSupply + total) > MaxSupply
                    THEN Wrap(MaxSupply - p.TotalSupply) ELSE total
           x == Wrap(p.AccumulatedReward + fee \div 2)
           q == [p EXCEPT !.AccumulatedReward = x]
           d == distributeValidatorRewardsOrFees(q, fee - fee \div 2, FALSE, h, order)
<1>1. IsEmission(p)
  BY ProcessEventsType
<1>2. DistributeFees(e, total, h, order) = q \/ DistributeFees(e, total, h, order) = d
  BY DEF DistributeFees
<1> HIDE DEF p, fee
<1>3. x \in Uint64
  BY WrapType
<1> HIDE DEF x
<1>4. IsEmission(q) /\ SameActivity(p, q)
  BY <1>1, <1>3, SupplyType, SupplyActivity
<1> HIDE DEF q
<1>5. SameActivity(q, d)
  BY <1>4, DistributeActivity
<1> HIDE DEF d
<1>6. SameActivity(p, d)
  BY <1>4, <1>5, SameActivityTransitive
<1> QED BY <1>2, <1>4, <1>6 DEF p

\* AddToTotalSupply touches the supply only.
LEMMA AddActivity ==
  ASSUME NEW e, IsEmission(e), NEW amount
  PROVE  SameActivity(e, AddToTotalSupply(e, amount))
<1> DEFINE added == IF Wrap(e.TotalSupply + amount) > MaxSupply
                      THEN Wrap(MaxSupply - e.TotalSupply) ELSE amount
           x == Wrap(e.TotalSupply + added)
<1>1. AddToTotalSupply(e, amount) = [e EXCEPT !.TotalSupply = x]
  BY DEF AddToTotalSupply
<1> HIDE DEF x
<1> QED BY <1>1, SupplyActivity

\* Being up to date is more than being one height behind.
LEMMA TimelyWeaker ==
  ASSUME NEW e, IsEmission(e), NEW h \in Heights, Timely(e, h, h)
  PROVE  Timely(e, h, h - 1)
<1> SUFFICES ASSUME NEW n \in DOMAIN e.validators,
                    NEW a \in DOMAIN ValidatorOf(e, n).delegators
             PROVE  Punctual(ValidatorOf(e, n).delegators[a], n, a,
                             e.delegatorDeactivationEvents, h, h - 1)
  BY DEF Timely
<1> DEFINE d == ValidatorOf(e, n).delegators[a]
<1>1. d \in Delegator
  BY ValidatorOfType DEF IsValidator, IsMap
<1>2. Punctual(d, n, a, e.delegatorDeactivationEvents, h, h)
  BY DEF Timely
<1> HIDE DEF d
<1>3. d.StakeEndBlock \in Int /\ h \in Int
  BY <1>1, EmissionAssumption DEF Delegator, Heights
<1>4. Punctual(d, n, a, e.delegatorDeactivationEvents, h, h - 1)
  BY <1>2, <1>3 DEF Punctual
<1> QED BY <1>4 DEF d
=============================================================================
