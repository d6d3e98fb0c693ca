------------------------------ MODULE Replicas ------------------------------
(***************************************************************************)
(* Two nodes that execute the same block.  hypersdk runs the transactions  *)
(* of a block on TransactionExecutionCores threads and keeps two of them   *)
(* in order only when their actions' StateKeys overlap.  The balancer is   *)
(* shared by all staking actions and no state key stands for it.           *)
(*                                                                         *)
(* The nodes have the same past, so the variables of Staking do for both   *)
(* until a block begins with two transactions that have no key in common.  *)
(* The first node executes them in one order, the second in the other, and *)
(* then the nodes are compared.                                            *)
(***************************************************************************)
EXTENDS Transactions

VARIABLES
  em2,     \* the balancer of the second node
  view2,   \*   and its view of the chain state
  block2,  \*   and its processing block
  fork     \* what the nodes execute in different orders, how much of it they
           \*   have executed, and the balancer before

replicas == <<vars, em2, view2, block2, fork>>

Second == INSTANCE Transactions WITH em <- em2, view <- view2, block <- block2

NoFork == [phase |-> "together"]

ReplicasInit ==
  Init /\ em2 = em /\ view2 = view /\ block2 = block /\ fork = NoFork

\* A transaction that is refused changes nothing but the fee, and is left out;
\* one that could only succeed after the other shares the record that lets it.
Ready == {t \in Txs : Checks(t)}

\* Both nodes take the step of Staking.
InStep ==
  /\ fork = NoFork
  /\ \/ NewBlock \/ AcceptBlock \/ Accepted \/ Finished
     \/ block.processing /\ block.txs < MaxTxs /\ \E t \in Ready : Apply(t)
  /\ em2' = em' /\ view2' = view' /\ block2' = block'
  /\ UNCHANGED fork

Diverge ==
  /\ fork = NoFork
  /\ block.processing /\ block.txs + 2 <= MaxTxs
  /\ LET ready == Ready
     IN \E t, u \in ready :
          /\ StateKeys(t) \cap StateKeys(u) = {}
          /\ Apply(t) /\ Second!Apply(u)
          /\ fork' = [phase |-> "apart", first |-> t, second |-> u, before |-> em]

Converge ==
  /\ fork.phase = "apart"
  /\ Apply(fork.second) /\ Second!Apply(fork.first)
  /\ fork' = [fork EXCEPT !.phase = "met"]

\* Controller.Accepted distributes the fees of a block: each node ranges over its
\* map of validators in an order of its own.
FeesApart ==
  /\ fork = NoFork
  /\ AcceptedFees /\ Second!AcceptedFees
  /\ fork' = [phase |-> "fees"]

Compared == fork.phase \in {"met", "fees"} /\ UNCHANGED replicas

ReplicasNext ==
  InStep \/ Diverge \/ Converge \/ FeesApart \/ Compared

ReplicasSpec == ReplicasInit /\ [][ReplicasNext]_replicas

-----------------------------------------------------------------------------
(* Properties.                                                             *)

\* What a balancer has on a node, without the identity of its objects: the
\* validator, and the heights at which it starts and stops.
Book(e, n) ==
  [validator |-> ValidatorOf(e, n),
   starts |-> {h \in Heights : <<h, e.validators[n]>> \in e.activationEvents},
   ends |-> {h \in Heights : <<h, e.validators[n]>> \in e.deactivationEvents}]

SameBooks(e, f, nodes) ==
  \A n \in nodes :
    /\ HasValidator(e, n) <=> HasValidator(f, n)
    /\ HasValidator(e, n) => Book(e, n) = Book(f, n)

\* What a balancer has that is not about one node.
Common(e) ==
  <<e.TotalSupply, e.TotalStaked, e.AccumulatedReward,
    e.delegatorActivationEvents, e.delegatorDeactivationEvents>>

\* Both transactions pay delegators of one validator, whose pool cannot pay both.
PoolTooSmall ==
  LET paying == {"undelegate", "claimDelegation"}
      t == fork.first
      u == fork.second
      n == t.nodeID
      due(a) == CalculateUserDelegationRewards(fork.before, n, a)
  IN /\ t.kind \in paying /\ u.kind \in paying /\ u.nodeID = n
     /\ HasDelegator(fork.before, n, t.actor) /\ HasDelegator(fork.before, n, u.actor)
     /\ ValidatorOf(fork.before, n).AccumulatedDelegatedReward
          < due(t.actor) + due(u.actor)

\* The validator's last delegator leaves while the validator withdraws or comes
\* back: whether its object is dropped depends on who is first.
DropsValidator ==
  \E t, u \in {fork.first, fork.second} :
    /\ t.nodeID = u.nodeID
    /\ t.kind = "undelegate" /\ u.kind \in {"register", "withdraw"}
    /\ DOMAIN ValidatorOf(fork.before, t.nodeID).delegators = {t.actor}

\* Executing two transactions without a common state key in either order gives
\* the same chain state and the same books, although StateKeys leaves out the
\* balancer, except for two races: delegators paid from a pool that is too small
\* for both, and the removal of a validator, which the chain state does not show.
\* Even then the records of stakes and the books of other validators agree.
ReplicasAgree ==
  fork.phase = "met" =>
    /\ view2.registered = view.registered /\ view2.delegated = view.delegated
    /\ Common(em2) = Common(em)
    /\ SameBooks(em2, em, NodeIDs \ {fork.first.nodeID})
    /\ \/ view2 = view /\ SameBooks(em2, em, NodeIDs)
       \/ PoolTooSmall
       \/ DropsValidator /\ view2 = view

\* The nodes that receive fees.
Earning(e) == {n \in DOMAIN e.validators : ValidatorOf(e, n).IsActive}

\* Distributing the fees of a block in different orders of the map of validators
\* gives the same books, but for what validators have earned when two of them are
\* active: each of them is also paid what was distributed before it.
FeesAgree ==
  fork.phase = "fees" =>
    /\ Common(em2) = Common(em)
    /\ DOMAIN em2.validators = DOMAIN em.validators
    /\ \A n \in DOMAIN em.validators :
         \E x \in Uint64 :
           ValidatorOf(em2, n) = [ValidatorOf(em, n) EXCEPT !.AccumulatedStakedReward = x]
    /\ SameBooks(em2, em, NodeIDs) \/ Cardinality(Earning(em)) > 1
=============================================================================
