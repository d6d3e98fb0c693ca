---------------------------- MODULE MCReplicas -----------------------------
(***************************************************************************)
(* A small instance of Replicas for TLC: an owner of two validators who    *)
(* also delegates, and another delegator.                                  *)
(***************************************************************************)
EXTENDS Replicas, TLC

CONSTANTS owner, user, n1, n2

MCBalance == [a \in Addresses |-> IF a = owner THEN 11 ELSE 6]

Symmetry == Permutations(NodeIDs)
=============================================================================
