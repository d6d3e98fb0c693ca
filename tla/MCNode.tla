------------------------------- MODULE MCNode -------------------------------
(***************************************************************************)
(* A small instance of Node for TLC.                                       *)
(***************************************************************************)
EXTENDS Node

CONSTANTS owner, user, n1

\* One account that owns a node and one that delegates: each can stake and take
\* back what it staked.
MCBalance == [a \in Addresses |-> 6]
=============================================================================
