---------------------------- MODULE MCChallenge ----------------------------
(***************************************************************************)
(* Goroutines for TLC; any two of them are alike.                          *)
(***************************************************************************)
EXTENDS Challenge

CONSTANTS g1, g2, g3
=============================================================================
