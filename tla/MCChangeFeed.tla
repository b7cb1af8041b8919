---------------------------- MODULE MCChangeFeed ----------------------------
(* ChangeFeed for TLC. *)
EXTENDS ChangeFeed, TLC

CONSTANTS p, q, a, b

MCSymmetry == Permutations(Plans) \cup Permutations(Txs)
=============================================================================
