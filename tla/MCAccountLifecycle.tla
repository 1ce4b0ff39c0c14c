------------------------- MODULE MCAccountLifecycle -------------------------
(* A small instance of AccountLifecycle for TLC.                           *)
EXTENDS AccountLifecycle, TLC

Symmetry == Permutations(Transactions) \cup Permutations(Tokens) \cup Permutations(Codes)
=============================================================================
