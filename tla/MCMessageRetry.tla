--------------------------- MODULE MCMessageRetry ---------------------------
(* Instances of MessageRetry for TLC.                                      *)
EXTENDS MessageRetry, TLC

\* Copies, consumers and rows are interchangeable.
FaultSymmetry ==
    Permutations(Tokens) \cup Permutations(Consumers) \cup Permutations(Rows)
=============================================================================
