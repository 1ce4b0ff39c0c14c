------------------------- MODULE MCSubscriptionSync -------------------------
(* Instances of SubscriptionSync for TLC.                                  *)
EXTENDS SubscriptionSync, TLC

Symmetry == Permutations(Subs) \cup Permutations(Handlers)
=============================================================================
