------------------------ MODULE MCCareerSubscription ------------------------
(* CareerSubscription with the symmetric sets of its instances.            *)
EXTENDS CareerSubscription, TLC

Symmetry == Permutations(Handlers) \cup Permutations(Rows \ {FreeRow}) \cup Permutations(Subs)
=============================================================================
