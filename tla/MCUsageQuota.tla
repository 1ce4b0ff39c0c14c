---------------------------- MODULE MCUsageQuota ----------------------------
(* Instances of UsageQuota for TLC.                                        *)
EXTENDS UsageQuota, TLC

Symmetry == Permutations(Requests) \cup Permutations(Servers)
=============================================================================
