------------------------- MODULE MCRequestAdmission -------------------------
(* A small instance of RequestAdmission for TLC.                           *)
EXTENDS RequestAdmission, TLC

Symmetry == Permutations(Requests)
=============================================================================
