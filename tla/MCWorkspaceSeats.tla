-------------------------- MODULE MCWorkspaceSeats --------------------------
(* WorkspaceSeats with the symmetric sets of its instances.                *)
EXTENDS WorkspaceSeats, TLC

Symmetry == Permutations(Users \ {Founder}) \cup Permutations(Invitations)
                \cup Permutations(Transactions)
=============================================================================
