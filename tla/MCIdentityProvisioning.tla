----------------------- MODULE MCIdentityProvisioning -----------------------
(***************************************************************************)
(* Finite instances of IdentityProvisioning.                               *)
(***************************************************************************)
EXTENDS IdentityProvisioning, TLC

Symmetry == Permutations(Keys) \cup Permutations(Runs)

=============================================================================
