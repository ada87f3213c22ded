------------------------ MODULE MCCallerKeyRotation ------------------------
(* Small instances of CallerKeyRotation for TLC. *)
EXTENDS CallerKeyRotation, TLC

Symmetry == Permutations(Clients)
=============================================================================
