----------------------------- MODULE MCIssuance -----------------------------
(* Issuance on small instances. *)
EXTENDS Issuance, TLC

Symmetry == Permutations(Workers)
=============================================================================
