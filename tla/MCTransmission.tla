--------------------------- MODULE MCTransmission ---------------------------
(* Transmission on small instances. *)
EXTENDS Transmission, TLC

Symmetry == Permutations(Workers)
=============================================================================
