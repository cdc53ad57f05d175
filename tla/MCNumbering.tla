---------------------------- MODULE MCNumbering -----------------------------
(* Numbering on small instances. *)
EXTENDS Numbering, TLC

CONSTANTS p1, p2

Symmetry == Permutations(Workers) \union Permutations(Invoices)

\* The number the counter of p1 comes to first.
FirstNumber == {<<p1, 1>>}
=============================================================================
