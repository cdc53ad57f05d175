------------------------- MODULE MCInvoiceLifecycle -------------------------
(* InvoiceLifecycle on small instances. *)
EXTENDS InvoiceLifecycle, TLC

Symmetry == Permutations(Workers)

\* Followed until a save is lost: what is checked here is silent after that.
WhileClean == clean
=============================================================================
