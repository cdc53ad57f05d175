--------------------------- MODULE MCStripeImport ---------------------------
(* StripeImport on small instances. *)
EXTENDS StripeImport
=============================================================================
