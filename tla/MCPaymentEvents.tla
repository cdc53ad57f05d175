-------------------------- MODULE MCPaymentEvents ---------------------------
(* PaymentEvents on small instances. *)
EXTENDS PaymentEvents
=============================================================================
