--------------------------- MODULE FlowDetection ----------------------------
(***************************************************************************)
(* Which of the flows of the French e-invoicing reform an invoice takes    *)
(* (apps/billing/services/flow_detector.py), and the type a customer is    *)
(* given when nobody chose one (customer_service.py).  A country code, or  *)
(* the prefix of a VAT number, counts for where it lies.                   *)
(***************************************************************************)

CustomerTypes == {"assujetti_fr", "intra_ue", "extra_ue", "particulier", "public"}

Flows == {"b2b_domestic", "b2b_intra_eu", "b2b_extra_eu", "b2c", "b2g"}

Places == {"", "FR", "EU", "other"}

\* What is known of a customer, or of the recipient of a payload.
Identities == [siren : BOOLEAN, vat : Places, country : Places]

BarValue ==
  [b2b_domestic |-> "B2B", b2c |-> "B2C", b2b_intra_eu |-> "B2BINT",
   b2b_extra_eu |-> "B2BINT", b2g |-> "B2B"]

ProcessingRule ==
  [b2b_domestic |-> "B2B", b2c |-> "B2C", b2b_intra_eu |-> "B2Bint",
   b2b_extra_eu |-> "B2Bint", b2g |-> "B2G"]

EreportingFlux == [b2b_intra_eu |-> "10.1", b2b_extra_eu |-> "10.1", b2c |-> "10.3"]

IsEreportingFlow(flow) == flow \in DOMAIN EreportingFlux

\* _flow_from_customer_type
FlowOfType ==
  [assujetti_fr |-> "b2b_domestic", intra_ue |-> "b2b_intra_eu",
   extra_ue |-> "b2b_extra_eu", particulier |-> "b2c", public |-> "b2g"]

\* A VAT number decides before the address does.
Seat(i) == IF i.vat # "" THEN i.vat ELSE i.country

\* enrich_customer_data: without a country, France.
SuggestCustomerType(i) ==
  CASE i.siren \/ Seat(i) \in {"", "FR"} -> "assujetti_fr"
    [] ~i.siren /\ Seat(i) = "EU"        -> "intra_ue"
    [] ~i.siren /\ Seat(i) = "other"     -> "extra_ue"

\* _detect_from_recipient, for an invoice without a customer's record.
DetectFromRecipient(i) ==
  CASE i.siren \/ i.vat = "FR"                               -> "b2b_domestic"
    [] ~i.siren /\ Seat(i) = "EU"                            -> "b2b_intra_eu"
    [] ~i.siren /\ Seat(i) = "other"                         -> "b2b_extra_eu"
    [] ~i.siren /\ i.vat = "" /\ i.country \in {"", "FR"}    -> "b2c"

\* detect_flow: the type of the linked customer, or what the data says ("" is no
\* customer).
DetectFlow(type, i) == IF type # "" THEN FlowOfType[type] ELSE DetectFromRecipient(i)
=============================================================================
