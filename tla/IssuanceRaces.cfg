\* Requests, Stripe and tasks interleave freely.
CONSTANTS
  Workers = {w1, w2}
  Handlers = {"edit", "delete", "validate", "record_payment", "preview", "ui"}
  Faults = {"crash", "rejected", "post_save"}
  Serialised = FALSE
  EreportingFlow = TRUE
  MaxQueued = 1
  MaxVersion = 2
  MaxNumber = 2
SPECIFICATION IssuanceSpec
CHECK_DEADLOCK FALSE
SYMMETRY Symmetry
INVARIANT IssuedComplete
