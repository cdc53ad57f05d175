\* A Stripe payment arrives while the document is generated.
CONSTANTS
  Workers = {w1, w2}
  Handlers = {"validate", "record_payment"}
  Faults = {}
  Serialised = TRUE
  EreportingFlow = FALSE
  MaxQueued = 1
  MaxVersion = 1
  MaxNumber = 1
SPECIFICATION IssuanceSpec
CHECK_DEADLOCK FALSE
INVARIANT PaymentKept
