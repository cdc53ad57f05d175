\* A verdict is applied while the user marks the invoice as paid.
CONSTANTS
  w1 = w1
  w2 = w2
  Workers = {w1, w2}
  Handlers = {"transmit", "mark_paid", "poll"}
  Faults = {}
  Serialised = TRUE
  EreportingFlow = FALSE
  MaxQueued = 1
  Pollers = {w1}
  MaxFlows = 1
  MaxEvents = 2
SPECIFICATION TransmissionSpec
CHECK_DEADLOCK FALSE
PROPERTY PaidStays
