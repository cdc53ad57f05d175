\* The user, the providers, a credit note and two pollers interleave freely.
CONSTANTS
  w1 = w1
  w2 = w2
  Workers = {w1, w2}
  Handlers = {"transmit", "mark_paid", "online_payment", "auto_cancel", "poll"}
  Faults = {"crash", "rejected", "timed_out", "no_flow_id", "nack"}
  Serialised = FALSE
  EreportingFlow = FALSE
  MaxQueued = 1
  Pollers = {w1, w2}
  MaxFlows = 1
  MaxEvents = 1
SPECIFICATION TransmissionSpec
CHECK_DEADLOCK FALSE
SYMMETRY Symmetry
INVARIANT BackedByThePA
INVARIANT PaymentKeptOnceIssued
