\* Requests that do not overlap, one poller, and workers that keep running.
CONSTANTS
  w1 = w1
  w2 = w2
  Workers = {w1, w2}
  Handlers = {"validate", "record_payment", "transmit", "poll"}
  Faults = {"rejected"}
  Serialised = TRUE
  EreportingFlow = TRUE
  MaxQueued = 1
  Pollers = {w1}
  MaxVersion = 2
  MaxNumber = 2
  MaxRetries = 1
  MaxFlows = 2
  MaxEvents = 3
SPECIFICATION FairLifecycleSpec
CHECK_DEADLOCK FALSE
INVARIANT VerdictShown
INVARIANT SubmittedOnce
INVARIANT ReportedOnce
PROPERTY PaidStays
PROPERTY ProcessingEnds
PROPERTY TransmittingEnds
PROPERTY EreportingSettles
