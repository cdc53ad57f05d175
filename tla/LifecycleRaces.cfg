\* All handlers interleave freely, until a save is lost.
CONSTANTS
  w1 = w1
  w2 = w2
  Workers = {w1, w2}
  Handlers = {"edit", "delete", "validate", "record_payment", "preview", "transmit", "mark_paid", "auto_cancel", "poll"}
  Faults = {"timed_out"}
  Serialised = FALSE
  EreportingFlow = TRUE
  MaxQueued = 1
  Pollers = {w1, w2}
  MaxVersion = 2
  MaxNumber = 2
  MaxRetries = 1
  MaxFlows = 1
  MaxEvents = 1
SPECIFICATION LifecycleSpec
CHECK_DEADLOCK FALSE
SYMMETRY Symmetry
CONSTRAINT WhileClean
INVARIANT LifecycleTypeOK
INVARIANT Consistent
PROPERTY ImplementsLifecycle
