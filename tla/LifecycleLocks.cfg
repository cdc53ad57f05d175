\* Requests that do not overlap and one poller.
CONSTANTS
  w1 = w1
  w2 = w2
  Workers = {w1, w2}
  Handlers = {"edit", "delete", "validate", "transmit", "poll"}
  Faults = {"crash", "rejected"}
  Serialised = TRUE
  EreportingFlow = TRUE
  MaxQueued = 1
  Pollers = {w1}
  MaxVersion = 2
  MaxNumber = 2
  MaxRetries = 1
  MaxFlows = 2
  MaxEvents = 3
SPECIFICATION LifecycleSpec
CHECK_DEADLOCK FALSE
INVARIANT NoLostUpdate
INVARIANT NumbersWithoutHole
INVARIANT DeletedForGood
INVARIANT DeclaredOnce
PROPERTY LegalTransitions
PROPERTY OnlyCrashesStrand
