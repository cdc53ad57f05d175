\* Two workers, two sessions, two providers: checkouts, notifications and interruptions interleave.
SPECIFICATION Spec
CONSTANTS
  Workers = {"w1", "w2"}
  Providers = {"stripe", "gocardless"}
  MaxSessions = 2
  Reached = {"transmitting"}
  MaxMishaps = 1
  NoNotice = NoNotice
CHECK_DEADLOCK FALSE
INVARIANT TypeOK
INVARIANT CollectedIsRecorded
INVARIANT ChargedOnce
PROPERTY CollectedIsApplied
