SPECIFICATION MCSpec
CONSTANTS
  Messages = {m1, m2}
  Posters = {"p1", "p2"}
  NoPost = NoPost
  MaxAttempts = 3
  MaxDeaths = 1
  Creators = {"c1", "c2", "c3"}
  NoKey = NoKey
  MaxCreated = 4
  MaxLives = 3
  Threads = {"t1", "t2"}
  Nobody = Nobody
  MaxPolls = 1
  MaxRevocations = 2
  Clerks = {"w1", "w2"}
  ExternalIds = {"e1"}
  Sirens = {"s1"}
  None = None
  MaxParties = 3
  ReceivedCodes = {"210", "212"}
  Window = 3
  MaxSent = 2
  MaxReceived = 1
  MaxSeconds = 1
\* An endpoint that has served its messages, or a bound that is reached.
CHECK_DEADLOCK FALSE
INVARIANT EdgesTypeOK
INVARIANT AnswersAgree
INVARIANT StableIdentity
INVARIANT ToldOnce
PROPERTY Delivered
PROPERTY RequestsEnd
PROPERTY OnlySeeds
