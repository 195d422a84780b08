SPECIFICATION Spec
CONSTANTS
  c1 = c1
  Convs = {c1}
  Sweeper = Sweeper
  IdleFinalize = 1
  SweepInterval = 4
  SweepTime = 0
  MaxFailures = 0
  Ttl = 2
  QuietFinalize = TRUE
  HasSummarizer = FALSE
  MaxTurns = 2
  MaxTime = 8
INVARIANT
  ExpiredIsFinalized
