SPECIFICATION Spec
CONSTANTS
  c1 = c1
  Convs = {c1}
  Sweeper = Sweeper
  IdleFinalize = 1
  SweepInterval = 1
  SweepTime = 1
  MaxFailures = 1
  Ttl = 6
  QuietFinalize = FALSE
  HasSummarizer = FALSE
  MaxTurns = 2
  MaxTime = 8
INVARIANT
  MarkedIsEmbedded
