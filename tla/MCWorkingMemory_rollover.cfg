SPECIFICATION Spec
CONSTANTS
  r1 = r1
  r2 = r2
  r3 = r3
  MaxTurns = 6
  Cost <- FirstLengths
  Textless = {2}
  Budget = 2
  MaxBatch = 2
  MaxRunning = 2
  Rollovers = {r1, r2, r3}
  MaxSessions = 3
SYMMETRY Interchangeable
INVARIANTS
  TypeOK
  QuietTurnsKept
  SummaryIsOlder
  KeepsWhatFits
