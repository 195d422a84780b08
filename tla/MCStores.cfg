SPECIFICATION StoresSpec
CONSTANTS
  m1 = m1
  m2 = m2
  RConvs = {"shared", "serial"}
  Serial = {"serial"}
  Tasks = {m1, m2}
  Turns = 2
  Retries = 1
  PUsers = {"user"}
  PTools = {"search", "mail"}
  Configured = {"search"}
  Callers = {m1, m2}
  Facts = {"name", "town"}
  Values = {"v", "w"}
  Actors = {m1, m2}
  EConvs = {m1, m2}
  Writers = {"handler", "sweep"}
  MaxMoments = 1
  MaxPoints = 2
  MaxEvents = 3
  Size = 5
SYMMETRY Interchangeable
INVARIANTS
  StoresTypeOK
  QuietAppendsKept
  DueIsIndexed
  RulingsHold
  OfferedReaches
  KnownFactsKept
  MomentsHaveParent
  ForgottenStays
  GroupsAreExact
PROPERTIES
  SerialIsStore
  RecallKept
CHECK_DEADLOCK FALSE
