SPECIFICATION FairSpec
CONSTANTS
  t1 = t1
  t2 = t2
  c1 = c1
  c2 = c2
  send = send
  read = read
  ghost = ghost
  k1 = k1
  k2 = k2
  k3 = k3
  k4 = k4
  Turns = {t1}
  Convs = {c1, c2}
  ConvOf <- OneConv
  Tools = {send, read}
  Gated = {send}
  Registered = {send, read}
  Limited = {send}
  Allowances = {{send, read}}
  CallIds = {k1, k2}
  IdAt <- ReusedIds
  MaxCalls = 2
  MaxIterations = 2
  IdsByPlace = TRUE
  Answering = {c1}
  HandlerMayCancel = FALSE
  StoreMayFail = FALSE
  MayClose = TRUE
INVARIANTS
  TypeOK
  HistoryWellFormed
  EventProtocol
  NoOrphans
  StoredMatchesHistory
PROPERTIES
  TurnEnds
