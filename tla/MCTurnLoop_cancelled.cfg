SPECIFICATION FairSpec
CONSTANTS
  t1 = t1
  t2 = t2
  c1 = c1
  c2 = c2
  send = send
  read = read
  ghost = ghost
  k1 = k1
  k2 = k2
  k3 = k3
  k4 = k4
  Turns = {t1}
  Convs = {c1, c2}
  ConvOf <- OneConv
  Tools = {send}
  Gated = {send}
  Registered = {send}
  Limited = {send}
  Allowances = {{}, {send}}
  CallIds = {k1, k2}
  IdAt <- AnyId
  MaxCalls = 1
  MaxIterations = 1
  IdsByPlace = FALSE
  Answering = {c1, c2}
  HandlerMayCancel = TRUE
  StoreMayFail = FALSE
  MayClose = FALSE
PROPERTY
  TurnEnds
