SPECIFICATION Spec
CONSTANTS
  t1 = t1
  t2 = t2
  c1 = c1
  c2 = c2
  send = send
  read = read
  ghost = ghost
  k1 = k1
  k2 = k2
  k3 = k3
  k4 = k4
  Turns = {t1, t2}
  Convs = {c1, c2}
  ConvOf <- SameConv
  Tools = {send}
  Gated = {send}
  Registered = {send}
  Limited = {send}
  Allowances = {{}, {send}}
  CallIds = {k1, k2}
  IdAt <- AnyId
  MaxCalls = 1
  MaxIterations = 1
  IdsByPlace = FALSE
  Answering = {c1, c2}
  HandlerMayCancel = TRUE
  StoreMayFail = TRUE
  MayClose = TRUE
INVARIANTS
  ConsentBeforeRun
  PendingIsWaiting
  StoredMatchesHistory
  RevocationHonoured
SYMMETRY Interchangeable
