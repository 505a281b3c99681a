CONSTANTS
  c1 = c1
  c2 = c2
  p1 = p1
  p2 = p2
  a1 = a1
  a2 = a2
  NoId = NoId
  NoCaller = NoCaller
  NRows = 1
  Account = {a1}
  Caller = {c1, c2}
  Process = {p1}
  ProcOf <- SameProcess
  Asks <- ServeAsks
  MaxTok = 1
  MaxAttempts = 1
  MaxDisturb = 0
  Faults = {"abort"}
SPECIFICATION HSpec
SYMMETRY Alike
INVARIANTS
  RejectionPreventsDispatch
