CONSTANTS
  c1 = c1
  c2 = c2
  p1 = p1
  p2 = p2
  a1 = a1
  a2 = a2
  NoId = NoId
  NoCaller = NoCaller
  NRows = 1
  Account = {a1, a2}
  Caller = {c1, c2}
  Process = {p1}
  ProcOf <- SameProcess
  Asks <- AllAsks
  MaxTok = 2
  MaxAttempts = 2
  MaxDisturb = 1
  Faults = {"unsupported", "disable", "expire"}
  Routers = {1, 2}
  RouteAccounts = {1, 2}
  OldPins <- PinOfTheFirst
  MaxDecisions <- TwoAndOne
  MainAccounts <- TwoAndOne
  SpentAccounts = {2}
  PaidRequests = {1, 2}
  RelayRequests = 2
  MaxSockets = 2
SPECIFICATION PathSpec
SYMMETRY Alike
INVARIANTS
  EvidenceSound
  ServedTokenIsTheAccounts
  LastDecisionIsPublished
  PaidOnlyWhenMainIsSpent
  ForwardedBodyIsTheRequests
PROPERTIES
  ServesNothingRejected
