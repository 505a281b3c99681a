CONSTANTS
  c1 = c1
  c2 = c2
  p1 = p1
  p2 = p2
  a1 = a1
  a2 = a2
  NoId = NoId
  NoCaller = NoCaller
  NRows = 1
  Account = {a1}
  Caller = {c1, c2}
  Process = {p1, p2}
  ProcOf <- TwoProcesses
  Asks <- PlainAsks
  MaxTok = 3
  MaxAttempts = 1
  MaxDisturb = 2
  Faults = {"foreign", "io", "keep", "signin", "reset"}
  RoundRequests = {"q1", "q2", "q3"}
  TurnOf <- TwoOfOneTurn
  Fallbacks <- OneSharedTwoInOrder
  RoutingModes = {"sticky-balanced", "main-first", "fallback-first"}
  Abreast = 2
SPECIFICATION WritersSpec
SYMMETRY Alike
INVARIANTS
  ErrorsFollowReset
  MovesAreEarned
  AnswerIsReadable
PROPERTIES
  CredentialMovesForward
