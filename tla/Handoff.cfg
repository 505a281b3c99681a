CONSTANTS
  c1 = c1
  c2 = c2
  p1 = p1
  p2 = p2
  a1 = a1
  a2 = a2
  NoId = NoId
  NoCaller = NoCaller
  NRows = 2
  Account = {a1}
  Caller = {c1, c2}
  Process = {p1}
  ProcOf <- SameProcess
  Asks <- RefreshAsks
  MaxTok = 3
  MaxAttempts = 1
  MaxDisturb = 1
  Faults = {"abort", "timeout", "stall"}
  PiFallbacks <- OneFallback
  PiPeople = {"p", "q"}
  PiModes = {"sticky-balanced", "main-first", "fallback-first"}
  MaxSwaps = 1
  V2Requests = {q1, q2}
  V2People = {alice, bob}
  V2Custody = {"vault"}
  V2Dispatch = {"relay"}
  MaxEvents = 3
  MaxForgets = 1
  MaxTries = 2
SPECIFICATION HandoffSpec
SYMMETRY Alike
INVARIANTS
  SuccessorNeverLost
  SentAsMeant
  ClosesWithNothingOwed
  SendsSpeakForOne
  RejectionsReported
PROPERTY
  NothingAfterForget
