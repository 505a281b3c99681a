CONSTANTS
  c1 = c1
  c2 = c2
  p1 = p1
  p2 = p2
  a1 = a1
  a2 = a2
  NoId = NoId
  NoCaller = NoCaller
  NRows = 1
  Account = {a1}
  Caller = {c1, c2}
  Process = {p1, p2}
  ProcOf <- TwoProcesses
  Asks <- AllAsks
  MaxTok = 2
  MaxAttempts = 2
  MaxDisturb = 1
  Faults = {"crash", "lost", "timeout"}
  VaultPaths <- SocketAndDirect
  VaultHosts <- TogetherOrApart
  MaxVersion = 2
  MaxOutages = 1
  Unset = Unset
  Sources = {"fable"}
  RecoveryOAuth = {"x", "y"}
  StickyRecovery = TRUE
  RecoveryRequests = {1, 2}
  FallbackTurns = 1
  IdleWarms = 1
  MaxRounds = 2
  MaxCompactions = 1
SPECIFICATION ProcessSpec
SYMMETRY Alike
INVARIANTS
  TypeOK
  OneExchangeAtATime
  DeadMeansDead
  ReportsAreFinal
  RoundCountsItsOwn
  WarmedWhereItServes
