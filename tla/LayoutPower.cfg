SPECIFICATION PowerSpec
CONSTANTS
  p1 = p1
  p2 = p2
  Nobody = Nobody
  Procs = {p1, p2}
  Movers = {p1}
  Overriding = {}
  Faults = {"crash", "power", "io"}
  MaxStarts = 3
  MaxMoves = 1
  MaxRestores = 1
  MaxToken = 2
  ThreadRequests = {1, 2, 3}
  Words = {"u"}
  Replies = {"yes", "no"}
  MaxTalk = 5
  MaxEdits = 1
  r1 = r1
  r2 = r2
  Setups = {r1, r2}
  NoHolder = NoHolder
  Abandoned = Abandoned
  MaxSecrets = 2
  MayStall = TRUE
INVARIANTS
  EveryImageRecovers
  ThreadTellsTheTalk
  NoOrphanRequest
PROPERTIES
  ImplementsCredentialHome
  
CHECK_DEADLOCK FALSE
