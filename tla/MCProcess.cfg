SPECIFICATION ProcessSpec
CONSTANTS
  p1 = p1  p2 = p2  q1 = q1  q2 = q2
  Plans = {p1, p2}
  Rates = {1}
  Calls = {q1, q2}
  NoEntry = NoEntry  NoPrice = NoPrice  LegacyPrice = LegacyPrice  Failed = Failed  Unresolved = Unresolved
  LegacyPlans <- MCLegacyPlans
  MaxTime = 1
  BillingGroups = {"standard"}
  Multipliers = {9000, 10000}
  Callers = {"a", "b", "c"}
  Deleted = Deleted  NoSnapshot = NoSnapshot
  Streams <- MCStreams
  MaxLines = 4
  SlowClients = FALSE
CHECK_DEADLOCK FALSE
INVARIANTS
  ExactlyOnePrice
  
  NoBeatInsideEvent VerdictIsJust ShownIsRemembered 
PROPERTIES SnapshotStaysCurrent PublicationTakesOver EveryCallIsAnswered DisconnectFreesAll
