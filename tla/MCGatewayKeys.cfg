CONSTANTS
  u1 = u1  r1 = r1  r2 = r2  r3 = r3  NoCode = NoCode  a1 = a1
  Users <- MCUsers
  Requests <- ThreeRequests
  Owner <- MCOwner
  IdemKey <- SharedKey
  Digest <- MCDigest
  Amounts <- OneAmount
  Estimate <- MCEstimate
  FailureCodes <- MCFailureCodes
  AdjustRefs <- MCAdjustRefs
  AdjustAmounts <- MCAdjustAmounts
  LegacyUsage <- MCLegacyUsage
  MaxAmount = 3
  MaxInt64 = 9
  MinInt64 <- MCMinInt64
  RecoveryLimit = 1
  Unreadable <- MCUnreadable
  Candidates = 2
  MaxUpstreamHTTPAttempts = 2
  SettlementRetries = 1
SPECIFICATION FairGatewaySpec
CHECK_DEADLOCK FALSE

  
PROPERTIES
  IntentIsCompleted
