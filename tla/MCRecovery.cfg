CONSTANTS
  u1 = u1  r1 = r1  r2 = r2  c1 = c1  NoCode = NoCode  a1 = a1
  Users <- MCUsers
  Requests <- MCRequests
  Owner <- MCOwner
  IdemKey <- MCIdemKey
  Digest <- MCDigest
  Amounts <- MCAmounts
  FailureCodes <- MCFailureCodes
  AdjustRefs <- MCAdjustRefs
  AdjustAmounts <- MCAdjustAmounts
  LegacyUsage <- MCLegacyUsage
  MaxAmount = 3
  MaxInt64 = 5
  MinInt64 <- MCMinInt64
  RecoveryLimit = 2
  Unreadable <- NoneUnreadable
SPECIFICATION RecoveringSpec
INVARIANTS
  ListedItemStaysValid
PROPERTIES
  PendingIsSettled
