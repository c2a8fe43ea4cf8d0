CONSTANTS
  u1 = u1  r1 = r1  r2 = r2  r3 = r3  k1 = k1  k2 = k2  d1 = d1  d2 = d2
  c1 = c1  c2 = c2  NoCode = NoCode  a1 = a1  l1 = l1
  Users <- MCUsers
  Requests <- MCRequests
  Owner <- MCOwner
  IdemKey <- MCIdemKey
  Digest <- MCDigest
  Amounts <- MCAmounts
  FailureCodes <- MCFailureCodes
  AdjustRefs <- MCAdjustRefs
  AdjustAmounts <- MCAdjustAmounts
  LegacyUsage <- MCLegacyUsage
  MaxAmount = 3
  MaxInt64 = 3
  MinInt64 <- MCMinInt64
SPECIFICATION Spec
CHECK_DEADLOCK FALSE
INVARIANTS
  TypeOK
  DebitIsHoldOrCost
  StatusAgreesWithLedger
  BalanceIsSumOfEntries
  OverdraftOnlyBySettlement
  OneOperationPerKey
  BalanceFits
PROPERTIES
  ImplementsEscrow
