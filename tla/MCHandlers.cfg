CONSTANTS
  u1 = u1  r1 = r1  r2 = r2  r3 = r3  NoCode = NoCode  a1 = a1
  Users <- MCUsers
  Requests <- TwoRequests
  Owner <- MCOwner
  IdemKey <- OwnKeys
  Digest <- MCDigest
  Amounts <- MCAmounts
  Estimate <- MCEstimate
  FailureCodes <- MCFailureCodes
  AdjustRefs <- MCAdjustRefs
  AdjustAmounts <- MCAdjustAmounts
  LegacyUsage <- MCLegacyUsage
  MaxAmount = 3
  MaxInt64 = 9
  MinInt64 <- MCMinInt64
  RecoveryLimit = 1
  Unreadable <- MCUnreadable
  Candidates = 1
  MaxUpstreamHTTPAttempts = 2
  SettlementRetries = 1
  ApiKeys = {"x", "y"}
  Sizes = {1, 2}
  NoResponse = NoResponse  Unavailable = Unavailable
  MaxEntries = 2
  MaxBytes = 3
  MaxChain = 2
  Retention = 1
  MaxTurns = 3
  MaxInFlight = 2
  MaxNow = 1
  h1 = h1  h2 = h2  e1 = e1  e2 = e2  s1 = s1  s2 = s2
  Handlers = {h1, h2}
  Emails = {e1, e2}
  Codes = {s1, s2}
  NoAccount = NoAccount  NoIssue = NoIssue
  Lifetime = 2
  MaxMinutes = 2
SPECIFICATION HandlersSpec
CHECK_DEADLOCK FALSE
INVARIANTS
  AnswersAreTrue
  PendingCanSettle
  ExpandedIsWhole
  HistoryIsBounded
  AdministratorsRemain
  MailedCodeIsValid
