SPECIFICATION FairTopUpSpec
CONSTANTS
  inviter = inviter  user = user  r1 = r1  k1 = k1  d1 = d1  c1 = c1  a1 = a1
  o1 = o1  o2 = o2  alipay = alipay  wxpay = wxpay  t1 = t1  t2 = t2  m1 = m1  m2 = m2  q1 = q1
  Users = {inviter, user}
  Requests = {}
  Owner <- NoRequests
  IdemKey <- NoRequests
  Digest <- NoRequests
  Amounts = {10000}
  FailureCodes = {c1}
  NoCode = NoCode
  AdjustRefs = {}
  AdjustAmounts = {10000}
  LegacyUsage <- NoLegacyUsage
  MaxAmount = 10000
  MaxInt64 = 100000
  MinInt64 <- MCMinInt64
  Orders = {o1, o2}
  Payer <- MCPayer
  Referrer <- MCReferrer
  Nobody = Nobody
  TopUpAmounts = {20000}
  Channels = {alipay}
  Trades = {t1, t2}
  NoTrade = NoTrade
  Accounts = {m1, m2}
  Tiers <- MCTiers
  RewardRates = {1000}
  Reconcilers = {q1}
  MaxPayments = 2
CHECK_DEADLOCK FALSE
PROPERTIES PaymentArrives
