SPECIFICATION TransactionsSpec
CONSTANTS
  c1 = c1  c2 = c2  d = d  a = a  b = b  p1 = p1  p2 = p2  r1 = r1  k1 = k1  k2 = k2  u = u
  Connections = {c1, c2}
  Groups = {d, a, b}
  Default = d
  Providers = {p1}
  Routes = {r1}
  Keys = {k1, k2}
  Owner <- MCOwner
  MaxActive = 1
  NoRoute = NoRoute
  NoKey = NoKey
  Revoked = Revoked
  w1 = w1  w2 = w2  w3 = w3  inviter = inviter  user = user  q1 = q1  q2 = q2  o1 = o1  o2 = o2
  Nobody = Nobody
  NoTransaction = NoTransaction
  Workers = {w1, w2, w3}
  Users = {inviter, user}
  Requests = {q1, q2}
  Orders = {o1, o2}
  RequestUser <- MCRequestUser
  IdemKey <- MCIdemKey
  Payer <- MCPayer
  Referrer <- MCReferrer
SYMMETRY MCSymmetry
INVARIANTS
  GroupsInUseRemain CompositesAreFlat KeyLimit
  DecisionsAreCurrent NoCircularWait
