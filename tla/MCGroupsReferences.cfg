SPECIFICATION GroupsSpec
CONSTANTS
  c1 = c1  c2 = c2  d = d  a = a  b = b  p1 = p1  p2 = p2  r1 = r1  k1 = k1  k2 = k2  u = u
  Connections = {c1, c2}
  Groups = {d, a, b}
  Default = d
  Providers = {p1, p2}
  Routes = {r1}
  Keys = {k1, k2}
  Owner <- MCOwner
  MaxActive = 1
  NoRoute = NoRoute
  NoKey = NoKey
  Revoked = Revoked
INVARIANTS RouteReferencesAreLive
