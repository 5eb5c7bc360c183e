SPECIFICATION Spec
CONSTANTS
  u1 = u1
  u2 = u2
  d1 = d1
  d2 = d2
  g1 = g1
  g2 = g2
  l1 = l1
  r1 = r1
  r2 = r2
  r3 = r3
  o1 = o1
  None = None
  Users = {u1, u2}
  Devices = {d1, d2}
  Opened = {d1, d2}
  Registers = {g1, g2}
  Logins = {l1}
  Refreshes = {r1, r2}
  Logouts = {o1}
  Arrivals = 3
  Failing = {g1, r1}
  Expiring = {d1}
  FirstAccount <- MCFirstAccount
  UserOf <- MCUserOf
CHECK_DEADLOCK FALSE
INVARIANTS
  TypeOK
  CurrentIsFound
  RegisteredOnce
  LogoutEnds
PROPERTIES
  ExchangedNeverVerifies
  SessionsKept
  RegisterEnds
