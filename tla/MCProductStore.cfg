SPECIFICATION Spec
CONSTANTS
  p1 = p1
  g1 = g1
  g2 = g2
  d1 = d1
  d2 = d2
  t1 = t1
  e1 = e1
  e2 = e2
  c1 = c1
  None = None
  Products = {p1}
  Gets = {g1}
  Deducts = {d1, d2}
  Restores = {t1}
  Edits = {e2}
  Creates = {c1}
  InitStock <- MCStock
  ProductOf <- MCProductOf
  Quantity <- MCQuantity
  Payload <- MCPayload
  Faults = {"redis", "crash"}
CHECK_DEADLOCK FALSE
INVARIANTS
  TypeOK
  StockIsAccounted
  VersionSpentOnce
PROPERTIES
  Accounts
  EventuallyFresh
