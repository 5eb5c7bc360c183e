SPECIFICATION Spec
CONSTANTS
  p1 = p1
  g1 = g1
  g2 = g2
  d1 = d1
  d2 = d2
  t1 = t1
  e1 = e1
  e2 = e2
  c1 = c1
  None = None
  Products = {p1}
  Gets = {g1}
  Deducts = {}
  Restores = {}
  Edits = {e1}
  Creates = {}
  InitStock <- MCStock
  ProductOf <- MCProductOf
  Quantity <- MCQuantity
  Payload <- MCPayload
  Faults = {}
CHECK_DEADLOCK FALSE
INVARIANTS
  NextReadIsFresh
