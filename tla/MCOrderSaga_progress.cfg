SPECIFICATION Spec
CONSTANTS
  o1 = o1
  o2 = o2
  p1 = p1
  p2 = p2
  Orders = {o1, o2}
  Products = {p1, p2}
  Items <- MCItems
  InitStock <- MCStock
  MaxRetry = 2
  Faults = {"network", "error", "nats"}
CHECK_DEADLOCK FALSE
INVARIANTS
  ConflictMeansContention
  SoldOutMeansScarce
PROPERTIES
  EveryOrderSettles
