SPECIFICATION Spec
CONSTANTS
  o1 = o1
  o2 = o2
  p1 = p1
  p2 = p2
  Orders = {o1, o2}
  Products = {p1, p2}
  Items <- MCItems
  InitStock <- MCStock
  MaxRetry = 2
  Faults = {"crash", "network", "error", "stale", "admin", "nats"}
CHECK_DEADLOCK FALSE
INVARIANTS
  TypeOK
  StockNeverCreated
  CompletedIsPaidAndKept
  RolledBackIsReleased
  FlaggedBeforeRestore
  RefusedIsNotCharged
  NoOversell
PROPERTIES
  PromisesKept
  ProducesEvents
