SPECIFICATION Spec
CONSTANTS
  c1 = c1
  c2 = c2
  None = None
  Limit = 2
  Arrivals = 3
  Requests <- MCRequests
  Method <- MCMethod
  Path <- MCPath
  Token <- MCToken
  Claims <- MCClaims
  Client <- MCClient
CHECK_DEADLOCK FALSE
INVARIANTS
  TypeOK
  OnlyVerifiedGetThrough
PROPERTIES
  OneRefreshPerExpiry
  NoKeyReturns
  OutageIsMasked
  QueueDrains
