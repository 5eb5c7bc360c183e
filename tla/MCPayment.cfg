SPECIFICATION Spec
CONSTANTS
  o1 = o1
  r1 = r1
  r2 = r2
  f1 = f1
  f2 = f2
  f3 = f3
  Nobody = Nobody
  Orders = {o1}
  Payers = {r1, r2}
  Refunders = {f1, f2, f3}
  Amount <- MCAmount
  OrderOf <- MCOrderOf
  RefundAmount <- MCRefundAmount
CHECK_DEADLOCK FALSE
INVARIANTS
  TypeOK
  DecidedOnce
  AnswerIsRecorded
  RefundedIsPaidBack
PROPERTIES
  Recorded
  EveryRequestEnds
