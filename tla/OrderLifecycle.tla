--------------------------- MODULE OrderLifecycle ---------------------------
(***************************************************************************)
(* What everyone who reads the orders table can rely on: the life of a     *)
(* row, each commit of order-service to it one step.  COMPLETED and FAILED *)
(* rows never change again, money is only asked for once the stock is      *)
(* recorded as deducted, and a reserved order can only fail through        *)
(* STOCK_ROLLBACK_NEEDED.                                                  *)
(*                                                                         *)
(* The status takes the steps that the docstring of OrderStatus shows.     *)
(* saga_status does NOT take those of SagaStatus: there a failed order     *)
(* ends as FAILED, from STARTED at once and otherwise behind               *)
(* STOCK_ROLLED_BACK.  The code writes no saga_status FAILED (and no       *)
(* status CANCELLED): it leaves every failed order at STOCK_ROLLED_BACK or *)
(* STOCK_ROLLBACK_NEEDED, straight from STARTED if the deduction failed.   *)
(* This module follows the code.                                           *)
(***************************************************************************)
CONSTANT Orders

VARIABLE rows    \* orders table: order id -> row, NoRow before the INSERT

Status     == {"PENDING", "STOCK_DEDUCTED", "PAYMENT_REQUESTED", "COMPLETED",
               "FAILED"}
SagaStatus == {"STARTED", "STOCK_DEDUCTED", "PAYMENT_REQUESTED", "COMPLETED",
               "STOCK_ROLLBACK_NEEDED", "STOCK_ROLLED_BACK"}
Reason     == {"none", "TIMEOUT", "INSUFFICIENT_STOCK", "ORDER_STOCK_CONFLICT",
               "STOCK_DEDUCT_ERROR", "PRODUCT_SERVICE_ERROR",
               "PAYMENT_REJECTED"}

\* stock_deducted is the column of that name; paid stands for payment_id not
\* being NULL.
Row == [status : Status, saga : SagaStatus, stock_deducted : BOOLEAN,
        paid : BOOLEAN, reason : Reason]

NoRow == [status |-> "no row"]

NewRow == [status |-> "PENDING", saga |-> "STARTED", stock_deducted |-> FALSE,
           paid |-> FALSE, reason |-> "none"]

At(o, status, saga) == rows[o] # NoRow /\ rows[o].status = status
                                       /\ rows[o].saga = saga

-----------------------------------------------------------------------------
Init == rows = [o \in Orders |-> NoRow]

Place(o) ==
  /\ rows[o] = NoRow
  /\ rows' = [rows EXCEPT ![o] = NewRow]

Reserve(o) ==
  /\ At(o, "PENDING", "STARTED")
  /\ rows' = [rows EXCEPT ![o] = [@ EXCEPT !.status = "STOCK_DEDUCTED",
                                           !.saga = "STOCK_DEDUCTED",
                                           !.stock_deducted = TRUE]]

RequestPayment(o) ==
  /\ At(o, "STOCK_DEDUCTED", "STOCK_DEDUCTED")
  /\ rows' = [rows EXCEPT ![o] = [@ EXCEPT !.status = "PAYMENT_REQUESTED",
                                           !.saga = "PAYMENT_REQUESTED"]]

Complete(o) ==
  /\ At(o, "PAYMENT_REQUESTED", "PAYMENT_REQUESTED")
  /\ rows' = [rows EXCEPT ![o] = [@ EXCEPT !.status = "COMPLETED",
                                           !.saga = "COMPLETED",
                                           !.paid = TRUE]]

NeedRollback(o) ==
  /\ At(o, "PAYMENT_REQUESTED", "PAYMENT_REQUESTED")
  /\ \E why \in Reason \ {"none"} :
       rows' = [rows EXCEPT ![o] = [@ EXCEPT !.saga = "STOCK_ROLLBACK_NEEDED",
                                             !.reason = why]]

\* The last commit of a failed saga: whether the restores it knows of went
\* through decides what saga_status is left at.
Fail(o) ==
  /\ \/ At(o, "PENDING", "STARTED")
     \/ At(o, "PAYMENT_REQUESTED", "STOCK_ROLLBACK_NEEDED")
  /\ \E end \in {"STOCK_ROLLED_BACK", "STOCK_ROLLBACK_NEEDED"},
        why \in Reason \ {"none"} :
       /\ rows[o].reason \in {"none", why}
       /\ rows' = [rows EXCEPT ![o] = [@ EXCEPT !.status = "FAILED",
                                                !.saga = end,
                                                !.reason = why]]

Next == \E o \in Orders : \/ Place(o) \/ Reserve(o) \/ RequestPayment(o)
                          \/ Complete(o) \/ NeedRollback(o) \/ Fail(o)

Spec == Init /\ [][Next]_rows
=============================================================================
