------------------------------ MODULE Payment -------------------------------
(***************************************************************************)
(* payment-service: POST /payments and POST /payments/{id}/refunds, each   *)
(* request a handler with a database session of its own (READ COMMITTED).  *)
(*                                                                         *)
(* A handler reads, works on what it read and commits later; between these *)
(* steps other handlers do the same.  The only lock is the entry of the    *)
(* unique index on payments.order_id: who flushes its INSERT holds it      *)
(* until it commits or rolls back, and a second INSERT waits for that.     *)
(***************************************************************************)
EXTENDS Integers, Functions

CONSTANTS
  Orders,
  Amount,         \* what each order costs
  Payers,         \* POST /payments requests
  Refunders,      \* POST /payments/{id}/refunds requests
  OrderOf,        \* the order of each request
  RefundAmount,   \* payload.amount of a refund
  Nobody          \* holder of a free index entry

Requests == Payers \cup Refunders

ASSUME PaymentAssumption ==
  /\ Payers \cap Refunders = {}
  /\ OrderOf \in [Requests -> Orders]
  /\ Amount \in [Orders -> Nat \ {0}]
  /\ RefundAmount \in [Refunders -> Nat \ {0}]
  /\ Nobody \notin Requests

VARIABLES
  pc,          \* where each handler is
  refundable,  \* what the handler of a refund found it may still refund
  answer,      \* HTTP status it answered, 0 before that
  holder,      \* request whose uncommitted INSERT holds the order's entry
  status,      \* payments table
  refunds      \* refunds table: the requests whose refund is committed

vars == <<pc, refundable, answer, holder, status, refunds>>

R == INSTANCE PaymentRecord

Steps == {"check", "flush", "decide", "refresh", "load", "sum", "commit",
          "done", "dead"}

Goto(r, step)   == pc' = [pc EXCEPT ![r] = step]
Respond(r, code) == /\ answer' = [answer EXCEPT ![r] = code]
                    /\ Goto(r, "done")

Total(S) == SumFunctionOnSet(RefundAmount, S)

\* Refunds committed for an order.
RefundsOf(o) == {f \in refunds : OrderOf[f] = o}

-----------------------------------------------------------------------------
(***************************************************************************)
(* Slips: plausible mistakes in the definitions below.                     *)
(***************************************************************************)
\* Flush that relies on the check alone, and one that does not wait for the
\* holder of the entry.
FlushUnchecked(r) ==
  LET o == OrderOf[r] IN
  /\ pc[r] = "flush"
  /\ holder' = [holder EXCEPT ![o] = r]
  /\ Goto(r, "decide")
  /\ UNCHANGED <<refundable, answer, status, refunds>>

FlushNoWait(r) ==
  LET o == OrderOf[r] IN
  /\ pc[r] = "flush"
  /\ \/ /\ status[o] = "none" /\ holder[o] = Nobody
        /\ holder' = [holder EXCEPT ![o] = r]
        /\ Goto(r, "decide")
        /\ UNCHANGED answer
     \/ /\ status[o] # "none" \/ holder[o] # Nobody
        /\ Respond(r, 409)
        /\ UNCHANGED holder
  /\ UNCHANGED <<refundable, status, refunds>>

\* CommitRefund that takes every refund for a full one, and one that writes
\* back the status it has loaded.
RefundClosesPayment(f) ==
  LET o == OrderOf[f] IN
  /\ pc[f] = "commit"
  /\ refunds' = refunds \cup {f}
  /\ status' = [status EXCEPT ![o] = "REFUNDED"]
  /\ Goto(f, "refresh")
  /\ UNCHANGED <<refundable, answer, holder>>

RefundWritesBack(f) ==
  LET o == OrderOf[f] IN
  /\ pc[f] = "commit"
  /\ refunds' = refunds \cup {f}
  /\ status' = [status EXCEPT ![o] =
                  IF RefundAmount[f] = refundable[f] THEN "REFUNDED"
                  ELSE "APPROVED"]
  /\ Goto(f, "refresh")
  /\ UNCHANGED <<refundable, answer, holder>>

\* Dies without the rollback of its session.
DiesWithoutRollback(r) ==
  /\ pc[r] \notin {"done", "dead"}
  /\ Goto(r, "dead")
  /\ UNCHANGED <<refundable, answer, holder, status, refunds>>

-----------------------------------------------------------------------------
Init ==
  /\ pc = [r \in Requests |-> IF r \in Payers THEN "check" ELSE "load"]
  /\ refundable = [f \in Refunders |-> 0]
  /\ answer = [r \in Requests |-> 0]
  /\ holder = [o \in Orders |-> Nobody]
  /\ R!Init
  /\ refunds = {}

(***************************************************************************)
(* create_payment_service                                                  *)
(***************************************************************************)
\* The check only sees payments that are committed.
CheckDuplicate(r) ==
  /\ pc[r] = "check"
  /\ \/ status[OrderOf[r]] = "none" /\ Goto(r, "flush") /\ UNCHANGED answer
     \/ status[OrderOf[r]] # "none" /\ Respond(r, 409)
  /\ UNCHANGED <<refundable, holder, status, refunds>>

\* INSERT of the PENDING payment, not committed; IntegrityError rolls back.
Flush(r) ==
  LET o == OrderOf[r] IN
  /\ pc[r] = "flush"
  /\ holder[o] = Nobody
  /\ \/ /\ status[o] = "none"
        /\ holder' = [holder EXCEPT ![o] = r]
        /\ Goto(r, "decide")
        /\ UNCHANGED answer
     \/ /\ status[o] # "none"
        /\ Respond(r, 409)
        /\ UNCHANGED holder
  /\ UNCHANGED <<refundable, status, refunds>>

\* The chaos setting decides; the commit makes the payment visible.
Decides(r, s) ==
  /\ pc[r] = "decide"
  /\ status' = [status EXCEPT ![OrderOf[r]] = s]
  /\ holder' = [holder EXCEPT ![OrderOf[r]] = Nobody]
  /\ UNCHANGED <<refundable, refunds>>

Reject(r) == Decides(r, "REJECTED") /\ Respond(r, 402)

Approve(r) == Decides(r, "APPROVED") /\ Goto(r, "refresh") /\ UNCHANGED answer

\* What is committed is read back for the answer.
Refresh(r) ==
  /\ pc[r] = "refresh"
  /\ Respond(r, 201)
  /\ UNCHANGED <<refundable, holder, status, refunds>>

(***************************************************************************)
(* create_refund_service                                                   *)
(***************************************************************************)
LoadPayment(f) ==
  /\ pc[f] = "load"
  /\ LET s == status[OrderOf[f]] IN
     \/ s = "none" /\ Respond(f, 404)
     \/ s \in {"REJECTED", "REFUNDED"} /\ Respond(f, 400)
     \/ s = "APPROVED" /\ Goto(f, "sum") /\ UNCHANGED answer
  /\ UNCHANGED <<refundable, holder, status, refunds>>

SumRefunds(f) ==
  LET left == Amount[OrderOf[f]] - Total(RefundsOf(OrderOf[f])) IN
  /\ pc[f] = "sum"
  /\ refundable' = [refundable EXCEPT ![f] = left]
  /\ \/ RefundAmount[f] > left /\ Respond(f, 422)
     \/ RefundAmount[f] <= left /\ Goto(f, "commit") /\ UNCHANGED answer
  /\ UNCHANGED <<holder, status, refunds>>

\* The UPDATE of payments writes the status only, and only for a full refund.
CommitRefund(f) ==
  LET o == OrderOf[f] IN
  /\ pc[f] = "commit"
  /\ refunds' = refunds \cup {f}
  /\ status' = IF RefundAmount[f] = refundable[f]
               THEN [status EXCEPT ![o] = "REFUNDED"] ELSE status
  /\ Goto(f, "refresh")
  /\ UNCHANGED <<refundable, answer, holder>>

(***************************************************************************)
(* A handler that dies - the process, its connection, an exception - rolls *)
(* back: get_db does, or the database when the connection is gone.  Died   *)
(* one by one, handlers die together when the process does.                *)
(***************************************************************************)
Dies(r) ==
  /\ pc[r] \notin {"done", "dead"}
  /\ Goto(r, "dead")
  /\ holder' = [o \in Orders |-> IF holder[o] = r THEN Nobody ELSE holder[o]]
  /\ UNCHANGED <<refundable, answer, status, refunds>>

-----------------------------------------------------------------------------
Pay(r)     == \/ CheckDuplicate(r) \/ Flush(r) \/ Reject(r) \/ Approve(r)
              \/ Refresh(r)
RefundPayment(f) == \/ LoadPayment(f) \/ SumRefunds(f) \/ CommitRefund(f)
                    \/ Refresh(f)

Next == \/ \E r \in Payers : Pay(r)
        \/ \E f \in Refunders : RefundPayment(f)
        \/ \E r \in Requests : Dies(r)

\* The event loop runs every handler that waits for nothing; a handler that
\* waits for an index entry goes on when it is free.
Spec == /\ Init /\ [][Next]_vars
        /\ \A r \in Payers : WF_vars(Pay(r))
        /\ \A f \in Refunders : WF_vars(RefundPayment(f))

-----------------------------------------------------------------------------
(* Properties                                                              *)

\* The entry of an order is held by the request that is deciding it.
TypeOK ==
  /\ pc \in [Requests -> Steps]
  /\ refundable \in [Refunders -> Int]
  /\ answer \in [Requests -> {0, 201, 400, 402, 404, 409, 422}]
  /\ holder \in [Orders -> Payers \cup {Nobody}]
  /\ status \in [Orders -> R!Status]
  /\ refunds \subseteq Refunders
  /\ \A r \in Payers : pc[r] = "decide" <=> holder[OrderOf[r]] = r

\* However many requests come for an order, one of them decides its payment.
DecidedOnce ==
  \A r, s \in Payers :
     /\ OrderOf[r] = OrderOf[s]
     /\ answer[r] \in {201, 402} /\ answer[s] \in {201, 402}
     => r = s

\* What a caller is told is in the table, and a duplicate is only claimed
\* when there is a payment.
AnswerIsRecorded ==
  \A r \in Payers :
     LET s == status[OrderOf[r]] IN
     /\ answer[r] = 201 => s \in {"APPROVED", "REFUNDED"}
     /\ answer[r] = 402 => s = "REJECTED"
     /\ answer[r] = 409 => s # "none"

\* REFUNDED means that all the money went back.
RefundedIsPaidBack ==
  \A o \in Orders :
     status[o] = "REFUNDED" => Total(RefundsOf(o)) >= Amount[o]

\* The table keeps the promises of PaymentRecord.
Recorded == R!Spec

\* Every request ends, whoever else dies holding an index entry.
EveryRequestEnds == \A r \in Requests : <>(pc[r] \in {"done", "dead"})
=============================================================================
