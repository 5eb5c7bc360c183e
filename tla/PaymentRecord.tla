---------------------------- MODULE PaymentRecord ---------------------------
(***************************************************************************)
(* What the payments table promises to the other services: one payment per *)
(* order, decided once, and refunded at most out of APPROVED (the          *)
(* transitions models.py documents; PENDING never reaches the table).      *)
(***************************************************************************)
CONSTANT Orders

VARIABLE status   \* of the committed payment of each order, or "none"

Status == {"none", "APPROVED", "REJECTED", "REFUNDED"}

Init == status = [o \in Orders |-> "none"]

Decide(o) == /\ status[o] = "none"
             /\ \E s \in {"APPROVED", "REJECTED"} :
                  status' = [status EXCEPT ![o] = s]

Refund(o) == /\ status[o] = "APPROVED"
             /\ status' = [status EXCEPT ![o] = "REFUNDED"]

Next == \E o \in Orders : Decide(o) \/ Refund(o)

Spec == Init /\ [][Next]_status
=============================================================================
