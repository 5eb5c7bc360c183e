----------------------------- MODULE MCPayment ------------------------------
(***************************************************************************)
(* Two requests to pay the same order, which is refunded by halves and at  *)
(* once.                                                                   *)
(***************************************************************************)
EXTENDS Payment

CONSTANTS o1, r1, r2, f1, f2, f3

MCAmount == [o \in Orders |-> 2]

MCOrderOf == [r \in Payers \cup Refunders |-> o1]

MCRefundAmount == [f \in Refunders |-> IF f = f3 THEN 2 ELSE 1]
=============================================================================
