---------------------------- MODULE MCOrderSaga -----------------------------
(***************************************************************************)
(* Two orders for TLC: o1 wants two products, o2 the scarce one of them.   *)
(***************************************************************************)
EXTENDS OrderSaga

CONSTANTS o1, o2, p1, p2

MCItems == [o \in Orders |->
  IF o = o1 THEN <<[product |-> p1, qty |-> 1], [product |-> p2, qty |-> 1]>>
            ELSE <<[product |-> p2, qty |-> 1]>>]

MCStock == [p \in Products |-> 1]
=============================================================================
