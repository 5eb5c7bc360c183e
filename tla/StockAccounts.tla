---------------------------- MODULE StockAccounts ---------------------------
(***************************************************************************)
(* What the products table promises to whoever orders: stock is taken from *)
(* products on sale only and never below zero, and every change an order   *)
(* makes to it moves the version on by one.  An administrator's edit leaves*)
(* the version alone, and the stock too unless the stock is what is edited.*)
(***************************************************************************)
EXTENDS Integers

CONSTANTS
  Products,
  InitStock,
  Recounted   \* products whose stock some administrator sets

VARIABLES stock, version, active

vars == <<stock, version, active>>

Init == /\ stock = InitStock
        /\ version = [p \in Products |-> 1]
        /\ active \in [Products -> BOOLEAN]   \* nobody sells what is not created

Others(p) == \A q \in Products \ {p} : /\ stock'[q] = stock[q]
                                       /\ version'[q] = version[q]
                                       /\ active'[q] = active[q]

\* An order takes (the stock falls) or gives back (it rises).
Order(p) == /\ active[p]
            /\ stock'[p] \in Nat \ {stock[p]}
            /\ version'[p] = version[p] + 1
            /\ active'[p] = active[p]
            /\ Others(p)

Edit(p)  == /\ \/ stock'[p] = stock[p]
               \/ p \in Recounted /\ stock'[p] \in Nat
            /\ version'[p] = version[p]
            /\ active'[p] \in BOOLEAN
            /\ Others(p)

Next == \E p \in Products : Order(p) \/ Edit(p)

Spec == Init /\ [][Next]_vars
=============================================================================
