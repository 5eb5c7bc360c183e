--------------------------- MODULE MCProductStore ---------------------------
(***************************************************************************)
(* One product with one piece: it is created, read, two deductions and a   *)
(* restoration compete for it, and administrators change its price or take *)
(* it off sale, as the .cfg chooses.                                       *)
(***************************************************************************)
EXTENDS ProductStore

CONSTANTS p1, g1, g2, d1, d2, t1, e1, e2, c1

MCStock     == [p \in Products |-> 1]
MCProductOf == [r \in Requests |-> p1]
MCQuantity  == [r \in Deducts \cup Restores |-> 1]
MCPayload   == [e \in Edits |-> IF e = e1 THEN [price |-> 1]
                                ELSE [is_active |-> FALSE]]
=============================================================================
