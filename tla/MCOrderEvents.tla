--------------------------- MODULE MCOrderEvents ----------------------------
(***************************************************************************)
(* Two orders and one message that is no event.                            *)
(***************************************************************************)
EXTENDS OrderEvents

CONSTANTS o1, o2, x1
=============================================================================
