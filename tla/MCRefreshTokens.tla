-------------------------- MODULE MCRefreshTokens ---------------------------
(***************************************************************************)
(* u1 has two devices with a session; u2 registers twice at once.          *)
(***************************************************************************)
EXTENDS RefreshTokens

CONSTANTS u1, u2, d1, d2, g1, g2, l1, r1, r2, r3, o1

MCFirstAccount == [u \in Users |-> IF u = u1 THEN "active" ELSE "none"]

MCUserOf == [x \in Devices \cup Registers |-> IF x \in {g1, g2} THEN u2 ELSE u1]
=============================================================================
