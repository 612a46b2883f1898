--------------------------- MODULE MCHttpTransport ---------------------------
(* HttpTransport on three grants, the third of another user.                *)
EXTENDS HttpTransport

CONSTANTS g1, g2, g3, r1, r2, s1, e1, e2, u1, u2

MCOwner == [g \in Grants |-> IF g = g3 THEN u2 ELSE u1]
=============================================================================
