---------------------------- MODULE MCTokenStore ----------------------------
(* TokenStore on two processes at most, with every caller in the first.     *)
EXTENDS TokenStore

CONSTANTS p1, p2, c1, c2

MCProcOf == [c \in Calls |-> p1]
=============================================================================
