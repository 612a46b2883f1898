--------------------------- MODULE MCZendeskGrants ---------------------------
(* ZendeskGrants on a few grants and operations.                            *)
EXTENDS ZendeskGrants

CONSTANTS g1, g2, o1, o2, o3
=============================================================================
