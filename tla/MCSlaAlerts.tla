----------------------------- MODULE MCSlaAlerts -----------------------------
(* SlaAlerts on a few resources and listen streams.                          *)
EXTENDS SlaAlerts

CONSTANTS u1, u2, s1, s2, w1, w2

MCMaxChanges == [u \in Uris |-> IF u = u1 THEN 1 ELSE 0]
=============================================================================
