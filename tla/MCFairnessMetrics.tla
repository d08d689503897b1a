------------------------- MODULE MCFairnessMetrics -------------------------
(* Constants of the runs of FairnessMetrics: two clients, three requests.  *)
EXTENDS FairnessMetrics

CONSTANTS a, b, a1, a2, b1

MCClient == {a, b}
MCReq == {a1, a2, b1}
OneEach == {a1, b1}
MCAdapter == [r \in Req |-> IF r = b1 THEN b ELSE a]
MCInputLen == [r \in Req |-> IF r \in {a2, b1} THEN 2 ELSE 1]
MCOutputLen == [r \in Req |-> IF r = a2 THEN 2 ELSE 3]
NoLora == [c \in Client |-> 0]
=============================================================================
