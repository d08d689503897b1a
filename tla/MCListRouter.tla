---------------------------- MODULE MCListRouter ----------------------------
(* Constants of the runs of ListRouter: two adapters, three requests of    *)
(* one and one of the other, at most two of them in service.               *)
EXTENDS ListRouter

CONSTANTS a, b, a1, a2, a3, b1

MCClient == {a, b}
MCReq == {a1, a2, a3, b1}
MCAdapter == [r \in Req |-> IF r = b1 THEN b ELSE a]
MCInputLen == [r \in Req |-> CASE r = a1 -> 1 [] r = a2 -> 3 [] r = a3 -> 5 [] OTHER -> 2]
MCOutputLen == [r \in Req |-> IF r \in {a1, b1} THEN 3 ELSE 1]
MCRank == [c \in Client |-> IF c = a THEN 1 ELSE 0]

(* Latencies for batches of two, prompts padded to 2, 4 or 6: those of    *)
(* three and four requests were not measured.                              *)
MCBase == [n \in {2} |-> [l \in {2, 4, 6} |-> IF l = 2 THEN 5 ELSE l + 4]]
MCWithAdapter ==
  [k \in {1} |-> [n \in {2} |-> [l \in {2, 4, 6} |-> IF l = 2 THEN 6 ELSE l + 6]]]
=============================================================================
