------------------------------ MODULE MCVtcGap ------------------------------
(* Constants of the run of VtcGapHistory: client a can be served more     *)
(* than the gap bound before client b's only request arrives, so a queue   *)
(* that let b keep its old counter would be seen.                          *)
EXTENDS VtcGapHistory

CONSTANTS a, b, a1, a2, a3, b1

MCClient == {a, b}
MCReq == {a1, a2, a3, b1}
MCAdapter == [r \in MCReq |-> IF r = b1 THEN b ELSE a]
MCInputLen == [r \in MCReq |-> IF r = a3 THEN 2 ELSE 1]
MCOutputLen == [r \in MCReq |-> IF r = a3 THEN 1 ELSE 2]

NoLora == [c \in MCClient |-> 0]
=============================================================================
