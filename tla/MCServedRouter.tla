--------------------------- MODULE MCServedRouter ---------------------------
(* Constants of the runs of ServedRouter: three clients with adapters of   *)
(* three sizes.  x1 and y2 end when they are prefilled and leave their     *)
(* adapters behind, of which y1 still uses the second; y1 and z1 stay and  *)
(* are merged, whichever comes first.                                      *)
EXTENDS ServedRouter

CONSTANTS x, y, z, x1, y1, y2, z1

MCClient == {x, y, z}
MCReq == {x1, y1, y2, z1}
MCAdapter == [r \in Req |-> CASE r = x1 -> x [] r = z1 -> z [] OTHER -> y]
MCRank == [k \in Client |-> CASE k = x -> 3 [] k = y -> 1 [] OTHER -> 2]
MCInputLen == [r \in Req |-> CASE r = x1 -> 3 [] r = y1 -> 2 [] OTHER -> 1]
MCOutputLen == [r \in Req |-> CASE r = y1 -> 5 [] r = z1 -> 3 [] OTHER -> 1]
=============================================================================
