---------------------------- MODULE MCVtcRouter ----------------------------
(* Constants of the runs of VtcRouter: two clients with up to two requests *)
(* each, at most two of them in service.                                   *)
EXTENDS VtcContract

CONSTANTS a, b, a1, a2, b1, b2

MCClient == {a, b}
MCAdapter == [r \in Req |-> IF r \in {a1, a2} THEN a ELSE b]

(* A long prompt b1 among short ones: the pool holds two requests of a     *)
(* client, or two short ones of different clients and their adapters.      *)
MCReq == {a1, a2, b1, b2}
MCInputLen == [r \in Req |-> IF r = b1 THEN 5 ELSE 1]
MCOutputLen == [r \in Req |-> IF r = b1 THEN 2 ELSE 3]

(* Three requests, of which a1 does not fit in a batch with b1's prompt.   *)
ThreeReqs == {a1, a2, b1}
ThreeInputLen == [r \in Req |-> CASE r = a1 -> 3 [] r = a2 -> 1 [] OTHER -> 2]
ThreeOutputLen == [r \in Req |-> CASE r = a1 -> 1 [] r = a2 -> 3 [] OTHER -> 2]

(* Adapters of rank 1, none at all, and one of a that leaves no room.      *)
WithLora == [c \in Client |-> 1]
NoLora == [c \in Client |-> 0]
LargeLora == [c \in Client |-> IF c = a THEN 2 ELSE 0]
=============================================================================
