--------------------------- MODULE AnswerContract ---------------------------
(***************************************************************************)
(* What a client may rely on, however the answer travels: pieces of its    *)
(* answer arrive in order and once, nothing arrives that was not           *)
(* generated, and nothing after the request was closed.  It does not say   *)
(* that every piece arrives.                                               *)
(***************************************************************************)
EXTENDS Naturals, Sequences, SequencesExt

CONSTANT Req

VARIABLES
  generated,  (* tokens the model has made for a request                    *)
  received,   (* the tokens whose text its client has                       *)
  outcome     (* how the request ended for its client                       *)

Outcomes == {"open", "complete", "refused", "left", "error"}

Init ==
  /\ generated = [r \in Req |-> 0]
  /\ received = [r \in Req |-> <<>>]
  /\ outcome = [r \in Req |-> "open"]

(* Tokens are made for any of the requests at a time.                      *)
Generate ==
  /\ \E S \in SUBSET Req :
       generated' = [r \in Req |-> IF r \in S THEN generated[r] + 1 ELSE generated[r]]
  /\ UNCHANGED <<received, outcome>>

(* What a client has is later than all it had, and was generated.          *)
Follows(piece, r) ==
  /\ \A i \in DOMAIN piece : piece[i] <= generated[r]
  /\ \A i \in DOMAIN piece, j \in DOMAIN received[r] : received[r][j] < piece[i]
  /\ \A i, j \in DOMAIN piece : i < j => piece[i] < piece[j]

Deliver(r, piece) ==
  /\ outcome[r] = "open"
  /\ Follows(piece, r)
  /\ received' = [received EXCEPT ![r] = @ \o piece]
  /\ outcome' \in {outcome, [outcome EXCEPT ![r] = "complete"]}
  /\ UNCHANGED generated

Close(r) ==
  /\ outcome[r] = "open"
  /\ outcome' \in {[outcome EXCEPT ![r] = o] : o \in {"refused", "left", "error"}}
  /\ UNCHANGED <<generated, received>>

(* The pieces that can follow what r's client has.                         *)
Pieces(r) ==
  {[i \in 1..(m - n) |-> n + i] :
     n \in 0..generated[r], m \in 0..generated[r]}

Next ==
  \/ Generate
  \/ \E r \in Req : Close(r) \/ \E piece \in Pieces(r) : Deliver(r, piece)

Spec == Init /\ [][Next]_<<generated, received, outcome>>
=============================================================================
