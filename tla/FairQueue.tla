------------------------------ MODULE FairQueue ------------------------------
(***************************************************************************)
(* The VTC request queue (class FairQueue and its QueuedRequests of        *)
(* fair_queue.py): one FIFO queue and one virtual token counter per        *)
(* client, and the client that emptied the queue last.                     *)
(*                                                                         *)
(* The operators below are the queue's methods, each the part of an action *)
(* that says what the method does to the queue's variables.                *)
(***************************************************************************)
EXTENDS Admission, Sequences

CONSTANTS
  service_def,        (* "linear", "tiered" or "quadratic"                  *)
  HIGH_TIER_START,    (* 2000 in the code, smaller in the runs              *)
  QUADRATIC_DIVISOR   (* 1000 in the code, smaller in the runs              *)

ASSUME ServiceAssumption ==
  /\ service_def \in {"linear", "tiered", "quadratic"}
  /\ HIGH_TIER_START \in Nat
  /\ QUADRATIC_DIVISOR \in Nat \ {0}

VARIABLES
  counters,  (* counters_by_client, in units of 1/Unit token                *)
  queued,    (* queued_requests_by_client; an absent key is the empty queue *)
  older,     (* insertion order of that dict: <<c, d>> when key c is before *)
             (* key d                                                       *)
  lastLeft   (* client_that_made_Q_empty_when_last_request_left             *)

queueVars == <<counters, queued, older, lastLeft>>

-----------------------------------------------------------------------------
(* Costs.  The quadratic definition divides by QUADRATIC_DIVISOR, so its   *)
(* counters are kept multiplied by it (exact, where the code uses floats). *)

w_p_input == 1
w_q_output == 2

Unit == IF service_def = "quadratic" THEN QUADRATIC_DIVISOR ELSE 1

(* The charge for admitting a prompt of len tokens.                        *)
PromptCharge(len) ==
  CASE service_def = "linear" -> w_p_input * len
    [] service_def = "tiered" ->
         IF len >= HIGH_TIER_START THEN 2 * w_p_input * len ELSE w_p_input * len
    [] service_def = "quadratic" -> Unit * w_p_input * len + w_p_input * len * len

(* The charge for a decode step of a request with a prompt of len tokens   *)
(* whose output_len has become n: output_len counts decode steps, so it is *)
(* the number of output tokens the request had before this one.            *)
DecodeCharge(len, n) ==
  CASE service_def = "linear" -> w_q_output
    [] service_def = "tiered" ->
         IF len >= HIGH_TIER_START THEN 2 * w_q_output ELSE w_q_output
    [] service_def = "quadratic" -> Unit * w_q_output + w_q_output * n

-----------------------------------------------------------------------------
(* QueuedRequests.                                                         *)

ClientsInQueue == {c \in Client : queued[c] # <<>>}
WaitingReqs == UNION {{queued[c][i] : i \in 1..Len(queued[c])} : c \in Client}
Earliest(c) == Head(queued[c])

(* Mutation of PushRequest: appendleft, the newest first.                  *)
PushRequestFirst(r) ==
  LET c == adapter_dir[r]
  IN  /\ queued' = [queued EXCEPT ![c] = <<r>> \o @]
      /\ older' = IF c \in ClientsInQueue
                    THEN older
                    ELSE older \cup {<<d, c>> : d \in ClientsInQueue}
      /\ UNCHANGED lastLeft

PushRequest(r) ==
  LET c == adapter_dir[r]
  IN  /\ queued' = [queued EXCEPT ![c] = Append(@, r)]
      /\ older' = IF c \in ClientsInQueue
                    THEN older
                    ELSE older \cup {<<d, c>> : d \in ClientsInQueue}
      /\ UNCHANGED lastLeft

(* Mutation of RemoveEarliest: who emptied the queue is not remembered.    *)
RemoveForgets(c) ==
  /\ queued' = [queued EXCEPT ![c] = Tail(@)]
  /\ older' = IF Tail(queued[c]) = <<>>
                THEN {p \in older : c \notin {p[1], p[2]}}
                ELSE older
  /\ lastLeft' = NoClient

(* remove_request, always called with the earliest request of client c.    *)
RemoveEarliest(c) ==
  /\ queued' = [queued EXCEPT ![c] = Tail(@)]
  /\ older' = IF Tail(queued[c]) = <<>>
                THEN {p \in older : c \notin {p[1], p[2]}}
                ELSE older
  /\ lastLeft' = IF ClientsInQueue \ {c} = {} /\ Tail(queued[c]) = <<>>
                   THEN c ELSE NoClient

-----------------------------------------------------------------------------
(* FairQueue.                                                              *)

(* min(clients_in_queue, key=counter): the first of the smallest in the    *)
(* dict's order.                                                           *)
IsNext(k) ==
  /\ k \in ClientsInQueue
  /\ \A c \in ClientsInQueue \ {k} :
       \/ counters[k] < counters[c]
       \/ counters[k] = counters[c] /\ <<k, c>> \in older

(* Mutation of LiftTo: a returning client keeps its old counter.           *)
KeepsCredit(u, floor) == UNCHANGED counters

(* counters[u] becomes at least floor.                                     *)
LiftTo(u, floor) ==
  counters' = [counters EXCEPT ![u] = IF @ < floor THEN floor ELSE @]

(* append: a client with nothing queued may not spend the time it was away *)
(* as credit, so it is lifted to the smallest counter in the queue, or to  *)
(* that of the client that emptied the queue.                              *)
AppendReq(r) ==
  LET u == adapter_dir[r]
  IN  /\ \/ u \in ClientsInQueue /\ UNCHANGED counters
         \/ /\ ClientsInQueue = {}
            /\ LiftTo(u, IF lastLeft = NoClient THEN 0 ELSE counters[lastLeft])
         \/ /\ u \notin ClientsInQueue
            /\ \E m \in ClientsInQueue :
                 /\ \A c \in ClientsInQueue : counters[m] <= counters[c]
                 /\ LiftTo(u, counters[m])
      /\ PushRequest(r)

(* The part of generate_new_batch that takes request r of client k.        *)
TakeEarliest(k) ==
  /\ counters' = [counters EXCEPT ![k] = @ + PromptCharge(input_len[Earliest(k)])]
  /\ RemoveEarliest(k)

(* One request's share of update_counter.                                  *)
ChargeDecode(r, n) ==
  /\ counters' = [counters EXCEPT ![adapter_dir[r]] =
                    @ + DecodeCharge(input_len[r], n)]
  /\ UNCHANGED <<queued, older, lastLeft>>

QueueInit ==
  /\ counters = [c \in Client |-> 0]
  /\ queued = [c \in Client |-> <<>>]
  /\ older = {}
  /\ lastLeft = NoClient
=============================================================================
