--------------------------- MODULE Fairness_proofs ---------------------------
(***************************************************************************)
(* Proofs about fairness, for any clients, requests, limits and cost       *)
(* definition: the VTC scheduler keeps its promise (BoundedGap of VtcGap), *)
(* the measured service and the virtual counters are the same account, and *)
(* the file of the measurements is whole wherever the process is killed.   *)
(***************************************************************************)
EXTENDS FairnessMetrics, VtcGapHistory, VtcRouter_proofs

-----------------------------------------------------------------------------
(* The promise (VtcGap, VtcGapHistory).                                    *)

(* The bounds of a request that the HTTP server accepted.                  *)
LEMMA RequestBounds ==
  ASSUME NEW r \in Req
  PROVE  /\ input_len[r] \in Nat
         /\ input_len[r] <= max_req_input_len
         /\ max_output_len[r] \in Nat \ {0}
         /\ \A n \in Nat : n >= 1 /\ n < max_output_len[r] => n <= MaxSteps
<1>1. /\ input_len[r] \in Nat \ {0}
      /\ max_output_len[r] \in Nat \ {0}
      /\ max_req_input_len \in Nat
      /\ max_req_total_len \in Nat
      /\ input_len[r] <= max_req_input_len
      /\ input_len[r] + max_output_len[r] <= max_req_total_len
  BY RequestAssumption, LimitAssumption DEF HttpAccepts
<1>2. QED
  BY <1>1 DEF MaxSteps

LEMMA BoundsNat ==
  /\ MaxSteps \in Nat
  /\ MaxPromptCharge \in Nat
  /\ MaxDecodeCharge \in Nat
  /\ MaxRoundCharge \in Nat
  /\ running_max_req_size \in Nat
  /\ GapBound \in Nat
<1>1. MaxSteps \in Nat
  BY LimitAssumption DEF MaxSteps
<1>2. MaxPromptCharge \in Nat /\ MaxDecodeCharge \in Nat
  BY <1>1, LimitAssumption, PromptChargeNat, DecodeChargeNat
  DEF MaxPromptCharge, MaxDecodeCharge
<1>3. MaxRoundCharge \in Nat
  BY <1>2, LimitAssumption, ProductNat DEF MaxRoundCharge
<1>4. MaxRoundCharge * MaxSteps \in Nat
  BY <1>1, <1>3, ProductNat
<1>5. QED
  BY <1>1, <1>2, <1>3, <1>4, LimitAssumption DEF GapBound

(* No request is charged more for its prompt than the longest prompt is.   *)
LEMMA PromptChargeBound ==
  ASSUME NEW r \in Req
  PROVE  PromptCharge(input_len[r]) <= MaxPromptCharge
<1> DEFINE len == input_len[r]
           max == max_req_input_len
<1>1. len \in Nat /\ max \in Nat /\ len <= max /\ Unit \in Nat
  BY RequestBounds, LimitAssumption, ServiceAssumption DEF Unit
<1> HIDE DEF len, max
<1>2. PromptCharge(len) <= PromptCharge(max)
  <2>1. CASE service_def = "linear"
    BY <1>1, <2>1 DEF PromptCharge, w_p_input
  <2>2. CASE service_def = "tiered"
    BY <1>1, <2>2, ServiceAssumption DEF PromptCharge, w_p_input
  <2>3. CASE service_def = "quadratic"
    <3>1. len * len <= max * max
      <4>1. len * len <= len * max
        BY <1>1, ProductGrows
      <4>2. max * len <= max * max
        BY <1>1, ProductGrows
      <4>3. len * max = max * len
        BY <1>1
      <4>4. /\ len * len \in Nat /\ len * max \in Nat
            /\ max * len \in Nat /\ max * max \in Nat
        BY <1>1, ProductNat
      <4>5. QED
        BY <4>1, <4>2, <4>3, <4>4
    <3>2. Unit * len <= Unit * max
      BY <1>1, ProductGrows
    <3>3. /\ Unit * len \in Nat /\ Unit * max \in Nat
          /\ len * len \in Nat /\ max * max \in Nat
      BY <1>1, ProductNat
    <3>4. /\ PromptCharge(len) = Unit * len + len * len
          /\ PromptCharge(max) = Unit * max + max * max
      BY <1>1, <2>3 DEF PromptCharge, w_p_input
    <3>5. QED
      BY <3>1, <3>2, <3>3, <3>4
  <2>4. QED
    BY <2>1, <2>2, <2>3, ServiceAssumption
<1>3. QED
  BY <1>2 DEF len, max, MaxPromptCharge

(* Every admission moves a counter.                                        *)
LEMMA PromptChargePositive ==
  ASSUME NEW r \in Req
  PROVE  PromptCharge(input_len[r]) > 0
<1> DEFINE len == input_len[r]
<1>1. len \in Nat \ {0} /\ Unit \in Nat \ {0}
  BY RequestAssumption, ServiceAssumption DEF HttpAccepts, Unit
<1> SUFFICES PromptCharge(len) > 0
  OBVIOUS
<1> HIDE DEF len
<1>2. CASE service_def = "linear"
  BY <1>1, <1>2 DEF PromptCharge, w_p_input
<1>3. CASE service_def = "tiered"
  BY <1>1, <1>3, ServiceAssumption DEF PromptCharge, w_p_input
<1>4. CASE service_def = "quadratic"
  <2>1. Unit * len \in Nat /\ len * len \in Nat /\ len * len > 0
    <3>1. len * 1 <= len * len
      BY <1>1, ProductGrows
    <3>2. QED
      BY <1>1, <3>1, ProductNat
  <2>2. PromptCharge(len) = Unit * len + len * len
    BY <1>1, <1>4 DEF PromptCharge, w_p_input
  <2>3. QED
    BY <2>1, <2>2
<1>5. QED
  BY <1>2, <1>3, <1>4, ServiceAssumption

(* Nor for a decode step than the longest prompt in its last step.         *)
LEMMA DecodeChargeBound ==
  ASSUME NEW r \in Req, NEW n \in Nat, n <= MaxSteps
  PROVE  DecodeCharge(input_len[r], n) <= MaxDecodeCharge
<1>1. /\ input_len[r] \in Nat /\ max_req_input_len \in Nat
      /\ input_len[r] <= max_req_input_len /\ Unit \in Nat /\ MaxSteps \in Nat
  BY RequestBounds, BoundsNat, LimitAssumption, ServiceAssumption DEF Unit
<1>2. CASE service_def = "linear"
  BY <1>2 DEF DecodeCharge, MaxDecodeCharge, w_q_output
<1>3. CASE service_def = "tiered"
  BY <1>1, <1>3, ServiceAssumption DEF DecodeCharge, MaxDecodeCharge, w_q_output
<1>4. CASE service_def = "quadratic"
  <2>1. Unit * w_q_output \in Nat
    BY <1>1 DEF w_q_output
  <2>2. QED
    BY <1>1, <1>4, <2>1 DEF DecodeCharge, MaxDecodeCharge, w_q_output
<1>5. QED
  BY <1>2, <1>3, <1>4, ServiceAssumption

-----------------------------------------------------------------------------
(* Values for base and steps.                                              *)

Base == [Client -> Nat]
Steps == [Client -> 0..MaxSteps]

(* What a batch of one client costs in a decode step is at most a round.   *)
LEMMA RoundBound ==
  ASSUME TypeOK, BatchesOK, NEW u \in Client
  PROVE  /\ Cardinality(RequestsOf(u, running)) \in Nat
         /\ MaxDecodeCharge * Cardinality(RequestsOf(u, running)) \in Nat
         /\ MaxDecodeCharge * Cardinality(RequestsOf(u, running)) <= MaxRoundCharge
<1> DEFINE mine == RequestsOf(u, running)
<1>1. /\ running \cup mini \in SUBSET Req
      /\ mine \in SUBSET (running \cup mini)
      /\ mine \in SUBSET Req
      /\ Cardinality(running \cup mini) <= running_max_req_size
  BY DEF TypeOK, BatchesOK, RequestsOf
<1> HIDE DEF mine
<1>2. Cardinality(mine) <= running_max_req_size
  BY <1>1, FewerInService
<1>3. Cardinality(mine) \in Nat
  BY <1>1, BatchFinite
<1>4. MaxDecodeCharge * Cardinality(mine) <= MaxDecodeCharge * running_max_req_size
  BY <1>2, <1>3, BoundsNat, ProductGrows
<1>5. MaxDecodeCharge * Cardinality(mine) \in Nat
  BY <1>3, BoundsNat, ProductNat
<1>6. QED
  BY <1>3, <1>4, <1>5 DEF mine, MaxRoundCharge

(* Outside update_counter there is nothing left to charge.                 *)
LEMMA NothingUncharged ==
  ASSUME TypeOK, uncharged = {}, NEW u \in Client
  PROVE  MaxDecodeCharge * Cardinality(RequestsOf(u, uncharged)) = 0
<1>1. RequestsOf(u, uncharged) = {}
  BY DEF RequestsOf
<1>2. Cardinality(RequestsOf(u, uncharged)) = 0
  BY <1>1, FS_EmptySet
<1>3. QED
  BY <1>2, BoundsNat

(* The queue and the counters stay as they are.                            *)
LEMMA GapStill ==
  ASSUME NEW b \in Base, NEW s \in Steps, Anchored(b, s), BasesBelowQueue(b),
         UNCHANGED <<queueVars, uncharged>>
  PROVE  Anchored(b, s)' /\ BasesBelowQueue(b)'
BY DEF Anchored, BasesBelowQueue, Floor, ClientsInQueue, RequestsOf, queueVars

(* A request leaves the queue of a client with the smallest counter.       *)
LEMMA GapRemove ==
  ASSUME TypeOK, NEW b \in Base, NEW k \in Client, queued[k] # <<>>,
         BasesBelowQueue(b), RemoveEarliest(k),
         counters' \in [Client -> Nat],
         \A v \in Client : counters[v] <= counters'[v]
  PROVE  BasesBelowQueue(b)'
<1>1. /\ \A v \in Client : v \in ClientsInQueue' => v \in ClientsInQueue
      /\ ClientsInQueue' = {} => lastLeft' = k
  <2>1. queued' = [queued EXCEPT ![k] = Tail(@)]
    BY DEF RemoveEarliest
  <2>2. \A v \in Client : v \in ClientsInQueue' => v \in ClientsInQueue
    BY <2>1 DEF ClientsInQueue, TypeOK
  <2>3. ASSUME ClientsInQueue' = {} PROVE lastLeft' = k
    <3>1. \A v \in Client : queued'[v] = <<>>
      BY <2>3 DEF ClientsInQueue
    <3>2. Tail(queued[k]) = <<>> /\ \A v \in Client \ {k} : queued[v] = <<>>
      BY <2>1, <3>1 DEF TypeOK
    <3>3. QED
      BY <3>2 DEF RemoveEarliest, ClientsInQueue
  <2>4. QED
    BY <2>2, <2>3
<1>2. k \in ClientsInQueue /\ k # NoClient
  BY ClientAssumption DEF ClientsInQueue
<1>3. ASSUME NEW u \in Client, NEW v \in ClientsInQueue'
      PROVE  b[u] <= counters'[v]
  <2>1. v \in Client /\ v \in ClientsInQueue
    BY <1>1 DEF ClientsInQueue
  <2>2. b[u] <= counters[v] /\ counters[v] <= counters'[v]
    BY <2>1 DEF BasesBelowQueue
  <2>3. b[u] \in Nat /\ counters[v] \in Nat /\ counters'[v] \in Nat
    BY <2>1 DEF TypeOK, Base
  <2>4. QED
    BY <2>2, <2>3
<1>4. ASSUME NEW u \in Client, ClientsInQueue' = {}
      PROVE  b[u] <= Floor'
  <2>1. Floor' = counters'[k]
    BY <1>1, <1>2, <1>4 DEF Floor
  <2>2. b[u] <= counters[k] /\ counters[k] <= counters'[k]
    BY <1>2 DEF BasesBelowQueue
  <2>3. b[u] \in Nat /\ counters[k] \in Nat /\ counters'[k] \in Nat
    BY DEF TypeOK, Base
  <2>4. QED
    BY <2>1, <2>2, <2>3
<1>5. QED
  BY <1>3, <1>4 DEF BasesBelowQueue

(* A request is taken: its client's base becomes the counter it had.       *)
LEMMA GapAdmit ==
  ASSUME TypeOK, TypeOK', BatchesOK, QueueOK,
         NEW b \in Base, NEW s \in Steps, GapInv(b, s),
         NEW k \in Client, Admit(k), NEW n \in Nat, n = counters[k]
  PROVE  GapInv([b EXCEPT ![k] = n], [s EXCEPT ![k] = 0])'
<1> DEFINE e == Earliest(k)
           b2 == [b EXCEPT ![k] = n]
           s2 == [s EXCEPT ![k] = 0]
<1>1. /\ pc = "admit" /\ pc' = "admit"
      /\ IsNext(k)
      /\ counters' = [counters EXCEPT ![k] = @ + PromptCharge(input_len[e])]
      /\ RemoveEarliest(k)
      /\ mini' = mini \cup {e}
      /\ UNCHANGED <<running, uncharged, outputs>>
  BY DEF Admit, TakeEarliest
<1>2. queued[k] # <<>> /\ k \in ClientsInQueue
  BY <1>1 DEF IsNext, ClientsInQueue
<1>3. e \in Req /\ adapter_dir[e] = k /\ outputs[e] = 0
  BY <1>2, WaitingHeadTail DEF QueueOK, WaitsOnceIn
<1>4. /\ PromptCharge(input_len[e]) \in Nat
      /\ PromptCharge(input_len[e]) <= MaxPromptCharge
  BY <1>3, RequestBounds, PromptChargeNat, PromptChargeBound
<1>5. b2 \in Base /\ s2 \in Steps
  <2>1. 0 \in 0..MaxSteps
    BY BoundsNat
  <2>2. QED
    BY <2>1 DEF Base, Steps
<1>6. /\ counters'[k] = counters[k] + PromptCharge(input_len[e])
      /\ \A u \in Client \ {k} : counters'[u] = counters[u]
      /\ counters \in [Client -> Nat] /\ counters' \in [Client -> Nat]
  BY <1>1 DEF TypeOK
<1>7. /\ b2[k] = counters[k] /\ s2[k] = 0
      /\ \A u \in Client \ {k} : b2[u] = b[u] /\ s2[u] = s[u]
  BY DEF Base, Steps
<1> HIDE DEF e, b2, s2
<1>8. uncharged = {} /\ uncharged' = {}
  BY <1>1 DEF BatchesOK
<1>9. Anchored(b2, s2)'
  <2>1. SUFFICES ASSUME NEW u \in Client
                 PROVE  counters'[u] + MaxDecodeCharge * Cardinality(RequestsOf(u, uncharged'))
                          <= b2[u] + MaxPromptCharge + MaxRoundCharge * s2[u]
    BY <1>5 DEF Anchored, RequestsOf
  <2>2. MaxDecodeCharge * Cardinality(RequestsOf(u, uncharged')) = 0
    BY <1>8, NothingUncharged
  <2>3. CASE u = k
    <3>1. MaxRoundCharge * s2[u] = 0
      BY <1>7, <2>3, BoundsNat
    <3>2. QED
      BY <1>4, <1>6, <1>7, <2>2, <2>3, <3>1, BoundsNat
  <2>4. CASE u # k
    <3>1. counters[u] + MaxDecodeCharge * Cardinality(RequestsOf(u, uncharged))
            <= b[u] + MaxPromptCharge + MaxRoundCharge * s[u]
      BY DEF GapInv, Anchored
    <3>2. QED
      BY <1>6, <1>7, <1>8, <2>4, <3>1
  <2>5. QED
    BY <2>3, <2>4
<1>10. BasesBelowQueue(b2)
  <2>1. ASSUME NEW v \in ClientsInQueue PROVE counters[k] <= counters[v]
    <3>1. counters[k] \in Nat /\ counters[v] \in Nat
      BY <1>6 DEF ClientsInQueue
    <3>2. v = k \/ counters[k] < counters[v] \/ counters[k] = counters[v]
      BY <1>1 DEF IsNext
    <3>3. QED
      BY <3>1, <3>2
  <2>2. QED
    BY <1>2, <1>7, <2>1 DEF GapInv, BasesBelowQueue
<1>11. \A v \in Client : counters[v] <= counters'[v]
  BY <1>4, <1>6
<1>12. BasesBelowQueue(b2)'
  BY <1>1, <1>2, <1>5, <1>6, <1>10, <1>11, GapRemove
<1>13. StepsCovered(s2)'
  <2>1. ASSUME NEW r \in running
        PROVE  Generating(r, s2, 0)'
    <3>1. r \in Req /\ adapter_dir[r] \in Client /\ outputs[r] \in Nat
      BY RequestAssumption DEF TypeOK
    <3>2. Generating(r, s, 0)
      BY <1>1, <2>1 DEF GapInv, StepsCovered
    <3>3. s2[adapter_dir[r]] \in {0, s[adapter_dir[r]]}
      BY <1>7, <3>1
    <3>4. QED
      BY <1>1, <3>1, <3>2, <3>3 DEF Generating
  <2>2. ASSUME NEW r \in mini'
        PROVE  NotStarted(r, s2)'
    <3>1. r \in Req /\ adapter_dir[r] \in Client
      BY RequestAssumption DEF TypeOK
    <3>2. CASE r = e
      BY <1>1, <1>3, <1>7, <3>2 DEF NotStarted
    <3>3. CASE r # e
      <4>1. NotStarted(r, s)
        BY <1>1, <2>2, <3>3 DEF GapInv, StepsCovered
      <4>2. s2[adapter_dir[r]] \in {0, s[adapter_dir[r]]}
        BY <1>7, <3>1
      <4>3. QED
        BY <1>1, <4>1, <4>2 DEF NotStarted
    <3>4. QED
      BY <3>2, <3>3
  <2>3. QED
    BY <1>1, <2>1, <2>2 DEF StepsCovered
<1>14. GapInv(b2, s2)'
  BY <1>9, <1>12, <1>13 DEF GapInv
<1>15. QED
  BY <1>14 DEF b2, s2

(* What a request finds when it arrives: floor, the counter its client is  *)
(* lifted to if it has nothing queued, is not below any base.              *)
LEMMA ArrivalFloor ==
  ASSUME TypeOK, TypeOK', NEW b \in Base, BasesBelowQueue(b),
         NEW r \in Req, AppendReq(r)
  PROVE  LET u == adapter_dir[r]
         IN  /\ u \in Client
             /\ ClientsInQueue' = ClientsInQueue \cup {u}
             /\ \A w \in Client \ {u} : counters'[w] = counters[w]
             /\ \A w \in Client : counters[w] <= counters'[w]
             /\ \A w \in Client : b[w] <= counters'[u]
             /\ counters'[u] # counters[u] =>
                  \A v \in ClientsInQueue : counters'[u] <= counters[v]
<1> DEFINE u == adapter_dir[r]
<1>1. u \in Client
  BY RequestAssumption
<1>2. /\ counters \in [Client -> Nat]
      /\ queued \in [Client -> Seq(Req)]
      /\ lastLeft \in Client \cup {NoClient}
  BY DEF TypeOK
<1>3. queued' = [queued EXCEPT ![u] = Append(@, r)]
  BY DEF AppendReq, PushRequest
<1> HIDE DEF u
<1>4. ClientsInQueue' = ClientsInQueue \cup {u}
  <2>1. queued'[u] = Append(queued[u], r)
    BY <1>1, <1>2, <1>3
  <2>2. Append(queued[u], r) # <<>>
    <3>1. queued[u] \in Seq(Req)
      BY <1>1, <1>2
    <3>2. Len(Append(queued[u], r)) = Len(queued[u]) + 1 /\ Len(queued[u]) \in Nat
      BY <3>1, AppendProperties, LenProperties
    <3>3. Len(<<>>) = 0
      OBVIOUS
    <3>4. QED
      BY <3>2, <3>3
  <2>3. \A v \in Client \ {u} : queued'[v] = queued[v]
    BY <1>2, <1>3
  <2>4. QED
    BY <1>1, <2>1, <2>2, <2>3 DEF ClientsInQueue
<1>5. CASE u \in ClientsInQueue /\ counters' = counters
  BY <1>1, <1>2, <1>4, <1>5 DEF BasesBelowQueue, u, ClientsInQueue
<1>6. ASSUME NEW f \in Nat, LiftTo(u, f),
             \A w \in Client : b[w] <= f,
             \A v \in ClientsInQueue : f <= counters[v]
      PROVE  /\ \A w \in Client \ {u} : counters'[w] = counters[w]
             /\ \A w \in Client : counters[w] <= counters'[w]
             /\ \A w \in Client : b[w] <= counters'[u]
             /\ counters'[u] # counters[u] =>
                  \A v \in ClientsInQueue : counters'[u] <= counters[v]
  <2>1. /\ counters'[u] = IF counters[u] < f THEN f ELSE counters[u]
        /\ \A w \in Client \ {u} : counters'[w] = counters[w]
    BY <1>1, <1>2, <1>6 DEF LiftTo
  <2>2. /\ counters'[u] \in Nat
        /\ counters[u] <= counters'[u]
        /\ f <= counters'[u]
        /\ counters'[u] # counters[u] => counters'[u] = f
    BY <1>1, <1>2, <1>6, <2>1
  <2>3. \A w \in Client : b[w] \in Nat /\ counters[w] \in Nat
    BY <1>2 DEF Base
  <2>4. \A w \in Client : b[w] <= counters'[u]
    BY <1>6, <2>2, <2>3
  <2>5. \A w \in Client : counters[w] <= counters'[w]
    BY <2>1, <2>2, <2>3
  <2>6. QED
    BY <1>6, <2>1, <2>2, <2>4, <2>5
<1>7. CASE ClientsInQueue = {} /\ LiftTo(u, Floor)
  <2>1. Floor \in Nat
    BY <1>2 DEF Floor
  <2>2. \A w \in Client : b[w] <= Floor
    BY <1>7 DEF BasesBelowQueue
  <2>3. QED
    BY <1>1, <1>4, <1>6, <1>7, <2>1, <2>2 DEF u
<1>8. ASSUME NEW m \in ClientsInQueue, LiftTo(u, counters[m]),
             \A c \in ClientsInQueue : counters[m] <= counters[c]
      PROVE  /\ \A w \in Client \ {u} : counters'[w] = counters[w]
             /\ \A w \in Client : counters[w] <= counters'[w]
             /\ \A w \in Client : b[w] <= counters'[u]
             /\ counters'[u] # counters[u] =>
                  \A v \in ClientsInQueue : counters'[u] <= counters[v]
  <2>1. counters[m] \in Nat
    BY <1>2, <1>8 DEF ClientsInQueue
  <2>2. \A w \in Client : b[w] <= counters[m]
    BY <1>8 DEF BasesBelowQueue
  <2>3. QED
    BY <1>6, <1>8, <2>1, <2>2
<1>9. \/ u \in ClientsInQueue /\ counters' = counters
      \/ ClientsInQueue = {} /\ LiftTo(u, Floor)
      \/ \E m \in ClientsInQueue :
           /\ \A c \in ClientsInQueue : counters[m] <= counters[c]
           /\ LiftTo(u, counters[m])
  BY DEF AppendReq, Floor, u
<1>10. QED
  BY <1>1, <1>4, <1>5, <1>7, <1>8, <1>9 DEF u

(* A request arrives: if its client is lifted, that is its new base.       *)
LEMMA GapAddReq ==
  ASSUME TypeOK, TypeOK', BatchesOK,
         NEW b \in Base, NEW s \in Steps, GapInv(b, s),
         NEW r \in Req, AddReq(r)
  PROVE  LET u == adapter_dir[r]
         IN  /\ u \in Client
             /\ \A w \in Client \ {u} : counters'[w] = counters[w]
             /\ counters'[u] = counters[u] => GapInv(b, s)'
             /\ \A n \in Nat :
                  n = counters'[u] /\ counters'[u] # counters[u] =>
                    GapInv([b EXCEPT ![u] = n], [s EXCEPT ![u] = 0])'
<1> DEFINE u == adapter_dir[r]
<1>1. /\ AppendReq(r)
      /\ UNCHANGED <<pc, running, mini, uncharged, outputs>>
      /\ pc \in AwaitPoints
  BY DEF AddReq, ReceiveReq
<1>2. /\ u \in Client
      /\ ClientsInQueue' = ClientsInQueue \cup {u}
      /\ \A w \in Client \ {u} : counters'[w] = counters[w]
      /\ \A w \in Client : counters[w] <= counters'[w]
      /\ \A w \in Client : b[w] <= counters'[u]
      /\ counters'[u] # counters[u] =>
           \A v \in ClientsInQueue : counters'[u] <= counters[v]
  BY <1>1, ArrivalFloor DEF GapInv
<1> HIDE DEF u
<1>3. \A w \in Client : counters[w] \in Nat /\ counters'[w] \in Nat /\ b[w] \in Nat
  BY DEF TypeOK, Base
<1>4. uncharged = {} /\ uncharged' = {}
  BY <1>1 DEF BatchesOK, AwaitPoints
<1>5. \A v \in ClientsInQueue : v \in Client
  BY DEF ClientsInQueue
<1>6. \A w \in Client, v \in ClientsInQueue : b[w] <= counters'[v]
  <2>1. TAKE w \in Client, v \in ClientsInQueue
  <2>2. b[w] <= counters[v] /\ counters[v] <= counters'[v] /\ v \in Client
    BY <1>2, <1>5 DEF GapInv, BasesBelowQueue
  <2>3. QED
    BY <1>3, <2>2
<1>7. ASSUME counters'[u] = counters[u]
      PROVE  GapInv(b, s)'
  <2>1. \A w \in Client : counters'[w] = counters[w]
    BY <1>2, <1>7
  <2>2. Anchored(b, s)'
    BY <1>1, <2>1 DEF GapInv, Anchored, RequestsOf
  <2>3. BasesBelowQueue(b)'
    BY <1>2, <1>6 DEF BasesBelowQueue
  <2>4. StepsCovered(s)'
    BY <1>1 DEF GapInv, StepsCovered, Generating, NotStarted
  <2>5. QED
    BY <2>2, <2>3, <2>4 DEF GapInv
<1>8. ASSUME NEW n \in Nat, n = counters'[u], counters'[u] # counters[u]
      PROVE  GapInv([b EXCEPT ![u] = n], [s EXCEPT ![u] = 0])'
  <2>1. n = counters'[u]
    BY <1>8
  <2> DEFINE b2 == [b EXCEPT ![u] = n]
             s2 == [s EXCEPT ![u] = 0]
  <2>2. b2 \in Base /\ s2 \in Steps
    BY <1>2, <2>1, BoundsNat DEF Base, Steps
  <2>3. /\ b2[u] = n /\ s2[u] = 0
        /\ \A w \in Client \ {u} : b2[w] = b[w] /\ s2[w] = s[w]
    BY <1>2 DEF Base, Steps
  <2> HIDE DEF b2, s2
  <2>4. Anchored(b2, s2)'
    <3>1. SUFFICES ASSUME NEW w \in Client
                   PROVE  counters'[w] + MaxDecodeCharge * Cardinality(RequestsOf(w, uncharged'))
                            <= b2[w] + MaxPromptCharge + MaxRoundCharge * s2[w]
      BY DEF Anchored, RequestsOf
    <3>2. MaxDecodeCharge * Cardinality(RequestsOf(w, uncharged')) = 0
      BY <1>4, NothingUncharged
    <3>3. CASE w = u
      <4>1. MaxRoundCharge * s2[w] = 0
        BY <2>3, <3>3, BoundsNat
      <4>2. QED
        BY <1>3, <2>1, <2>3, <3>2, <3>3, <4>1, BoundsNat
    <3>4. CASE w # u
      <4>1. counters[w] + MaxDecodeCharge * Cardinality(RequestsOf(w, uncharged))
              <= b[w] + MaxPromptCharge + MaxRoundCharge * s[w]
        BY DEF GapInv, Anchored
      <4>2. QED
        BY <1>2, <1>4, <2>3, <3>4, <4>1
    <3>5. QED
      BY <3>3, <3>4
  <2>5. BasesBelowQueue(b2)'
    <3>1. ASSUME NEW w \in Client, NEW v \in ClientsInQueue'
          PROVE  b2[w] <= counters'[v]
      <4>1. n <= counters'[v]
        <5>1. CASE v = u
          BY <1>2, <1>3, <2>1, <5>1
        <5>2. CASE v # u
          <6>1. v \in ClientsInQueue /\ v \in Client
            BY <1>2, <1>5, <3>1, <5>2
          <6>2. counters'[u] <= counters[v] /\ counters[v] <= counters'[v]
            BY <1>2, <1>8, <6>1
          <6>3. QED
            BY <1>2, <1>3, <2>1, <6>1, <6>2
        <5>3. QED
          BY <5>1, <5>2
      <4>2. b[w] <= counters'[v]
        BY <1>2, <1>6, <3>1
      <4>3. QED
        BY <2>3, <4>1, <4>2
    <3>2. ClientsInQueue' # {}
      BY <1>2
    <3>3. QED
      BY <3>1, <3>2 DEF BasesBelowQueue
  <2>6. StepsCovered(s2)'
    <3>1. ASSUME NEW q \in running \cup mini
          PROVE  /\ q \in Req
                 /\ adapter_dir[q] \in Client
                 /\ outputs[q] \in Nat
                 /\ s2[adapter_dir[q]] \in {0, s[adapter_dir[q]]}
      BY <2>3, RequestAssumption DEF TypeOK
    <3>2. \A q \in running \cup mini :
            /\ NotStarted(q, s) => NotStarted(q, s2)'
            /\ Generating(q, s, 0) => Generating(q, s2, 0)'
            /\ Generating(q, s, 1) => Generating(q, s2, 1)'
            /\ s[adapter_dir[q]] = 0 => s2[adapter_dir[q]] = 0
      BY <1>1, <3>1 DEF NotStarted, Generating
    <3>3. QED
      BY <1>1, <3>2 DEF GapInv, StepsCovered
  <2>7. GapInv(b2, s2)'
    BY <2>2, <2>4, <2>5, <2>6 DEF GapInv
  <2>8. QED
    BY <2>7 DEF b2, s2
<1>9. QED
  BY <1>2, <1>7, <1>8 DEF u

(* A decode step starts: every client with a request in the batch will be  *)
(* charged once for each, and is one step further from its base.           *)
LEMMA GapStartDecode ==
  ASSUME TypeOK, TypeOK', BatchesOK,
         NEW b \in Base, NEW s \in Steps, GapInv(b, s),
         pc \in {"top", "admit"}, mini = {}, NEW wait, StartDecode(wait),
         NEW t, t = [u \in Client |-> t[u]],
         \A u \in Client :
           /\ RequestsOf(u, running) = {} => t[u] = s[u]
           /\ RequestsOf(u, running) # {} => t[u] = s[u] + 1
  PROVE  t \in Steps /\ GapInv(b, t)'
<1>1. /\ uncharged' = running /\ pc' = "charge"
      /\ counters' = counters /\ queued' = queued /\ lastLeft' = lastLeft
      /\ UNCHANGED <<running, mini, outputs>>
  BY DEF StartDecode, queueVars
<1>2. uncharged = {}
  BY DEF BatchesOK
<1>3. ASSUME NEW r \in running
      PROVE  /\ r \in Req /\ adapter_dir[r] \in Client /\ outputs[r] \in Nat
             /\ Generating(r, s, 0)
             /\ outputs[r] <= MaxSteps
             /\ s[adapter_dir[r]] \in Nat
  <2>1. r \in Req /\ adapter_dir[r] \in Client /\ outputs[r] \in Nat
    BY RequestAssumption DEF TypeOK
  <2>2. Generating(r, s, 0)
    BY DEF GapInv, StepsCovered
  <2>3. QED
    BY <2>1, <2>2, RequestBounds, BoundsNat DEF Generating, Steps
<1>4. ASSUME NEW u \in Client
      PROVE  t[u] \in 0..MaxSteps
  <2>1. CASE RequestsOf(u, running) = {}
    BY <2>1 DEF Steps
  <2>2. ASSUME NEW r \in RequestsOf(u, running)
        PROVE  t[u] \in 0..MaxSteps
    <3>1. r \in running /\ adapter_dir[r] = u /\ t[u] = s[u] + 1
      BY <2>2 DEF RequestsOf
    <3>2. /\ s[u] + 1 <= outputs[r] + 0 /\ outputs[r] <= MaxSteps
          /\ s[u] \in Nat /\ outputs[r] \in Nat
      BY <1>3, <3>1 DEF Generating
    <3>3. QED
      BY <3>1, <3>2, BoundsNat
  <2>3. QED
    BY <2>1, <2>2
<1>5. t \in Steps
  BY <1>4 DEF Steps
<1>6. \A u \in Client :
        /\ RequestsOf(u, running) = {} => t[u] = s[u]
        /\ RequestsOf(u, running) # {} => t[u] = s[u] + 1
  OBVIOUS
<1>7. Anchored(b, t)'
  <2>1. SUFFICES ASSUME NEW u \in Client
                 PROVE  counters'[u] + MaxDecodeCharge * Cardinality(RequestsOf(u, uncharged'))
                          <= b[u] + MaxPromptCharge + MaxRoundCharge * t[u]
    BY DEF Anchored, RequestsOf
  <2>2. counters[u] + 0 <= b[u] + MaxPromptCharge + MaxRoundCharge * s[u]
    <3>1. MaxDecodeCharge * Cardinality(RequestsOf(u, uncharged)) = 0
      BY <1>2, NothingUncharged
    <3>2. QED
      BY <3>1 DEF GapInv, Anchored
  <2>3. /\ s[u] \in Nat /\ counters[u] \in Nat /\ b[u] \in Nat
        /\ MaxRoundCharge * s[u] \in Nat
    <3>1. s[u] \in Nat /\ counters[u] \in Nat /\ b[u] \in Nat
      BY BoundsNat DEF Base, Steps, TypeOK
    <3>2. QED
      BY <3>1, BoundsNat, ProductNat
  <2>4. RequestsOf(u, uncharged') = RequestsOf(u, running)
    BY <1>1
  <2>5. CASE RequestsOf(u, running) = {}
    <3>1. MaxDecodeCharge * Cardinality(RequestsOf(u, uncharged')) = 0
      BY <2>4, <2>5, FS_EmptySet, BoundsNat
    <3>2. t[u] = s[u]
      BY <1>6, <2>5
    <3>3. QED
      BY <1>1, <2>2, <3>1, <3>2
  <2>6. CASE RequestsOf(u, running) # {}
    <3>1. t[u] = s[u] + 1
      BY <1>6, <2>6
    <3>2. MaxRoundCharge * t[u] = MaxRoundCharge * s[u] + MaxRoundCharge
      BY <2>3, <3>1, BoundsNat
    <3>3. /\ MaxDecodeCharge * Cardinality(RequestsOf(u, running)) \in Nat
          /\ MaxDecodeCharge * Cardinality(RequestsOf(u, running)) <= MaxRoundCharge
      BY RoundBound
    <3>4. QED
      BY <1>1, <2>2, <2>3, <2>4, <3>2, <3>3, BoundsNat
  <2>7. QED
    BY <2>5, <2>6
<1>8. BasesBelowQueue(b)'
  BY <1>1 DEF GapInv, BasesBelowQueue, Floor, ClientsInQueue
<1>9. StepsCovered(t)'
  <2>1. ASSUME NEW r \in running
        PROVE  Generating(r, t, 1)'
    <3>1. t[adapter_dir[r]] \in {s[adapter_dir[r]], s[adapter_dir[r]] + 1}
      BY <1>3, <1>6, <2>1
    <3>2. QED
      BY <1>1, <1>3, <2>1, <3>1 DEF Generating
  <2>2. QED
    BY <1>1, <2>1 DEF StepsCovered
<1>10. QED
  BY <1>5, <1>7, <1>8, <1>9 DEF GapInv

(* One request is charged for the decode step: what was reserved for it    *)
(* pays for it.                                                            *)
LEMMA GapCharge ==
  ASSUME TypeOK, TypeOK', BatchesOK,
         NEW b \in Base, NEW s \in Steps, GapInv(b, s),
         NEW r \in Req, Charge(r)
  PROVE  GapInv(b, s)'
<1> DEFINE u == adapter_dir[r]
           cost == DecodeCharge(input_len[r], outputs[r])
<1>1. /\ pc = "charge" /\ pc' \in {"charge", "decode"}
      /\ r \in uncharged /\ r \in running
      /\ counters' = [counters EXCEPT ![u] = @ + cost]
      /\ uncharged' = uncharged \ {r}
      /\ UNCHANGED <<queued, lastLeft, running, mini, outputs>>
  BY DEF Charge, ChargeDecode, BatchesOK
<1>2. u \in Client /\ outputs[r] \in Nat
  BY RequestAssumption DEF TypeOK
<1>3. Generating(r, s, 1)
  BY <1>1 DEF GapInv, StepsCovered
<1>4. outputs[r] <= MaxSteps
  BY <1>2, <1>3, RequestBounds DEF Generating
<1>5. cost \in Nat /\ cost <= MaxDecodeCharge
  BY <1>2, <1>4, RequestBounds, DecodeChargeNat, DecodeChargeBound
<1> HIDE DEF cost
<1>6. /\ counters'[u] = counters[u] + cost
      /\ \A w \in Client \ {u} : counters'[w] = counters[w]
      /\ \A w \in Client : counters[w] \in Nat /\ counters'[w] \in Nat
      /\ \A w \in Client : counters[w] <= counters'[w]
  BY <1>1, <1>2, <1>5 DEF TypeOK
<1>7. Anchored(b, s)'
  <2>1. SUFFICES ASSUME NEW w \in Client
                 PROVE  counters'[w] + MaxDecodeCharge * Cardinality(RequestsOf(w, uncharged'))
                          <= b[w] + MaxPromptCharge + MaxRoundCharge * s[w]
    BY DEF Anchored, RequestsOf
  <2>2. counters[w] + MaxDecodeCharge * Cardinality(RequestsOf(w, uncharged))
          <= b[w] + MaxPromptCharge + MaxRoundCharge * s[w]
    BY DEF GapInv, Anchored
  <2>3. CASE w # u
    <3>1. RequestsOf(w, uncharged') = RequestsOf(w, uncharged)
      BY <1>1, <2>3 DEF RequestsOf
    <3>2. QED
      BY <1>6, <2>2, <2>3, <3>1
  <2>4. CASE w = u
    <3> DEFINE mine == RequestsOf(u, uncharged)
    <3>1. /\ RequestsOf(u, uncharged') = mine \ {r}
          /\ r \in mine /\ mine \in SUBSET Req
      BY <1>1 DEF RequestsOf, TypeOK
    <3> HIDE DEF mine
    <3>2. IsFiniteSet(mine) /\ Cardinality(mine) \in Nat
      BY <3>1, BatchFinite
    <3>3. Cardinality(mine \ {r}) = Cardinality(mine) - 1
      BY <3>1, <3>2, FS_RemoveElement
    <3>4. Cardinality(mine \ {r}) \in Nat
      BY <3>1, BatchFinite
    <3>5. MaxDecodeCharge * Cardinality(mine)
            = MaxDecodeCharge * Cardinality(mine \ {r}) + MaxDecodeCharge
      <4>1. Cardinality(mine) = Cardinality(mine \ {r}) + 1
        BY <3>2, <3>3, <3>4
      <4>2. QED
        BY <3>4, <4>1, BoundsNat
    <3>6. /\ MaxDecodeCharge * Cardinality(mine \ {r}) \in Nat
          /\ s[u] \in Nat /\ b[u] \in Nat
          /\ MaxRoundCharge * s[u] \in Nat
      <4>1. s[u] \in Nat /\ b[u] \in Nat
        BY <1>2, BoundsNat DEF Base, Steps
      <4>2. QED
        BY <3>4, <4>1, BoundsNat, ProductNat
    <3>7. counters[u] + MaxDecodeCharge * Cardinality(mine)
            <= b[u] + MaxPromptCharge + MaxRoundCharge * s[u]
      BY <2>2, <2>4 DEF mine
    <3>8. counters'[u] + MaxDecodeCharge * Cardinality(mine \ {r})
            <= b[u] + MaxPromptCharge + MaxRoundCharge * s[u]
      BY <1>2, <1>5, <1>6, <3>5, <3>6, <3>7, BoundsNat
    <3>9. QED
      BY <2>4, <3>1, <3>8
  <2>5. QED
    BY <2>3, <2>4
<1>8. BasesBelowQueue(b)'
  <2>1. ClientsInQueue' = ClientsInQueue /\ \A v \in ClientsInQueue : v \in Client
    BY <1>1 DEF ClientsInQueue
  <2>2. ASSUME NEW w \in Client, NEW v \in ClientsInQueue
        PROVE  b[w] <= counters'[v]
    <3>1. b[w] <= counters[v] /\ counters[v] <= counters'[v] /\ v \in Client
      BY <1>6, <2>1 DEF GapInv, BasesBelowQueue
    <3>2. b[w] \in Nat
      BY DEF Base
    <3>3. QED
      BY <1>6, <3>1, <3>2
  <2>3. ASSUME NEW w \in Client, ClientsInQueue = {}
        PROVE  b[w] <= Floor'
    <3>1. b[w] <= Floor /\ b[w] \in Nat
      BY <2>3 DEF GapInv, BasesBelowQueue, Base
    <3>2. CASE lastLeft = NoClient
      BY <1>1, <3>1, <3>2 DEF Floor
    <3>3. CASE lastLeft \in Client
      <4>1. lastLeft # NoClient
        BY <3>3, ClientAssumption
      <4>2. Floor = counters[lastLeft] /\ Floor' = counters'[lastLeft]
        BY <1>1, <4>1 DEF Floor
      <4>3. QED
        BY <1>6, <3>1, <3>3, <4>2
    <3>4. QED
      BY <3>2, <3>3 DEF TypeOK
  <2>4. QED
    BY <2>1, <2>2, <2>3 DEF BasesBelowQueue
<1>9. StepsCovered(s)'
  <2>1. ASSUME NEW q \in running PROVE Generating(q, s, 1)'
    BY <1>1 DEF GapInv, StepsCovered, Generating
  <2>2. mini' = {}
    BY <1>1 DEF BatchesOK
  <2>3. QED
    BY <1>1, <2>1, <2>2 DEF StepsCovered
<1>10. QED
  BY <1>7, <1>8, <1>9 DEF GapInv

(* The requests that go on after a model step have one token more and      *)
(* have not reached their limit.                                           *)
LEMMA GoOn ==
  ASSUME TypeOK, NEW batch \in SUBSET Req, NEW F \in MayFinish(batch),
         GiveTokens(batch, F), NEW r \in batch \ F
  PROVE  /\ outputs[r] \in Nat
         /\ outputs'[r] = outputs[r] + 1
         /\ outputs'[r] < max_output_len[r]
<1>1. outputs[r] \in Nat /\ outputs'[r] = outputs[r] + 1
  BY DEF GiveTokens, TypeOK
<1>2. ~(outputs[r] + 1 >= max_output_len[r])
  BY DEF MayFinish
<1>3. max_output_len[r] \in Nat
  BY RequestBounds
<1>4. QED
  BY <1>1, <1>2, <1>3

(* What a model step leaves of a batch has outlived one more step.         *)
LEMMA GapGiveTokens ==
  ASSUME TypeOK, BatchesOK, NEW b \in Base, NEW s \in Steps, GapInv(b, s),
         NEW F,
         \/ FinishFirstPrefill(F)
         \/ FinishMiniPrefill(F)
         \/ FinishDecode(F)
  PROVE  GapInv(b, s)'
<1>1. UNCHANGED <<queueVars, uncharged>>
  BY DEF FinishFirstPrefill, FinishMiniPrefill, FinishDecode, GiveTokens
<1>2. Anchored(b, s)' /\ BasesBelowQueue(b)'
  BY <1>1, GapStill DEF GapInv
<1>3. \A r \in Req : adapter_dir[r] \in Client /\ s[adapter_dir[r]] \in Nat
  BY RequestAssumption, BoundsNat DEF Steps
<1>4. running \in SUBSET Req /\ mini \in SUBSET Req
  BY DEF TypeOK
<1>5. ASSUME FinishFirstPrefill(F) PROVE StepsCovered(s)'
  <2>1. /\ mini = {} /\ mini' = {}
        /\ pc = "prefill"
        /\ F \in MayFinish(running) /\ GiveTokens(running, F)
        /\ running' = running \ F
        /\ pc' \in {"top", "prefillCleanup"}
    BY <1>5 DEF FinishFirstPrefill
  <2>2. ASSUME NEW r \in running'
        PROVE  Generating(r, s, 0)'
    <3>1. NotStarted(r, s)
      BY <2>1, <2>2 DEF GapInv, StepsCovered
    <3>2. /\ outputs'[r] = outputs[r] + 1
          /\ outputs'[r] < max_output_len[r]
      BY <1>4, <2>1, <2>2, GoOn
    <3>3. QED
      BY <1>3, <1>4, <2>1, <2>2, <3>1, <3>2 DEF NotStarted, Generating
  <2>3. QED
    BY <2>1, <2>2 DEF StepsCovered
<1>6. ASSUME FinishMiniPrefill(F) PROVE StepsCovered(s)'
  <2>1. /\ mini # {}
        /\ pc = "prefill"
        /\ F \in MayFinish(mini) /\ GiveTokens(mini, F)
        /\ mini' = mini \ F
        /\ running' = running
        /\ pc' \in {"merge", "prefillCleanup"}
    BY <1>6 DEF FinishMiniPrefill
  <2>2. ASSUME NEW r \in mini'
        PROVE  Generating(r, s, 0)' /\ s[adapter_dir[r]] = 0
    <3>1. NotStarted(r, s)
      BY <2>1, <2>2 DEF GapInv, StepsCovered
    <3>2. /\ outputs'[r] = outputs[r] + 1
          /\ outputs'[r] < max_output_len[r]
      BY <1>4, <2>1, <2>2, GoOn
    <3>3. QED
      BY <1>3, <1>4, <2>1, <2>2, <3>1, <3>2 DEF NotStarted, Generating
  <2>3. ASSUME NEW r \in running
        PROVE  Generating(r, s, 0)'
    <3>1. Generating(r, s, 0)
      BY <2>1 DEF GapInv, StepsCovered
    <3>2. r \notin mini
      BY <2>3 DEF BatchesOK
    <3>3. outputs'[r] = outputs[r]
      BY <1>4, <2>1, <2>3, <3>2 DEF GiveTokens
    <3>4. QED
      BY <3>1, <3>3 DEF Generating
  <2>4. QED
    BY <2>1, <2>2, <2>3 DEF StepsCovered
<1>7. ASSUME FinishDecode(F) PROVE StepsCovered(s)'
  <2>1. /\ pc = "decode"
        /\ F \in MayFinish(running) /\ GiveTokens(running, F)
        /\ running' = running \ F
        /\ mini = {} /\ mini' = {}
        /\ pc' \in {"top", "decodeCleanup"}
    BY <1>7 DEF FinishDecode, BatchesOK
  <2>2. ASSUME NEW r \in running'
        PROVE  Generating(r, s, 0)'
    <3>1. Generating(r, s, 1)
      BY <2>1, <2>2 DEF GapInv, StepsCovered
    <3>2. /\ outputs[r] \in Nat
          /\ outputs'[r] = outputs[r] + 1
          /\ outputs'[r] < max_output_len[r]
      BY <1>4, <2>1, <2>2, GoOn
    <3>3. QED
      BY <1>3, <1>4, <2>1, <2>2, <3>1, <3>2 DEF Generating
  <2>3. QED
    BY <2>1, <2>2 DEF StepsCovered
<1>8. StepsCovered(s)'
  BY <1>5, <1>6, <1>7
<1>9. QED
  BY <1>2, <1>8 DEF GapInv

(* The steps that move batches about, and those that only wait.            *)
LEMMA GapMoves ==
  ASSUME TypeOK, BatchesOK, NEW b \in Base, NEW s \in Steps, GapInv(b, s),
         \/ \E r \in Req : Abort(r)
         \/ Wake \/ StartAdmission \/ StartPrefill \/ PrefillCleanedUp
         \/ Merge \/ DecodeCleanedUp
         \/ AdmissionOver /\ pc' = "sleep" /\ mini = {}
              /\ UNCHANGED <<queueVars, running, mini, uncharged, outputs>>
         \/ UNCHANGED vars
  PROVE  GapInv(b, s)'
<1>1. UNCHANGED <<queueVars, uncharged, outputs>>
  BY DEF Abort, ReceiveAbort, Wake, StartAdmission, StartPrefill, PrefillCleanedUp, Merge,
         DecodeCleanedUp, vars, routerVars
<1>2. Anchored(b, s)' /\ BasesBelowQueue(b)'
  BY <1>1, GapStill DEF GapInv
<1>3. \A r : /\ NotStarted(r, s)' <=> NotStarted(r, s)
             /\ Generating(r, s, 0)' <=> Generating(r, s, 0)
             /\ Generating(r, s, 1)' <=> Generating(r, s, 1)
  BY <1>1 DEF NotStarted, Generating
<1>4. StepsCovered(s)
  BY DEF GapInv
<1>5. ASSUME (\E r \in Req : Abort(r)) \/ UNCHANGED vars
      PROVE  StepsCovered(s)'
  <2>1. UNCHANGED <<pc, running, mini, outputs>>
    BY <1>5 DEF Abort, ReceiveAbort, vars, routerVars
  <2>2. QED
    BY <1>4, <2>1 DEF StepsCovered, NotStarted, Generating
<1>6. ASSUME StartPrefill PROVE StepsCovered(s)'
  <2>1. /\ pc = "admit" /\ pc' = "prefill" /\ mini # {}
        /\ \/ running = {} /\ running' = mini /\ mini' = {}
           \/ running # {} /\ UNCHANGED <<running, mini>>
    BY <1>6 DEF StartPrefill, AdmissionOver
  <2>2. QED
    BY <1>3, <1>4, <2>1 DEF StepsCovered
<1>7. ASSUME Merge PROVE StepsCovered(s)'
  <2>1. /\ pc = "merge" /\ pc' = "top"
        /\ running' = running \cup mini /\ mini' = {}
    BY <1>7 DEF Merge
  <2>2. QED
    BY <1>3, <1>4, <2>1 DEF StepsCovered
<1>8. ASSUME PrefillCleanedUp PROVE StepsCovered(s)'
  <2>1. /\ pc = "prefillCleanup" /\ UNCHANGED <<running, mini>>
        /\ pc' \in {"merge", "top", "sleep"}
        /\ mini # {} => pc' = "merge"
    BY <1>8 DEF PrefillCleanedUp, AfterStep
  <2>2. QED
    BY <1>3, <1>4, <2>1 DEF StepsCovered
<1>9. ASSUME \/ Wake \/ StartAdmission \/ DecodeCleanedUp
             \/ AdmissionOver /\ pc' = "sleep" /\ mini = {}
                  /\ UNCHANGED <<queueVars, running, mini, uncharged, outputs>>
      PROVE  StepsCovered(s)'
  <2>1. /\ pc \in {"sleep", "top", "admit", "decodeCleanup"}
        /\ pc' \in {"sleep", "top", "admit"}
        /\ UNCHANGED <<running, mini>>
    BY <1>9 DEF Wake, StartAdmission, DecodeCleanedUp, AfterStep, AdmissionOver
  <2>2. mini = {}
    BY <1>9 DEF BatchesOK, Wake, StartAdmission, DecodeCleanedUp
  <2>3. QED
    BY <1>3, <1>4, <2>1, <2>2 DEF StepsCovered
<1>10. StepsCovered(s)'
  BY <1>5, <1>6, <1>7, <1>8, <1>9
<1>11. QED
  BY <1>2, <1>10 DEF GapInv

-----------------------------------------------------------------------------
(* In every state, every counter is within one prompt and a bounded number *)
(* of full decode rounds of a base that no waiting client is below.        *)
Explained == \E b \in Base, s \in Steps : GapInv(b, s)

LEMMA GapStarts ==
  ASSUME Init
  PROVE  LET z == [u \in Client |-> 0]
         IN  z \in Base /\ z \in Steps /\ GapInv(z, z)
<1> DEFINE z == [u \in Client |-> 0]
<1>1. z \in Base /\ z \in Steps
  BY BoundsNat DEF Base, Steps
<1>2. Anchored(z, z)
  <2>1. SUFFICES ASSUME NEW u \in Client
                 PROVE  counters[u] + MaxDecodeCharge * Cardinality(RequestsOf(u, uncharged))
                          <= z[u] + MaxPromptCharge + MaxRoundCharge * z[u]
    BY DEF Anchored
  <2>2. counters[u] = 0 /\ z[u] = 0 /\ RequestsOf(u, uncharged) = {}
    BY DEF Init, QueueInit, RequestsOf
  <2>3. /\ MaxDecodeCharge * Cardinality(RequestsOf(u, uncharged)) = 0
        /\ MaxRoundCharge * z[u] = 0
    BY <2>2, FS_EmptySet, BoundsNat
  <2>4. QED
    BY <2>2, <2>3, BoundsNat
<1>3. BasesBelowQueue(z)
  BY DEF Init, QueueInit, BasesBelowQueue, ClientsInQueue, Floor
<1>4. StepsCovered(z)
  BY DEF Init, StepsCovered
<1>5. QED
  BY <1>1, <1>2, <1>3, <1>4 DEF GapInv

LEMMA GapInit == Init => Explained
BY GapStarts DEF Explained

(* What VtcGapHistory makes of base and steps in a step of the router.     *)
Follows(b, s, b2, s2) ==
  /\ b2 = [u \in Client |-> b2[u]]
  /\ s2 = [u \in Client |-> s2[u]]
  /\ \A u \in Client :
       /\ Taken(u) => b2[u] = counters[u] /\ s2[u] = 0
       /\ Lifted(u) /\ ~Taken(u) => b2[u] = counters'[u] /\ s2[u] = 0
       /\ ~Taken(u) /\ ~Lifted(u) => b2[u] = b[u]
       /\ ~Taken(u) /\ ~Lifted(u) =>
            s2[u] = IF Charged(u) THEN s[u] + 1 ELSE s[u]

(* Nothing happens to a base while no counter moves, and to the steps      *)
(* while no decode step starts.                                            *)
LEMMA BaseStays ==
  ASSUME NEW b \in Base, NEW s \in Steps, NEW b2, NEW s2, Follows(b, s, b2, s2),
         \/ counters' = counters
         \/ pc # "admit" /\ arrived' = arrived
  PROVE  b2 = b
<1>1. \A u \in Client : ~Taken(u) /\ ~Lifted(u)
  BY DEF Taken, Lifted
<1>2. \A u \in Client : b2[u] = b[u]
  BY <1>1 DEF Follows
<1>3. b = [u \in Client |-> b[u]] /\ b2 = [u \in Client |-> b2[u]]
  BY DEF Follows, Base
<1>4. QED
  BY <1>2, <1>3

LEMMA NothingFollows ==
  ASSUME NEW b \in Base, NEW s \in Steps, NEW b2, NEW s2, Follows(b, s, b2, s2),
         \/ counters' = counters
         \/ pc # "admit" /\ arrived' = arrived,
         pc = "charge" \/ pc' # "charge"
  PROVE  b2 = b /\ s2 = s
<1>1. b2 = b
  BY BaseStays
<1>2. \A u \in Client : ~Taken(u) /\ ~Lifted(u) /\ ~Charged(u)
  BY DEF Taken, Lifted, Charged
<1>3. \A u \in Client : s2[u] = s[u]
  BY <1>2 DEF Follows
<1>4. s = [u \in Client |-> s[u]] /\ s2 = [u \in Client |-> s2[u]]
  BY DEF Follows, Steps
<1>5. QED
  BY <1>1, <1>3, <1>4

(* A decode step starts.                                                   *)
LEMMA GapFollowsDecode ==
  ASSUME TypeOK, TypeOK', BatchesOK,
         NEW b \in Base, NEW s \in Steps, GapInv(b, s),
         NEW b2, NEW s2, Follows(b, s, b2, s2),
         pc \in {"top", "admit"}, mini = {}, NEW wait, StartDecode(wait)
  PROVE  b2 \in Base /\ s2 \in Steps /\ GapInv(b2, s2)'
<1>1. counters' = counters /\ pc # "charge" /\ pc' = "charge"
  BY DEF StartDecode, queueVars
<1>2. b2 = b
  BY <1>1, BaseStays
<1>3. \A u \in Client :
        /\ RequestsOf(u, running) = {} => s2[u] = s[u]
        /\ RequestsOf(u, running) # {} => s2[u] = s[u] + 1
  BY <1>1 DEF Follows, Taken, Lifted, Charged
<1>4. s2 = [u \in Client |-> s2[u]]
  BY DEF Follows
<1>5. s2 \in Steps /\ GapInv(b, s2)'
  BY <1>3, <1>4, GapStartDecode
<1>6. QED
  BY <1>2, <1>5

(* Whatever the router does, base and steps follow it.                     *)
LEMMA GapFollows ==
  ASSUME TypeOK, TypeOK', BatchesOK, QueueOK,
         NEW b \in Base, NEW s \in Steps, GapInv(b, s), [Next]_vars,
         NEW b2, NEW s2, Follows(b, s, b2, s2)
  PROVE  b2 \in Base /\ s2 \in Steps /\ GapInv(b2, s2)'
<1>1. ASSUME GapInv(b, s)',
             \/ counters' = counters
             \/ pc # "admit" /\ arrived' = arrived,
             pc = "charge" \/ pc' # "charge"
      PROVE  b2 \in Base /\ s2 \in Steps /\ GapInv(b2, s2)'
  <2>1. b2 = b /\ s2 = s
    BY <1>1, NothingFollows
  <2>2. QED
    BY <1>1, <2>1
<1>2. \A u \in Client :
        /\ b[u] \in Nat /\ s[u] \in 0..MaxSteps
        /\ counters[u] \in Nat /\ counters'[u] \in Nat
  BY DEF Base, Steps, TypeOK
<1>3. /\ b = [u \in Client |-> b[u]] /\ b2 = [u \in Client |-> b2[u]]
      /\ s = [u \in Client |-> s[u]] /\ s2 = [u \in Client |-> s2[u]]
  BY DEF Follows, Base, Steps
<1>4. ASSUME NEW k \in Client, NEW n \in Nat,
             GapInv([b EXCEPT ![k] = n], [s EXCEPT ![k] = 0])',
             b2[k] = n, s2[k] = 0,
             \A u \in Client \ {k} : b2[u] = b[u] /\ s2[u] = s[u]
      PROVE  b2 \in Base /\ s2 \in Steps /\ GapInv(b2, s2)'
  <2>1. b2 = [b EXCEPT ![k] = n] /\ s2 = [s EXCEPT ![k] = 0]
    BY <1>3, <1>4
  <2>2. b2 \in Base /\ s2 \in Steps
    BY <2>1, BoundsNat DEF Base, Steps
  <2>3. QED
    BY <1>4, <2>1, <2>2
<1>5. ASSUME NEW r \in Req, AddReq(r)
      PROVE  b2 \in Base /\ s2 \in Steps /\ GapInv(b2, s2)'
  <2> DEFINE u == adapter_dir[r]
  <2>1. /\ u \in Client
        /\ \A w \in Client \ {u} : counters'[w] = counters[w]
        /\ counters'[u] = counters[u] => GapInv(b, s)'
        /\ \A n \in Nat :
             n = counters'[u] /\ counters'[u] # counters[u] =>
               GapInv([b EXCEPT ![u] = n], [s EXCEPT ![u] = 0])'
    BY <1>5, GapAddReq
  <2>2. /\ pc \in AwaitPoints /\ pc' = pc /\ pc # "admit" /\ arrived' # arrived
    BY <1>5 DEF AddReq, ReceiveReq, AwaitPoints
  <2> HIDE DEF u
  <2>3. CASE counters'[u] = counters[u]
    <3>1. counters' = counters
      <4>1. \A w \in Client : counters'[w] = counters[w]
        BY <2>1, <2>3
      <4>2. QED
        BY <4>1 DEF TypeOK
    <3>2. pc = "charge" \/ pc' # "charge"
      BY <2>2
    <3>3. QED
      BY <1>1, <2>1, <2>3, <3>1, <3>2
  <2>4. CASE counters'[u] # counters[u]
    <3>1. PICK n \in Nat : n = counters'[u]
      BY <1>2, <2>1
    <3>2. Lifted(u) /\ ~Taken(u)
      BY <2>2, <2>4 DEF Lifted, Taken
    <3>3. b2[u] = n /\ s2[u] = 0
      BY <2>1, <3>1, <3>2 DEF Follows
    <3>4. \A w \in Client \ {u} : ~Taken(w) /\ ~Lifted(w) /\ ~Charged(w)
      BY <2>1, <2>2 DEF Taken, Lifted, Charged
    <3>5. \A w \in Client \ {u} : b2[w] = b[w] /\ s2[w] = s[w]
      BY <3>4 DEF Follows
    <3>6. QED
      BY <1>4, <2>1, <2>4, <3>1, <3>3, <3>5
  <2>5. QED
    BY <2>3, <2>4
<1>6. ASSUME NEW k \in Client, Admit(k)
      PROVE  b2 \in Base /\ s2 \in Steps /\ GapInv(b2, s2)'
  <2>1. PICK n \in Nat : n = counters[k]
    BY <1>2
  <2>2. GapInv([b EXCEPT ![k] = n], [s EXCEPT ![k] = 0])'
    BY <1>6, <2>1, GapAdmit
  <2> DEFINE e == Earliest(k)
  <2>3. /\ pc = "admit" /\ pc' = "admit" /\ arrived' = arrived
        /\ queued[k] # <<>>
        /\ counters' = [counters EXCEPT ![k] = @ + PromptCharge(input_len[e])]
    BY <1>6 DEF Admit, TakeEarliest, IsNext, ClientsInQueue
  <2>4. e \in Req
    BY <2>3, WaitingHeadTail
  <2> HIDE DEF e
  <2>5. /\ counters'[k] # counters[k]
        /\ \A u \in Client \ {k} : counters'[u] = counters[u]
    <3>1. PromptCharge(input_len[e]) \in Nat /\ PromptCharge(input_len[e]) > 0
      BY <2>4, RequestBounds, PromptChargeNat, PromptChargePositive
    <3>2. counters'[k] = counters[k] + PromptCharge(input_len[e])
      BY <2>3 DEF TypeOK
    <3>3. counters'[k] # counters[k]
      BY <1>2, <3>1, <3>2
    <3>4. QED
      BY <2>3, <3>3 DEF TypeOK
  <2>6. Taken(k) /\ \A u \in Client \ {k} : ~Taken(u) /\ ~Lifted(u) /\ ~Charged(u)
    BY <2>3, <2>5 DEF Taken, Lifted, Charged
  <2>7. b2[k] = n /\ s2[k] = 0
    BY <2>1, <2>6 DEF Follows
  <2>8. \A u \in Client \ {k} : b2[u] = b[u] /\ s2[u] = s[u]
    BY <2>6 DEF Follows
  <2>9. QED
    BY <1>4, <2>2, <2>7, <2>8
<1>7. ASSUME NEW k \in Client, DropAborted(k)
      PROVE  b2 \in Base /\ s2 \in Steps /\ GapInv(b2, s2)'
  <2>1. /\ queued[k] # <<>> /\ RemoveEarliest(k)
        /\ counters' = counters
        /\ UNCHANGED <<pc, running, mini, uncharged, outputs>>
    BY <1>7 DEF DropAborted, IsNext, ClientsInQueue, routerVars
  <2>2. counters \in [Client -> Nat]
    BY DEF TypeOK
  <2>3. \A v \in Client : counters[v] <= counters'[v]
    BY <2>1, <2>2
  <2>4. BasesBelowQueue(b)'
    BY <2>1, <2>2, <2>3, GapRemove DEF GapInv
  <2>5. Anchored(b, s)'
    BY <2>1 DEF GapInv, Anchored, RequestsOf
  <2>6. StepsCovered(s)'
    BY <2>1 DEF GapInv, StepsCovered, Generating, NotStarted
  <2>7. GapInv(b, s)'
    BY <2>4, <2>5, <2>6 DEF GapInv
  <2>8. pc = "charge" \/ pc' # "charge"
    BY <2>1
  <2>9. QED
    BY <1>1, <2>1, <2>7, <2>8
<1>8. CASE DecodeStep
  <2>1. mini = {} /\ pc = "top" /\ \E wait \in {has_wait, has_wait + 1} : StartDecode(wait)
    BY <1>8 DEF DecodeStep, BatchesOK
  <2>2. QED
    BY <2>1, GapFollowsDecode
<1>9. CASE NothingAdmitted
  <2>1. mini = {} /\ pc = "admit" /\ AdmissionOver
    BY <1>9 DEF NothingAdmitted, AdmissionOver
  <2>2. CASE StartDecode(has_wait)
    BY <2>1, <2>2, GapFollowsDecode
  <2>3. CASE pc' = "sleep" /\ UNCHANGED <<queueVars, running, mini, uncharged, outputs>>
    <3>1. GapInv(b, s)'
      BY <2>1, <2>3, GapMoves
    <3>2. counters' = counters
      BY <2>3 DEF queueVars
    <3>3. QED
      BY <1>1, <2>3, <3>1, <3>2
  <2>4. QED
    BY <1>9, <2>2, <2>3 DEF NothingAdmitted
<1>10. ASSUME NEW r \in Req, Charge(r)
       PROVE  b2 \in Base /\ s2 \in Steps /\ GapInv(b2, s2)'
  <2>1. pc = "charge" /\ arrived' = arrived
    BY <1>10 DEF Charge
  <2>2. GapInv(b, s)'
    BY <1>10, GapCharge
  <2>3. QED
    BY <1>1, <2>1, <2>2
<1>11. ASSUME NEW F, FinishFirstPrefill(F) \/ FinishMiniPrefill(F) \/ FinishDecode(F)
       PROVE  b2 \in Base /\ s2 \in Steps /\ GapInv(b2, s2)'
  <2>1. counters' = counters /\ pc' # "charge"
    BY <1>11 DEF FinishFirstPrefill, FinishMiniPrefill, FinishDecode, GiveTokens, queueVars
  <2>2. GapInv(b, s)'
    BY <1>11, GapGiveTokens
  <2>3. QED
    BY <1>1, <2>1, <2>2
<1>12. CASE \/ \E r \in Req : Abort(r)
            \/ Wake \/ StartAdmission \/ StartPrefill \/ PrefillCleanedUp
            \/ Merge \/ DecodeCleanedUp \/ UNCHANGED vars
  <2>1. counters' = counters
    BY <1>12 DEF Abort, ReceiveAbort, Wake, StartAdmission, StartPrefill, PrefillCleanedUp, Merge,
                 DecodeCleanedUp, vars, queueVars
  <2>2. pc = "charge" \/ pc' # "charge"
    BY <1>12 DEF Abort, ReceiveAbort, Wake, StartAdmission, StartPrefill, PrefillCleanedUp, Merge,
                 DecodeCleanedUp, AfterStep, vars, routerVars
  <2>3. GapInv(b, s)'
    BY <1>12, GapMoves
  <2>4. QED
    BY <1>1, <2>1, <2>2, <2>3
<1>13. QED
  BY <1>5, <1>6, <1>7, <1>8, <1>9, <1>10, <1>11, <1>12
  DEF Next, Netio, Forward

LEMMA GapStep ==
  /\ TypeOK /\ TypeOK' /\ BatchesOK /\ QueueOK
  /\ Explained /\ [Next]_vars
  => Explained'
<1>1. SUFFICES ASSUME TypeOK, TypeOK', BatchesOK, QueueOK, Explained, [Next]_vars
               PROVE  Explained'
  OBVIOUS
<1>2. PICK b \in Base, s \in Steps : GapInv(b, s)
  BY <1>1 DEF Explained
<1> DEFINE bases == [u \in Client |-> IF Taken(u) THEN counters[u]
                                      ELSE IF Lifted(u) THEN counters'[u] ELSE b[u]]
           rounds == [u \in Client |-> IF Taken(u) \/ Lifted(u) THEN 0
                                       ELSE IF Charged(u) THEN s[u] + 1 ELSE s[u]]
<1>3. PICK b2 : b2 = bases
  OBVIOUS
<1>4. PICK s2 : s2 = rounds
  OBVIOUS
<1>5. Follows(b, s, b2, s2)
  BY <1>3, <1>4 DEF Follows
<1>6. b2 \in Base /\ s2 \in Steps /\ GapInv(b2, s2)'
  BY <1>1, <1>2, <1>5, GapFollows
<1>7. QED
  BY <1>6 DEF Explained

(* The fairness promise: whatever arrives, finishes or is aborted, no      *)
(* client is ever ahead of a waiting client by more than one prompt and    *)
(* one full batch of the longest outputs.                                  *)
THEOREM FairGap == Spec => []BoundedGap
<1>1. TypeOK /\ Explained => BoundedGap
  <2>1. SUFFICES ASSUME TypeOK, Explained, NEW u \in Client, NEW v \in ClientsInQueue
                 PROVE  counters[u] <= counters[v] + GapBound
    BY DEF BoundedGap
  <2>2. PICK b \in Base, s \in Steps : GapInv(b, s)
    BY <2>1 DEF Explained
  <2>3. /\ counters[u] + MaxDecodeCharge * Cardinality(RequestsOf(u, uncharged))
             <= b[u] + MaxPromptCharge + MaxRoundCharge * s[u]
        /\ b[u] <= counters[v]
    BY <2>2 DEF GapInv, Anchored, BasesBelowQueue
  <2>4. MaxDecodeCharge * Cardinality(RequestsOf(u, uncharged)) \in Nat
    <3>1. RequestsOf(u, uncharged) \in SUBSET Req
      BY <2>1 DEF RequestsOf, TypeOK
    <3>2. Cardinality(RequestsOf(u, uncharged)) \in Nat
      BY <2>1, <3>1, BatchFinite
    <3>3. QED
      BY <3>2, BoundsNat, ProductNat
  <2>5. MaxRoundCharge * s[u] <= MaxRoundCharge * MaxSteps
    <3>1. s[u] \in Nat /\ s[u] <= MaxSteps
      BY BoundsNat DEF Steps
    <3>2. QED
      BY <3>1, BoundsNat, ProductGrows
  <2>6. /\ MaxRoundCharge * s[u] \in Nat
        /\ MaxRoundCharge * MaxSteps \in Nat
    <3>1. s[u] \in Nat
      BY BoundsNat DEF Steps
    <3>2. QED
      BY <3>1, BoundsNat, ProductNat
  <2>7. counters[u] \in Nat /\ counters[v] \in Nat /\ b[u] \in Nat
    BY <2>1 DEF TypeOK, Base, ClientsInQueue
  <2>8. QED
    BY <2>3, <2>4, <2>5, <2>6, <2>7, BoundsNat DEF GapBound
<1>2. QED
  BY <1>1, GapInit, GapStep, TypeCorrect, BatchesCorrect, PTL DEF Spec
(* The inductive invariant itself, on the history variables: each client's *)
(* base is the counter it had when it was last taken or lifted, and not    *)
(* just any value that would do.                                           *)
LEMMA HistoryStep ==
  ASSUME TypeOK, TypeOK', BatchesOK, QueueOK, base \in Base, steps \in Steps,
         GapInv(base, steps), [HistoryNext]_historyVars
  PROVE  base' \in Base /\ steps' \in Steps /\ GapInv(base, steps)'
<1>1. PICK b \in Base : b = base
  OBVIOUS
<1>2. PICK s \in Steps : s = steps
  OBVIOUS
<1>3. PICK b2 : b2 = base'
  OBVIOUS
<1>4. PICK s2 : s2 = steps'
  OBVIOUS
<1>5. GapInv(b, s)
  BY <1>1, <1>2
<1>6. [Next]_vars
  BY DEF HistoryNext, historyVars
<1>7. ASSUME GapInv(b2, s2)' PROVE GapInv(base, steps)'
  <2>1. Anchored(base, steps)'
    BY <1>3, <1>4, <1>7 DEF GapInv, Anchored
  <2>2. BasesBelowQueue(base)'
    BY <1>3, <1>7 DEF GapInv, BasesBelowQueue
  <2>3. StepsCovered(steps)'
    BY <1>4, <1>7 DEF GapInv, StepsCovered, Generating, NotStarted
  <2>4. QED
    BY <2>1, <2>2, <2>3 DEF GapInv
<1>8. CASE HistoryNext
  <2>1. Follows(b, s, b2, s2)
    BY <1>1, <1>2, <1>3, <1>4, <1>8 DEF HistoryNext, Follows
  <2>2. QED
    BY <1>3, <1>4, <1>5, <1>6, <1>7, <2>1, GapFollows
<1>9. CASE UNCHANGED historyVars
  <2>1. b2 = b /\ s2 = s /\ UNCHANGED vars
    BY <1>1, <1>2, <1>3, <1>4, <1>9 DEF historyVars
  <2>2. GapInv(b, s)'
    BY <1>5, <2>1, GapMoves
  <2>3. QED
    BY <1>3, <1>4, <1>7, <2>1, <2>2
<1>10. QED
  BY <1>8, <1>9

(* In every state of every client: no waiting client is below any base, a  *)
(* counter is at most one prompt and steps[u] full decode rounds above its *)
(* base (FairQueue's generate_new_batch, update_counter, append), and the  *)
(* batches hold no request younger than those rounds.                      *)
THEOREM HistoryHolds == HistorySpec => []HistoryInv
<1> DEFINE Gap == base \in Base /\ steps \in Steps /\ GapInv(base, steps)
<1>1. HistoryInit => Gap
  <2>1. SUFFICES ASSUME HistoryInit PROVE Gap
    OBVIOUS
  <2> DEFINE z == [u \in Client |-> 0]
  <2>2. base = z /\ steps = z
    BY <2>1 DEF HistoryInit
  <2>3. z \in Base /\ z \in Steps /\ GapInv(z, z)
    BY <2>1, GapStarts DEF HistoryInit
  <2>4. QED
    BY <2>2, <2>3
<1>2. TypeOK /\ TypeOK' /\ BatchesOK /\ QueueOK /\ Gap /\ [HistoryNext]_historyVars => Gap'
  BY HistoryStep
<1>3. Gap /\ BatchesOK /\ QueueOK => HistoryInv
  BY BoundsNat DEF HistoryInv, Steps
<1>4. HistorySpec => Spec
  <2>1. HistoryInit => Init
    BY DEF HistoryInit
  <2>2. [HistoryNext]_historyVars => [Next]_vars
    BY DEF HistoryNext, historyVars
  <2>3. QED
    BY <2>1, <2>2, PTL DEF HistorySpec, Spec
<1>5. QED
  BY <1>1, <1>2, <1>3, <1>4, TypeCorrect, BatchesCorrect, PTL DEF HistorySpec

-----------------------------------------------------------------------------
(* The measurements (FairnessMetrics).                                     *)

(* The router beside the metrics is the router of VtcRouter, until its     *)
(* loop_for_fwd has ended: then requests and aborts are still received.    *)
LEMMA MetricsStep ==
  [MetricsNext]_metricsVars => [Next]_vars \/ \E r \in Req : ReceiveReq(r) \/ ReceiveAbort(r)
  BY DEF MetricsNext, MetricsLoop, MetricsForward, MetricsNetio, CreateTmp,
         ReplaceFile, SaveFails, Kill, metricsVars, Next, Netio, Forward

LEMMA ReceivedKeepsRouter ==
  ASSUME TypeOK, BatchesOK, QueueOK, StartedOK,
         NEW r \in Req, ReceiveReq(r) \/ ReceiveAbort(r)
  PROVE  TypeOK' /\ (BatchesOK' /\ QueueOK') /\ StartedOK'
<1>1. CASE ReceiveReq(r)
  <2>1. /\ UNCHANGED <<pc, running, mini, uncharged, outputs, aborted, has_wait,
                       finished, forwarded>>
        /\ arrived' = arrived \cup {r}
    BY <1>1 DEF ReceiveReq
  <2>2. QueueTypeOK'
    BY <1>1, AppendReqType DEF ReceiveReq
  <2>3. TypeOK'
    BY <2>1, <2>2 DEF TypeOK, QueueTypeOK
  <2>4. QueueOK'
    BY <1>1, AddReqQueueOK
  <2>5. BatchesOK' /\ StartedOK'
    BY <2>1 DEF BatchesOK, StartedOK
  <2>6. QED
    BY <2>3, <2>4, <2>5
<1>2. CASE ReceiveAbort(r)
  <2>1. /\ UNCHANGED <<queueVars, pc, running, mini, uncharged, outputs, has_wait,
                       arrived, finished>>
        /\ aborted' = aborted \cup ({r} \cap (running \cup WaitingReqs))
        /\ forwarded' = forwarded \cup {r}
    BY <1>2 DEF ReceiveAbort
  <2>2. TypeOK'
    BY <2>1 DEF TypeOK, queueVars
  <2>3. BatchesOK' /\ QueueOK' /\ StartedOK'
    BY <2>1 DEF BatchesOK, QueueOK, WaitsOnceIn, StartedOK, queueVars
  <2>4. QED
    BY <2>2, <2>3
<1>3. QED
  BY <1>1, <1>2

LEMMA MetricsKeepRouter ==
  MetricsSpec => [](TypeOK /\ (BatchesOK /\ QueueOK) /\ StartedOK)
<1>1. MetricsInit => TypeOK /\ (BatchesOK /\ QueueOK) /\ StartedOK
  <2>1. Init => StartedOK
    BY DEF Init, StartedOK
  <2>2. QED
    BY <2>1, InitType, InitBatches DEF MetricsInit
<1>2. TypeOK /\ (BatchesOK /\ QueueOK) /\ StartedOK /\ [MetricsNext]_metricsVars
        => (TypeOK /\ (BatchesOK /\ QueueOK) /\ StartedOK)'
  BY MetricsStep, ReceivedKeepsRouter, StepKeepsType, StepKeepsBatches, StepKeepsStarted
<1>3. QED
  BY <1>1, <1>2, PTL DEF MetricsSpec

-----------------------------------------------------------------------------
(* Prompt tokens and numbers of requests of one client.                    *)
LEMMA TokensAreSum == \A S : InputTokens(S) = SumOver(input_len, S)
  BY DEF InputTokens, SumOver, MapThenSumSet, MapThenFoldSet

LEMMA ClientFigures ==
  ASSUME NEW c, NEW T \in SUBSET Req
  PROVE  /\ IsFiniteSet(OfClient(c, T))
         /\ InputTokens(OfClient(c, T)) \in Nat
         /\ Cardinality(OfClient(c, T)) \in Nat
         /\ InputTokens(OfClient(c, {})) = 0
         /\ Cardinality(OfClient(c, {})) = 0
<1>1. IsFiniteSet(Req) /\ input_len \in [Req -> Nat]
  BY RequestAssumption
<1>2. OfClient(c, {}) = {} /\ OfClient(c, T) \in SUBSET Req
  BY DEF OfClient
<1>3. IsFiniteSet(OfClient(c, T))
  BY <1>1, <1>2, FS_Subset
<1>4. Cardinality(OfClient(c, T)) \in Nat /\ Cardinality(OfClient(c, {})) = 0
  BY <1>2, <1>3, FS_CardinalityType, FS_EmptySet
<1>5. InputTokens(OfClient(c, T)) \in Nat /\ InputTokens(OfClient(c, {})) = 0
  BY <1>1, <1>2, TokensAreSum, SumNat, SumEmpty
<1>6. QED
  BY <1>3, <1>4, <1>5

LEMMA ClientTokens ==
  ASSUME NEW c, NEW T \in SUBSET Req, NEW U \in SUBSET Req, T \cap U = {}
  PROVE  InputTokens(OfClient(c, T \cup U))
           = InputTokens(OfClient(c, T)) + InputTokens(OfClient(c, U))
<1>1. IsFiniteSet(Req) /\ input_len \in [Req -> Nat]
  BY RequestAssumption
<1>2. /\ OfClient(c, T) \in SUBSET Req /\ OfClient(c, U) \in SUBSET Req
      /\ OfClient(c, T \cup U) = OfClient(c, T) \cup OfClient(c, U)
      /\ OfClient(c, T) \cap OfClient(c, U) = {}
  BY DEF OfClient
<1>3. SumOver(input_len, OfClient(c, T) \cup OfClient(c, U))
        = SumOver(input_len, OfClient(c, T)) + SumOver(input_len, OfClient(c, U))
  BY <1>1, <1>2, SumUnion
<1>4. QED
  BY <1>2, <1>3, TokensAreSum

LEMMA ClientTokensOfOne ==
  ASSUME NEW c, NEW r \in Req
  PROVE  /\ adapter_dir[r] = c => InputTokens(OfClient(c, {r})) = input_len[r]
         /\ adapter_dir[r] # c => InputTokens(OfClient(c, {r})) = 0
<1>1. input_len[r] \in Nat
  BY RequestAssumption
<1>2. CASE adapter_dir[r] = c
  <2>1. OfClient(c, {r}) = {r}
    BY <1>2 DEF OfClient
  <2>2. QED
    BY <1>1, <1>2, <2>1, SumSingle, TokensAreSum
<1>3. CASE adapter_dir[r] # c
  <2>1. OfClient(c, {r}) = OfClient(c, {})
    BY <1>3 DEF OfClient
  <2>2. QED
    BY <1>3, <2>1, ClientFigures
<1>4. QED
  BY <1>2, <1>3

LEMMA ClientCount ==
  ASSUME NEW c, NEW T \in SUBSET Req, NEW U \in SUBSET Req, T \cap U = {}
  PROVE  Cardinality(OfClient(c, T \cup U))
           = Cardinality(OfClient(c, T)) + Cardinality(OfClient(c, U))
<1>1. /\ OfClient(c, T \cup U) = OfClient(c, T) \cup OfClient(c, U)
      /\ OfClient(c, T) \cap OfClient(c, U) = {}
  BY DEF OfClient
<1>2. Cardinality(OfClient(c, T) \cup OfClient(c, U))
        = Cardinality(OfClient(c, T)) + Cardinality(OfClient(c, U))
          - Cardinality(OfClient(c, T) \cap OfClient(c, U))
  BY ClientFigures, FS_Union
<1>3. Cardinality(OfClient(c, T)) \in Nat /\ Cardinality(OfClient(c, U)) \in Nat
  BY ClientFigures
<1>4. Cardinality(OfClient(c, T) \cap OfClient(c, U)) = 0
  BY <1>1, FS_EmptySet
<1>5. Cardinality(OfClient(c, T) \cup OfClient(c, U))
        = Cardinality(OfClient(c, T)) + Cardinality(OfClient(c, U))
  BY <1>2, <1>3, <1>4
<1>6. QED
  BY <1>1, <1>5

LEMMA ClientCountOfOne ==
  ASSUME NEW c, NEW r \in Req
  PROVE  /\ adapter_dir[r] = c => Cardinality(OfClient(c, {r})) = 1
         /\ adapter_dir[r] # c => Cardinality(OfClient(c, {r})) = 0
<1>1. CASE adapter_dir[r] = c
  <2>1. OfClient(c, {r}) = {r}
    BY <1>1 DEF OfClient
  <2>2. QED
    BY <1>1, <2>1, FS_Singleton
<1>2. CASE adapter_dir[r] # c
  <2>1. OfClient(c, {r}) = OfClient(c, {})
    BY <1>2 DEF OfClient
  <2>2. QED
    BY <1>2, <2>1, ClientFigures
<1>3. QED
  BY <1>1, <1>2

-----------------------------------------------------------------------------
(* What MetricsAgree compares, with the state's parts as arguments.        *)
Account(cnt, lift, prompt, decode, prefilling, decoding) ==
  \A c \in Client :
    cnt[c] = lift[c] + (prompt[c] + 2 * decode[c])
               + (InputTokens(OfClient(c, prefilling))
                  + 2 * Cardinality(OfClient(c, decoding)))

Prefilling == {r \in running \cup mini : outputs[r] = 0}
Decoding == IF pc \in {"charge", "decode"} THEN running \ uncharged ELSE {}

FiguresOK ==
  /\ prompt_tokens \in [Client -> Nat]
  /\ decode_tokens \in [Client -> Nat]
  /\ lifts \in [Client -> Int]

LEMMA OnTheModel ==
  TypeOK => Prefilling \in SUBSET Req /\ Decoding \in SUBSET Req
  BY DEF TypeOK, Prefilling, Decoding

LEMMA AgreeIsAccount ==
  ASSUME TypeOK, FiguresOK
  PROVE  MetricsAgree <=> Account(counters, lifts, prompt_tokens, decode_tokens,
                                  Prefilling, Decoding)
<1>1. ASSUME NEW c \in Client
      PROVE  lifts[c] + Service(c) + InFlight(c)
               = lifts[c] + (prompt_tokens[c] + 2 * decode_tokens[c])
                   + (InputTokens(OfClient(c, Prefilling))
                      + 2 * Cardinality(OfClient(c, Decoding)))
  <2>1. InFlight(c) = w_p_input * InputTokens(OfClient(c, Prefilling))
                        + w_q_output * Cardinality(OfClient(c, Decoding))
    BY DEF InFlight, Prefilling, Decoding
  <2>2. /\ InputTokens(OfClient(c, Prefilling)) \in Nat
        /\ Cardinality(OfClient(c, Decoding)) \in Nat
    BY OnTheModel, ClientFigures
  <2>3. prompt_tokens[c] \in Nat /\ decode_tokens[c] \in Nat /\ lifts[c] \in Int
    BY DEF FiguresOK
  <2>4. QED
    BY <2>1, <2>2, <2>3 DEF Service, w_p_input, w_q_output
<1>2. QED
  BY <1>1 DEF MetricsAgree, Account

LEMMA LinearCharges ==
  ASSUME service_def = "linear", NEW len \in Nat, NEW n
  PROVE  PromptCharge(len) = len /\ DecodeCharge(len, n) = 2
<1>1. PromptCharge(len) = w_p_input * len
  BY Zenon DEF PromptCharge
<1>2. DecodeCharge(len, n) = w_q_output
  BY Zenon DEF DecodeCharge
<1>3. QED
  BY <1>1, <1>2 DEF w_p_input, w_q_output

(* A batch that was prefilled or decoded leaves the model and is recorded. *)
LEMMA PrefillRecorded ==
  ASSUME TypeOK, FiguresOK,
         Account(counters, lifts, prompt_tokens, decode_tokens, Prefilling, Decoding),
         RecordPromptService(Prefilling), counters' = counters
  PROVE  Account(counters', lifts', prompt_tokens', decode_tokens', {}, Decoding)
<1>1. SUFFICES ASSUME NEW c \in Client
               PROVE  counters'[c] = lifts'[c] + (prompt_tokens'[c] + 2 * decode_tokens'[c])
                        + (InputTokens(OfClient(c, {})) + 2 * Cardinality(OfClient(c, Decoding)))
  BY DEF Account
<1>2. counters[c] = lifts[c] + (prompt_tokens[c] + 2 * decode_tokens[c])
        + (InputTokens(OfClient(c, Prefilling)) + 2 * Cardinality(OfClient(c, Decoding)))
  BY DEF Account
<1>3. /\ prompt_tokens'[c] = prompt_tokens[c] + InputTokens(OfClient(c, Prefilling))
      /\ decode_tokens' = decode_tokens /\ lifts' = lifts
  BY DEF RecordPromptService
<1>4. /\ InputTokens(OfClient(c, Prefilling)) \in Nat /\ InputTokens(OfClient(c, {})) = 0
      /\ Cardinality(OfClient(c, Decoding)) \in Nat
  BY OnTheModel, ClientFigures
<1>5. prompt_tokens[c] \in Nat /\ decode_tokens[c] \in Nat /\ lifts[c] \in Int
  BY DEF FiguresOK
<1>6. QED
  BY <1>2, <1>3, <1>4, <1>5

LEMMA DecodeRecorded ==
  ASSUME TypeOK, FiguresOK,
         Account(counters, lifts, prompt_tokens, decode_tokens, Prefilling, Decoding),
         RecordDecodeService(Decoding), counters' = counters
  PROVE  Account(counters', lifts', prompt_tokens', decode_tokens', Prefilling, {})
<1>1. SUFFICES ASSUME NEW c \in Client
               PROVE  counters'[c] = lifts'[c] + (prompt_tokens'[c] + 2 * decode_tokens'[c])
                        + (InputTokens(OfClient(c, Prefilling)) + 2 * Cardinality(OfClient(c, {})))
  BY DEF Account
<1>2. counters[c] = lifts[c] + (prompt_tokens[c] + 2 * decode_tokens[c])
        + (InputTokens(OfClient(c, Prefilling)) + 2 * Cardinality(OfClient(c, Decoding)))
  BY DEF Account
<1>3. /\ decode_tokens'[c] = decode_tokens[c] + Cardinality(OfClient(c, Decoding))
      /\ prompt_tokens' = prompt_tokens /\ lifts' = lifts
  BY DEF RecordDecodeService
<1>4. /\ InputTokens(OfClient(c, Prefilling)) \in Nat /\ Cardinality(OfClient(c, {})) = 0
      /\ Cardinality(OfClient(c, Decoding)) \in Nat
  BY OnTheModel, ClientFigures
<1>5. prompt_tokens[c] \in Nat /\ decode_tokens[c] \in Nat /\ lifts[c] \in Int
  BY DEF FiguresOK
<1>6. QED
  BY <1>2, <1>3, <1>4, <1>5

(* A charge puts its request on the model.                                 *)
LEMMA PromptCharged ==
  ASSUME TypeOK, FiguresOK, service_def = "linear",
         Account(counters, lifts, prompt_tokens, decode_tokens, Prefilling, Decoding),
         NEW r \in Req, r \notin Prefilling,
         counters' = [counters EXCEPT ![adapter_dir[r]] = @ + PromptCharge(input_len[r])]
  PROVE  Account(counters', lifts, prompt_tokens, decode_tokens, Prefilling \cup {r}, Decoding)
<1>1. SUFFICES ASSUME NEW c \in Client
               PROVE  counters'[c] = lifts[c] + (prompt_tokens[c] + 2 * decode_tokens[c])
                        + (InputTokens(OfClient(c, Prefilling \cup {r}))
                           + 2 * Cardinality(OfClient(c, Decoding)))
  BY DEF Account
<1>2. counters[c] = lifts[c] + (prompt_tokens[c] + 2 * decode_tokens[c])
        + (InputTokens(OfClient(c, Prefilling)) + 2 * Cardinality(OfClient(c, Decoding)))
  BY DEF Account
<1>3. input_len[r] \in Nat /\ adapter_dir[r] \in Client
  BY RequestAssumption
<1>4. PromptCharge(input_len[r]) = input_len[r]
  BY <1>3, LinearCharges
<1>5. counters'[c] = counters[c] + InputTokens(OfClient(c, {r}))
  <2>1. counters[c] \in Nat /\ counters \in [Client -> Nat]
    BY DEF TypeOK
  <2>2. QED
    BY <1>3, <1>4, <2>1, ClientTokensOfOne
<1>6. /\ InputTokens(OfClient(c, Prefilling)) \in Nat
      /\ Cardinality(OfClient(c, Decoding)) \in Nat
      /\ InputTokens(OfClient(c, {r})) \in Nat
      /\ InputTokens(OfClient(c, Prefilling \cup {r}))
           = InputTokens(OfClient(c, Prefilling)) + InputTokens(OfClient(c, {r}))
  <2>1. Prefilling \cap {r} = {} /\ {r} \in SUBSET Req
    OBVIOUS
  <2>2. QED
    BY <2>1, OnTheModel, ClientFigures, ClientTokens, ClientCount
<1>7. prompt_tokens[c] \in Nat /\ decode_tokens[c] \in Nat /\ lifts[c] \in Int
  BY DEF FiguresOK
<1>8. QED
  BY <1>2, <1>5, <1>6, <1>7

LEMMA DecodeCharged ==
  ASSUME TypeOK, FiguresOK, service_def = "linear",
         Account(counters, lifts, prompt_tokens, decode_tokens, Prefilling, Decoding),
         NEW r \in Req, r \notin Decoding, ChargeDecode(r, outputs[r])
  PROVE  Account(counters', lifts, prompt_tokens, decode_tokens, Prefilling, Decoding \cup {r})
<1>1. SUFFICES ASSUME NEW c \in Client
               PROVE  counters'[c] = lifts[c] + (prompt_tokens[c] + 2 * decode_tokens[c])
                        + (InputTokens(OfClient(c, Prefilling))
                           + 2 * Cardinality(OfClient(c, Decoding \cup {r})))
  BY DEF Account
<1>2. counters[c] = lifts[c] + (prompt_tokens[c] + 2 * decode_tokens[c])
        + (InputTokens(OfClient(c, Prefilling)) + 2 * Cardinality(OfClient(c, Decoding)))
  BY DEF Account
<1>3. input_len[r] \in Nat /\ adapter_dir[r] \in Client
  BY RequestAssumption
<1>4. DecodeCharge(input_len[r], outputs[r]) = 2
  BY <1>3, LinearCharges
<1>5. counters'[c] = counters[c] + 2 * Cardinality(OfClient(c, {r}))
  <2>1. counters[c] \in Nat /\ counters \in [Client -> Nat]
    BY DEF TypeOK
  <2>2. QED
    BY <1>3, <1>4, <2>1, ClientCountOfOne DEF ChargeDecode
<1>6. /\ InputTokens(OfClient(c, Prefilling)) \in Nat
      /\ Cardinality(OfClient(c, Decoding)) \in Nat
      /\ Cardinality(OfClient(c, {r})) \in Nat
      /\ Cardinality(OfClient(c, Decoding \cup {r}))
           = Cardinality(OfClient(c, Decoding)) + Cardinality(OfClient(c, {r}))
  <2>1. Decoding \cap {r} = {} /\ {r} \in SUBSET Req
    OBVIOUS
  <2>2. QED
    BY <2>1, OnTheModel, ClientFigures, ClientTokens, ClientCount
<1>7. prompt_tokens[c] \in Nat /\ decode_tokens[c] \in Nat /\ lifts[c] \in Int
  BY DEF FiguresOK
<1>8. QED
  BY <1>2, <1>5, <1>6, <1>7

(* A lift is in both accounts.                                             *)
LEMMA LiftRecorded ==
  ASSUME TypeOK, TypeOK', FiguresOK, RecordLift,
         Account(counters, lifts, prompt_tokens, decode_tokens, Prefilling, Decoding)
  PROVE  Account(counters', lifts', prompt_tokens', decode_tokens', Prefilling, Decoding)
<1>1. SUFFICES ASSUME NEW c \in Client
               PROVE  counters'[c] = lifts'[c] + (prompt_tokens'[c] + 2 * decode_tokens'[c])
                        + (InputTokens(OfClient(c, Prefilling))
                           + 2 * Cardinality(OfClient(c, Decoding)))
  BY DEF Account
<1>2. counters[c] = lifts[c] + (prompt_tokens[c] + 2 * decode_tokens[c])
        + (InputTokens(OfClient(c, Prefilling)) + 2 * Cardinality(OfClient(c, Decoding)))
  BY DEF Account
<1>3. /\ lifts'[c] = lifts[c] + (counters'[c] - counters[c])
      /\ prompt_tokens' = prompt_tokens /\ decode_tokens' = decode_tokens
  BY DEF RecordLift
<1>4. /\ InputTokens(OfClient(c, Prefilling)) \in Nat
      /\ Cardinality(OfClient(c, Decoding)) \in Nat
  BY OnTheModel, ClientFigures
<1>5. /\ prompt_tokens[c] \in Nat /\ decode_tokens[c] \in Nat /\ lifts[c] \in Int
      /\ counters[c] \in Nat /\ counters'[c] \in Nat
  BY DEF FiguresOK, TypeOK
<1>6. QED
  BY <1>2, <1>3, <1>4, <1>5

(* The tokens of a batch: who gets his first leaves Prefilling.            *)
LEMMA TokensGiven ==
  ASSUME TypeOK, NEW batch \in SUBSET Req, NEW F, GiveTokens(batch, F)
  PROVE  /\ counters' = counters
         /\ uncharged' = uncharged
         /\ \A r \in batch : outputs'[r] # 0
         /\ \A r \in Req \ batch : outputs'[r] = outputs[r]
<1>1. /\ counters' = counters /\ uncharged' = uncharged
      /\ \A r \in Req : outputs'[r] = IF r \in batch THEN outputs[r] + 1 ELSE outputs[r]
  BY DEF GiveTokens, queueVars
<1>2. \A r \in Req : outputs[r] \in Nat
  BY DEF TypeOK
<1>3. QED
  BY <1>1, <1>2

LEMMA StepKeepsFigures ==
  ASSUME TypeOK, TypeOK', FiguresOK, [MetricsNext]_metricsVars
  PROVE  FiguresOK'
<1>1. ASSUME NEW batch \in SUBSET Req, RecordPromptService(batch)
      PROVE  FiguresOK'
  <2>1. ASSUME NEW c \in Client
        PROVE  prompt_tokens[c] + InputTokens(OfClient(c, batch)) \in Nat
    BY ClientFigures DEF FiguresOK
  <2>2. QED
    BY <1>1, <2>1 DEF RecordPromptService, FiguresOK
<1>2. ASSUME NEW batch \in SUBSET Req, RecordDecodeService(batch)
      PROVE  FiguresOK'
  <2>1. ASSUME NEW c \in Client
        PROVE  decode_tokens[c] + Cardinality(OfClient(c, batch)) \in Nat
    BY ClientFigures DEF FiguresOK
  <2>2. QED
    BY <1>2, <2>1 DEF RecordDecodeService, FiguresOK
<1>3. CASE RecordLift
  <2>1. ASSUME NEW c \in Client
        PROVE  lifts[c] + (counters'[c] - counters[c]) \in Int
    BY DEF FiguresOK, TypeOK
  <2>2. QED
    BY <1>3, <2>1 DEF RecordLift, FiguresOK
<1>4. CASE UNCHANGED figureVars
  BY <1>4 DEF figureVars, FiguresOK
<1>5. running \in SUBSET Req /\ mini \in SUBSET Req
  BY DEF TypeOK
<1>6. \/ RecordPromptService(running) \/ RecordPromptService(mini)
      \/ RecordDecodeService(running) \/ RecordLift \/ UNCHANGED figureVars
  BY DEF MetricsNext, MetricsLoop, MetricsForward, MetricsNetio, CreateTmp,
         ReplaceFile, SaveFails, Kill, metricsVars
<1>7. QED
  BY <1>1, <1>2, <1>3, <1>4, <1>5, <1>6

(* A step of the router that records nothing: it charges one request, or   *)
(* leaves the counters and what is on the model as they are.               *)
Agrees == Account(counters, lifts, prompt_tokens, decode_tokens, Prefilling, Decoding)

LEMMA SameAccount ==
  ASSUME Agrees, counters' = counters, UNCHANGED figureVars,
         Prefilling' = Prefilling, Decoding' = Decoding
  PROVE  Agrees'
<1>1. /\ lifts' = lifts /\ prompt_tokens' = prompt_tokens
      /\ decode_tokens' = decode_tokens
  BY DEF figureVars
<1>2. Account(counters', lifts', prompt_tokens', decode_tokens', Prefilling', Decoding')
  BY <1>1, Zenon DEF Agrees
<1>3. QED
  BY <1>2 DEF Agrees

LEMMA AdmitAgrees ==
  ASSUME TypeOK, BatchesOK, QueueOK, FiguresOK, Agrees, service_def = "linear",
         NEW k \in Client, Admit(k), UNCHANGED figureVars
  PROVE  Agrees'
<1> DEFINE e == Earliest(k)
<1>1. queued[k] # <<>> /\ pc = "admit"
  BY DEF Admit, IsNext, ClientsInQueue
<1>2. /\ UNCHANGED <<pc, running, outputs, uncharged>> /\ mini' = mini \cup {e}
      /\ counters' = [counters EXCEPT ![k] = @ + PromptCharge(input_len[e])]
  BY DEF Admit, TakeEarliest
<1>3. e \in Req /\ outputs[e] = 0 /\ adapter_dir[e] = k /\ e \notin running \cup mini
  <2>1. /\ Earliest(k) = queued[k][1] /\ Len(queued[k]) \in Nat \ {0}
        /\ queued[k][1] \in Req
    BY <1>1, WaitingHeadTail
  <2>2. 1 \in 1..Len(queued[k])
    BY <2>1
  <2>3. WaitsOnceIn(k, 1)
    BY <2>2 DEF QueueOK
  <2>4. QED
    BY <2>1, <2>3 DEF WaitsOnceIn
<1> HIDE DEF e
<1>4. Prefilling' = Prefilling \cup {e} /\ Decoding' = Decoding /\ e \notin Prefilling
  BY <1>1, <1>2, <1>3 DEF Prefilling, Decoding
<1>5. counters' = [counters EXCEPT ![adapter_dir[e]] = @ + PromptCharge(input_len[e])]
  BY <1>2, <1>3
<1>6. Account(counters', lifts, prompt_tokens, decode_tokens, Prefilling \cup {e}, Decoding)
  BY <1>3, <1>4, <1>5, PromptCharged DEF Agrees
<1>7. /\ lifts' = lifts /\ prompt_tokens' = prompt_tokens
      /\ decode_tokens' = decode_tokens
  BY DEF figureVars
<1>8. Account(counters', lifts', prompt_tokens', decode_tokens', Prefilling', Decoding')
  BY <1>4, <1>6, <1>7, Zenon
<1>9. QED
  BY <1>8 DEF Agrees

LEMMA ChargeAgrees ==
  ASSUME TypeOK, BatchesOK, FiguresOK, Agrees, service_def = "linear",
         NEW r \in Req, Charge(r), UNCHANGED figureVars
  PROVE  Agrees'
<1>1. /\ pc = "charge" /\ r \in uncharged /\ uncharged' = uncharged \ {r}
      /\ pc' \in {"charge", "decode"}
      /\ UNCHANGED <<running, mini, outputs>>
      /\ ChargeDecode(r, outputs[r])
  BY DEF Charge
<1>2. r \in running
  BY <1>1 DEF BatchesOK
<1>3. Prefilling' = Prefilling /\ Decoding' = Decoding \cup {r} /\ r \notin Decoding
  BY <1>1, <1>2 DEF Prefilling, Decoding
<1>4. Account(counters', lifts, prompt_tokens, decode_tokens, Prefilling, Decoding \cup {r})
  BY <1>1, <1>3, DecodeCharged DEF Agrees
<1>5. /\ lifts' = lifts /\ prompt_tokens' = prompt_tokens
      /\ decode_tokens' = decode_tokens
  BY DEF figureVars
<1>6. Account(counters', lifts', prompt_tokens', decode_tokens', Prefilling', Decoding')
  BY <1>3, <1>4, <1>5, Zenon
<1>7. QED
  BY <1>6 DEF Agrees

LEMMA PrefillAgrees ==
  ASSUME TypeOK, FiguresOK, Agrees, NEW batch \in SUBSET Req, NEW F,
         GiveTokens(batch, F), RecordPromptService(batch), batch = Prefilling,
         running' \cup mini' \subseteq running \cup mini,
         pc = "prefill", pc' \notin {"charge", "decode"}
  PROVE  Agrees'
<1>1. counters' = counters /\ uncharged' = uncharged
  BY TokensGiven
<1>2. Prefilling' = {}
  <2>1. SUFFICES ASSUME NEW r \in running' \cup mini', outputs'[r] = 0
                 PROVE  FALSE
    BY DEF Prefilling
  <2>2. r \in running \cup mini /\ r \in Req
    BY DEF TypeOK
  <2>3. r \notin batch
    BY <2>1, TokensGiven
  <2>4. outputs[r] = 0
    BY <2>1, <2>2, <2>3, TokensGiven
  <2>5. QED
    BY <2>2, <2>3, <2>4 DEF Prefilling
<1>3. Decoding' = Decoding
  BY DEF Decoding
<1>4. Account(counters', lifts', prompt_tokens', decode_tokens', {}, Decoding)
  BY <1>1, PrefillRecorded DEF Agrees
<1>5. Account(counters', lifts', prompt_tokens', decode_tokens', Prefilling', Decoding')
  BY <1>2, <1>3, <1>4, Zenon
<1>6. QED
  BY <1>5 DEF Agrees

LEMMA DecodeAgrees ==
  ASSUME TypeOK, BatchesOK, StartedOK, FiguresOK, Agrees, NEW F \in SUBSET running,
         FinishDecode(F), RecordDecodeService(running)
  PROVE  Agrees'
<1>1. /\ pc = "decode" /\ pc' \notin {"charge", "decode"}
      /\ running' \subseteq running /\ mini' = mini
      /\ GiveTokens(running, F) /\ running \in SUBSET Req
  BY DEF FinishDecode, TypeOK
<1>2. mini = {} /\ uncharged = {}
  BY <1>1 DEF BatchesOK
<1>3. Decoding = running /\ Decoding' = {}
  BY <1>1, <1>2 DEF Decoding
<1>4. Prefilling = {}
  BY <1>1, <1>2 DEF StartedOK, Prefilling
<1>5. Prefilling' = {}
  <2>1. \A r \in running : outputs'[r] # 0
    BY <1>1, TokensGiven
  <2>2. QED
    BY <1>1, <1>2, <2>1 DEF Prefilling
<1>6. counters' = counters
  BY <1>1, TokensGiven
<1>7. Account(counters', lifts', prompt_tokens', decode_tokens', Prefilling, {})
  BY <1>3, <1>6, DecodeRecorded DEF Agrees
<1>8. Account(counters', lifts', prompt_tokens', decode_tokens', Prefilling', Decoding')
  BY <1>3, <1>4, <1>5, <1>7, Zenon
<1>9. QED
  BY <1>8 DEF Agrees

(* The steps between charges.                                              *)
LEMMA QuietAgrees ==
  ASSUME TypeOK, BatchesOK, Agrees, UNCHANGED figureVars,
         \/ \E r \in Req : ReceiveAbort(r)
         \/ \E k \in Client : DropAborted(k)
         \/ Wake \/ DecodeStep \/ StartAdmission \/ NothingAdmitted
         \/ StartPrefill \/ PrefillCleanedUp \/ Merge \/ DecodeCleanedUp
         \/ UNCHANGED vars
  PROVE  Agrees'
<1>1. /\ counters' = counters /\ outputs' = outputs
      /\ running' \cup mini' = running \cup mini
  BY DEF ReceiveAbort, DropAborted, Wake, DecodeStep, StartAdmission, NothingAdmitted,
         StartPrefill, PrefillCleanedUp, Merge, DecodeCleanedUp, StartDecode,
         vars, queueVars, routerVars
<1>2. Prefilling' = Prefilling
  BY <1>1 DEF Prefilling
<1>3. Decoding' = Decoding
  <2>1. CASE \/ \E k \in Client : DropAborted(k)
             \/ \E r \in Req : ReceiveAbort(r)
             \/ UNCHANGED vars
    BY <2>1 DEF ReceiveAbort, DropAborted, vars, routerVars, Decoding
  <2>2. CASE DecodeStep \/ NothingAdmitted
    BY <2>2 DEF DecodeStep, NothingAdmitted, AdmissionOver, StartDecode, Decoding
  <2>3. CASE \/ Wake \/ StartAdmission \/ StartPrefill
             \/ PrefillCleanedUp \/ Merge \/ DecodeCleanedUp
    BY <2>3 DEF Wake, StartAdmission, StartPrefill, AdmissionOver, PrefillCleanedUp,
                Merge, DecodeCleanedUp, AfterStep, Decoding
  <2>4. QED
    BY <2>1, <2>2, <2>3
<1>4. QED
  BY <1>1, <1>2, <1>3, SameAccount

LEMMA StepKeepsAgree ==
  ASSUME TypeOK, TypeOK', BatchesOK, QueueOK, StartedOK, FiguresOK, Agrees,
         service_def = "linear", [MetricsNext]_metricsVars
  PROVE  Agrees'
<1>1. ASSUME NEW F \in SUBSET running, FinishFirstPrefill(F), RecordPromptService(running)
      PROVE  Agrees'
  <2>1. /\ pc = "prefill" /\ mini = {} /\ GiveTokens(running, F)
        /\ running' \subseteq running /\ mini' = mini
        /\ pc' \notin {"charge", "decode"} /\ running \in SUBSET Req
    BY <1>1 DEF FinishFirstPrefill, TypeOK
  <2>2. Prefilling = running
    BY <2>1 DEF StartedOK, Prefilling
  <2>3. QED
    BY <1>1, <2>1, <2>2, PrefillAgrees
<1>2. ASSUME NEW F \in SUBSET mini, FinishMiniPrefill(F), RecordPromptService(mini)
      PROVE  Agrees'
  <2>1. /\ pc = "prefill" /\ mini # {} /\ GiveTokens(mini, F)
        /\ mini' \subseteq mini /\ running' = running
        /\ pc' \notin {"charge", "decode"} /\ mini \in SUBSET Req
    BY <1>2 DEF FinishMiniPrefill, TypeOK
  <2>2. Prefilling = mini
    BY <2>1 DEF StartedOK, Prefilling
  <2>3. QED
    BY <1>2, <2>1, <2>2, PrefillAgrees
<1>3. ASSUME NEW F \in SUBSET running, FinishDecode(F), RecordDecodeService(running)
      PROVE  Agrees'
  BY <1>3, DecodeAgrees
<1>4. ASSUME NEW r \in Req, Charge(r), UNCHANGED figureVars PROVE Agrees'
  BY <1>4, ChargeAgrees
<1>5. ASSUME NEW k \in Client, Admit(k), UNCHANGED figureVars PROVE Agrees'
  BY <1>5, AdmitAgrees
<1>6. ASSUME NEW r \in Req, ReceiveReq(r), RecordLift PROVE Agrees'
  <2>1. UNCHANGED <<pc, running, mini, outputs, uncharged>>
    BY <1>6 DEF ReceiveReq
  <2>2. Prefilling' = Prefilling /\ Decoding' = Decoding
    BY <2>1 DEF Prefilling, Decoding
  <2>3. Account(counters', lifts', prompt_tokens', decode_tokens', Prefilling, Decoding)
    BY <1>6, LiftRecorded DEF Agrees
  <2>4. Account(counters', lifts', prompt_tokens', decode_tokens', Prefilling', Decoding')
    BY <2>2, <2>3, Zenon
  <2>5. QED
    BY <2>4 DEF Agrees
<1>7. CASE CreateTmp \/ ReplaceFile \/ SaveFails \/ Kill \/ UNCHANGED metricsVars
  <2>1. UNCHANGED vars /\ UNCHANGED figureVars
    BY <1>7 DEF CreateTmp, ReplaceFile, SaveFails, Kill, metricsVars
  <2>2. QED
    BY <2>1, QuietAgrees
<1>8. CASE MetricsForward
  BY <1>1, <1>2, <1>3, <1>4, <1>5, <1>8, QuietAgrees DEF MetricsForward
<1>9. CASE MetricsNetio
  BY <1>6, <1>9, QuietAgrees DEF MetricsNetio, AddReq, Abort
<1>10. QED
  BY <1>7, <1>8, <1>9 DEF MetricsNext, MetricsLoop

(* The two accounts of a client's service, the virtual counter that        *)
(* generate_new_batch and update_counter charge and the events that        *)
(* record_prompt_service and record_decode_service are handed, agree at    *)
(* every await of the router for any clients, requests and limits: a       *)
(* counter is what was measured, what is on the model now and the lifts.   *)
(* The hypothesis is the cost the class is built for.                      *)
THEOREM AccountsAgree == ASSUME service_def = "linear" PROVE MetricsSpec => []MetricsAgree
<1>1. MetricsInit => FiguresOK /\ Agrees
  <2>1. SUFFICES ASSUME MetricsInit PROVE FiguresOK /\ Agrees
    OBVIOUS
  <2>2. /\ prompt_tokens = [c \in Client |-> 0] /\ decode_tokens = [c \in Client |-> 0]
        /\ lifts = [c \in Client |-> 0] /\ counters = [c \in Client |-> 0]
    BY <2>1 DEF MetricsInit, Zero, Init, QueueInit
  <2>3. Prefilling = {} /\ Decoding = {}
    BY <2>1 DEF MetricsInit, Init, Prefilling, Decoding
  <2>4. ASSUME NEW c \in Client
        PROVE  /\ InputTokens(OfClient(c, Prefilling)) = 0
               /\ Cardinality(OfClient(c, Decoding)) = 0
    BY <2>3, ClientFigures
  <2>5. Agrees
    BY <2>2, <2>4 DEF Agrees, Account
  <2>6. QED
    BY <2>2, <2>5 DEF FiguresOK
<1>2. TypeOK /\ TypeOK' /\ FiguresOK /\ [MetricsNext]_metricsVars => FiguresOK'
  BY StepKeepsFigures
<1>3. TypeOK /\ TypeOK' /\ (BatchesOK /\ QueueOK) /\ StartedOK /\ FiguresOK /\ Agrees
        /\ [MetricsNext]_metricsVars => Agrees'
  BY StepKeepsAgree
<1>4. TypeOK /\ FiguresOK /\ Agrees => MetricsAgree
  BY AgreeIsAccount DEF Agrees
<1>5. QED
  BY <1>1, <1>2, <1>3, <1>4, MetricsKeepRouter, PTL DEF MetricsSpec

-----------------------------------------------------------------------------
(* The dump.  A request that has begun has its prompt recorded, and every  *)
(* output token but the first.                                             *)
Later(o) == [r \in Req |-> IF o[r] = 0 THEN 0 ELSE o[r] - 1]

LEMMA LaterNat ==
  ASSUME NEW o \in [Req -> Nat]
  PROVE  /\ Later(o) \in [Req -> Nat]
         /\ \A r \in Req : Later(o)[r] = IF o[r] = 0 THEN 0 ELSE o[r] - 1
<1>1. ASSUME NEW r \in Req PROVE (IF o[r] = 0 THEN 0 ELSE o[r] - 1) \in Nat
  <2>1. o[r] \in Nat
    OBVIOUS
  <2>2. QED
    BY <2>1
<1>2. QED
  BY <1>1 DEF Later

(* The sum in FiguresOf, for requests that all have begun.                 *)
DecodedOf(o, S) == MapThenSumSet(LAMBDA r : o[r] - 1, S)

LEMMA DecodedIsSum ==
  ASSUME NEW o \in [Req -> Nat], NEW B \in SUBSET Req, \A r \in B : o[r] # 0
  PROVE  DecodedOf(o, B) = SumOver(Later(o), B)
<1> DEFINE f == Later(o)
           h == CHOOSE k : k = [s \in SUBSET B |->
                  IF s = {} THEN 0 ELSE (o[Some(s)] - 1) + k[s \ {Some(s)}]]
<1>1. f \in [Req -> Nat] /\ IsFiniteSet(Req) /\ IsFiniteSet(B)
  BY LaterNat, RequestAssumption, PartsFinite
<1>2. DecodedOf(o, B) = h[B]
  BY DEF DecodedOf, MapThenSumSet, MapThenFoldSet, Some
<1>3. PICK g : IsSum(g, f, Req)
  BY <1>1, SumIsFold
<1>4. SumOver(f, B) = g[B] /\ IsFold(g, f, Req)
  BY <1>3 DEF IsSum
<1> DEFINE e == [r \in B |-> f[r]]
<1>5. e \in [B -> Nat]
  BY <1>1
<1>6. PICK k : IsFold(k, e, B)
  BY <1>1, <1>5, FoldExists
<1>7. \A s \in SUBSET B : s # {} => e[Some(s)] = o[Some(s)] - 1
  <2>1. ASSUME NEW s \in SUBSET B, s # {} PROVE e[Some(s)] = o[Some(s)] - 1
    <3>1. Some(s) \in B /\ Some(s) \in Req
      BY <2>1 DEF Some
    <3>2. QED
      BY <3>1, LaterNat
  <2>2. QED
    BY <2>1
<1>8. k = [s \in SUBSET B |->
             IF s = {} THEN 0 ELSE (o[Some(s)] - 1) + k[s \ {Some(s)}]]
  BY <1>6, <1>7 DEF IsFold, Step
<1>9. h = [s \in SUBSET B |->
             IF s = {} THEN 0 ELSE (o[Some(s)] - 1) + h[s \ {Some(s)}]]
  BY <1>8
<1> HIDE DEF h
<1>10. IsFold(h, e, B)
  BY <1>7, <1>9 DEF IsFold, Step
<1>11. \A x \in B : e[x] = f[x]
  OBVIOUS
<1> HIDE DEF e, f
<1>12. SumOver(f, B) = DecodedOf(o, B)
  BY <1>1, <1>2, <1>4, <1>10, <1>11, FoldUnique
<1>13. QED
  BY <1>12 DEF f

FiguresIn(o, reqs) ==
  [prompt |-> [c \in Client |-> InputTokens(OfClient(c, reqs))],
   decode |-> [c \in Client |-> SumOver(Later(o), OfClient(c, reqs))]]

BegunIn(o) == {r \in Req : o[r] # 0}

LEMMA FiguresAreSums ==
  ASSUME NEW o \in [Req -> Nat]
  PROVE  FiguresOf(o) = FiguresIn(o, BegunIn(o))
<1>1. FiguresOf(o)
        = [prompt |-> [c \in Client |-> InputTokens(OfClient(c, BegunIn(o)))],
           decode |-> [c \in Client |-> DecodedOf(o, OfClient(c, BegunIn(o)))]]
  BY DEF FiguresOf, BegunIn, DecodedOf, MapThenSumSet, MapThenFoldSet
<1>2. ASSUME NEW c \in Client
      PROVE  DecodedOf(o, OfClient(c, BegunIn(o))) = SumOver(Later(o), OfClient(c, BegunIn(o)))
  <2>1. /\ OfClient(c, BegunIn(o)) \in SUBSET Req
        /\ \A r \in OfClient(c, BegunIn(o)) : o[r] # 0
    BY DEF OfClient, BegunIn
  <2>2. QED
    BY <2>1, DecodedIsSum
<1>3. QED
  BY <1>1, <1>2 DEF FiguresIn

(* Everything that has begun is recorded in full.                          *)
Begun == BegunIn(outputs)

RecordsOK ==
  \A c \in Client : /\ prompt_tokens[c] = InputTokens(OfClient(c, Begun))
                    /\ decode_tokens[c] = SumOver(Later(outputs), OfClient(c, Begun))

LEMMA FiguresComplete ==
  ASSUME FiguresOK, RecordsOK
  PROVE  Figures = FiguresIn(outputs, Begun)
  BY DEF Figures, FiguresOK, RecordsOK, FiguresIn

LEMMA PrefillRecords ==
  ASSUME TypeOK, TypeOK', RecordsOK, NEW batch \in SUBSET Req, NEW F,
         GiveTokens(batch, F), RecordPromptService(batch), \A r \in batch : outputs[r] = 0
  PROVE  RecordsOK'
<1>1. /\ outputs \in [Req -> Nat] /\ outputs' \in [Req -> Nat]
      /\ \A r \in batch : outputs'[r] = 1
      /\ \A r \in Req \ batch : outputs'[r] = outputs[r]
  BY DEF TypeOK, GiveTokens
<1>2. Begun' = Begun \cup batch /\ Begun \cap batch = {} /\ Begun \in SUBSET Req
  BY <1>1 DEF Begun, BegunIn
<1>3. ASSUME NEW c \in Client
      PROVE  /\ prompt_tokens'[c] = InputTokens(OfClient(c, Begun'))
             /\ decode_tokens'[c] = SumOver(Later(outputs'), OfClient(c, Begun'))
  <2> DEFINE A == OfClient(c, Begun)
             B == OfClient(c, batch)
  <2>1. /\ A \in SUBSET Req /\ B \in SUBSET Req /\ A \cap B = {} /\ B \subseteq batch
        /\ OfClient(c, Begun \cup batch) = A \cup B /\ A \subseteq Begun
    BY <1>2 DEF OfClient
  <2>2. /\ Later(outputs) \in [Req -> Nat] /\ Later(outputs') \in [Req -> Nat]
        /\ \A r \in A : Later(outputs)[r] = Later(outputs')[r]
        /\ \A r \in B : Later(outputs')[r] = 0
    BY <1>1, <1>2, <2>1, LaterNat
  <2> HIDE DEF A, B
  <2>3. SumOver(Later(outputs'), A) = SumOver(Later(outputs), A)
    BY <2>1, <2>2, RequestAssumption, SumSame
  <2>4. SumOver(Later(outputs'), B) = 0
    <3>1. SumOver(Later(outputs'), B) = 0 * Cardinality(B)
      BY <2>1, <2>2, RequestAssumption, SumConstant
    <3>2. Cardinality(B) \in Nat
      BY <2>1, PartsFinite
    <3>3. QED
      BY <3>1, <3>2
  <2>5. SumOver(Later(outputs'), A \cup B)
          = SumOver(Later(outputs'), A) + SumOver(Later(outputs'), B)
    BY <2>1, <2>2, RequestAssumption, SumUnion
  <2>6. SumOver(Later(outputs), A) \in Nat
    BY <2>1, <2>2, RequestAssumption, SumNat
  <2>7. decode_tokens'[c] = SumOver(Later(outputs), A)
    BY DEF RecordPromptService, RecordsOK, A
  <2>8. SumOver(Later(outputs'), OfClient(c, Begun')) = decode_tokens'[c]
    <3>1. OfClient(c, Begun') = A \cup B
      BY <1>2, <2>1
    <3>2. SumOver(Later(outputs'), A \cup B) = SumOver(Later(outputs), A)
      BY <2>3, <2>4, <2>5, <2>6
    <3>3. QED
      BY <2>7, <3>1, <3>2
  <2>9. prompt_tokens'[c] = InputTokens(A) + InputTokens(B)
    BY DEF RecordPromptService, RecordsOK, A, B
  <2>10. InputTokens(OfClient(c, Begun \cup batch)) = InputTokens(A) + InputTokens(B)
    BY <1>2, ClientTokens DEF A, B
  <2>11. QED
    BY <1>2, <2>8, <2>9, <2>10
<1>4. QED
  BY <1>3 DEF RecordsOK

LEMMA DecodeRecords ==
  ASSUME TypeOK, TypeOK', RecordsOK, NEW batch \in SUBSET Req, NEW F,
         GiveTokens(batch, F), RecordDecodeService(batch), \A r \in batch : outputs[r] # 0
  PROVE  RecordsOK'
<1>1. /\ outputs \in [Req -> Nat] /\ outputs' \in [Req -> Nat]
      /\ \A r \in batch : outputs'[r] = outputs[r] + 1
      /\ \A r \in Req \ batch : outputs'[r] = outputs[r]
  BY DEF TypeOK, GiveTokens
<1>2. \A r \in batch : outputs'[r] # 0
  BY <1>1
<1>3. Begun' = Begun /\ batch \subseteq Begun /\ Begun \in SUBSET Req
  BY <1>1, <1>2 DEF Begun, BegunIn
<1>4. ASSUME NEW c \in Client
      PROVE  /\ prompt_tokens'[c] = InputTokens(OfClient(c, Begun'))
             /\ decode_tokens'[c] = SumOver(Later(outputs'), OfClient(c, Begun'))
  <2> DEFINE A == OfClient(c, Begun \ batch)
             B == OfClient(c, batch)
  <2>1. /\ A \in SUBSET Req /\ B \in SUBSET Req /\ A \cap B = {} /\ B \subseteq batch
        /\ OfClient(c, Begun) = A \cup B /\ A \subseteq Req \ batch
    BY <1>3 DEF OfClient
  <2>2. Later(outputs) \in [Req -> Nat] /\ Later(outputs') \in [Req -> Nat]
    BY <1>1, LaterNat
  <2>3. \A r \in A : Later(outputs)[r] = Later(outputs')[r]
    <3>1. ASSUME NEW r \in A PROVE r \in Req /\ outputs'[r] = outputs[r]
      BY <1>1, <2>1
    <3>2. /\ \A r \in Req : Later(outputs)[r] = IF outputs[r] = 0 THEN 0 ELSE outputs[r] - 1
          /\ \A r \in Req : Later(outputs')[r] = IF outputs'[r] = 0 THEN 0 ELSE outputs'[r] - 1
      BY <1>1, LaterNat
    <3>3. QED
      BY <3>1, <3>2
  <2>4. ASSUME NEW r \in B PROVE Later(outputs')[r] = Later(outputs)[r] + 1
    <3>1. /\ r \in Req /\ outputs[r] \in Nat /\ outputs[r] # 0
          /\ outputs'[r] = outputs[r] + 1 /\ outputs'[r] # 0
      BY <1>1, <1>2, <2>1
    <3>2. Later(outputs)[r] = outputs[r] - 1 /\ Later(outputs')[r] = outputs'[r] - 1
      BY <1>1, <3>1, LaterNat
    <3>3. QED
      BY <3>1, <3>2
  <2> HIDE DEF A, B
  <2>5. SumOver(Later(outputs'), A) = SumOver(Later(outputs), A)
    BY <2>1, <2>2, <2>3, RequestAssumption, SumSame
  <2>6. SumOver(Later(outputs'), B) = 1 * Cardinality(B) + SumOver(Later(outputs), B)
    BY <2>1, <2>2, <2>4, RequestAssumption, SumMore
  <2>7. /\ SumOver(Later(outputs'), A \cup B)
             = SumOver(Later(outputs'), A) + SumOver(Later(outputs'), B)
        /\ SumOver(Later(outputs), A \cup B)
             = SumOver(Later(outputs), A) + SumOver(Later(outputs), B)
    BY <2>1, <2>2, RequestAssumption, SumUnion
  <2>8. /\ SumOver(Later(outputs), A) \in Nat /\ SumOver(Later(outputs), B) \in Nat
        /\ Cardinality(B) \in Nat
    BY <2>1, <2>2, RequestAssumption, SumNat, PartsFinite
  <2>9. /\ decode_tokens'[c] = SumOver(Later(outputs), A \cup B) + Cardinality(B)
        /\ prompt_tokens'[c] = InputTokens(OfClient(c, Begun))
    BY <2>1 DEF RecordDecodeService, RecordsOK, B
  <2>10. SumOver(Later(outputs'), A \cup B) = SumOver(Later(outputs), A \cup B) + Cardinality(B)
    BY <2>5, <2>6, <2>7, <2>8
  <2>11. QED
    BY <1>3, <2>1, <2>9, <2>10
<1>5. QED
  BY <1>4 DEF RecordsOK

(* A step that gives no tokens records none.                               *)
LEMMA SameRecords ==
  ASSUME RecordsOK, UNCHANGED <<outputs, prompt_tokens, decode_tokens>>
  PROVE  RecordsOK'
<1>1. Begun' = Begun
  BY DEF Begun, BegunIn
<1>2. QED
  BY <1>1 DEF RecordsOK

(* Steps by the tokens they give.                                          *)
Prefills ==
  \/ \E F \in SUBSET running : FinishFirstPrefill(F) /\ RecordPromptService(running)
  \/ \E F \in SUBSET mini : FinishMiniPrefill(F) /\ RecordPromptService(mini)
Decodes == \E F \in SUBSET running : FinishDecode(F) /\ RecordDecodeService(running)
GivesNone == UNCHANGED <<outputs, prompt_tokens, decode_tokens>>

LEMMA StepGives ==
  [MetricsNext]_metricsVars => Prefills \/ Decodes \/ GivesNone
<1> SUFFICES ASSUME [MetricsNext]_metricsVars, ~Prefills, ~Decodes PROVE GivesNone
  OBVIOUS
<1>1. CASE MetricsForward
  <2>1. /\ \/ \E r \in Req : Charge(r)
           \/ \E k \in Client : Admit(k) \/ DropAborted(k)
           \/ Wake \/ DecodeStep \/ StartAdmission \/ NothingAdmitted
           \/ StartPrefill \/ PrefillCleanedUp \/ Merge \/ DecodeCleanedUp
        /\ UNCHANGED figureVars
    BY <1>1 DEF MetricsForward, Prefills, Decodes
  <2>2. UNCHANGED <<prompt_tokens, decode_tokens>>
    BY <2>1 DEF figureVars
  <2>3. UNCHANGED outputs
    BY <2>1 DEF Charge, Admit, DropAborted, Wake, DecodeStep, StartAdmission,
       NothingAdmitted, StartPrefill, PrefillCleanedUp, Merge, DecodeCleanedUp,
       StartDecode, routerVars
  <2>4. QED
    BY <2>2, <2>3 DEF GivesNone
<1>2. CASE MetricsNetio
  BY <1>2 DEF MetricsNetio, AddReq, ReceiveReq, Abort, ReceiveAbort, RecordLift, figureVars, GivesNone
<1>3. CASE CreateTmp \/ ReplaceFile \/ SaveFails \/ Kill \/ UNCHANGED metricsVars
  BY <1>3 DEF CreateTmp, ReplaceFile, SaveFails, Kill, metricsVars, vars,
              routerVars, figureVars, GivesNone
<1>4. QED
  BY <1>1, <1>2, <1>3 DEF MetricsNext, MetricsLoop

(* Which batch it was, and that its requests had no token or some.         *)
LEMMA PrefillGives ==
  ASSUME TypeOK, StartedOK, Prefills
  PROVE  \E batch \in {running, mini} : \E F :
            /\ GiveTokens(batch, F) /\ RecordPromptService(batch)
            /\ \A r \in batch : outputs[r] = 0
<1>1. ASSUME NEW F \in SUBSET running, FinishFirstPrefill(F), RecordPromptService(running)
      PROVE  /\ GiveTokens(running, F) /\ RecordPromptService(running)
             /\ \A r \in running : outputs[r] = 0
  BY <1>1 DEF FinishFirstPrefill, StartedOK
<1>2. ASSUME NEW F \in SUBSET mini, FinishMiniPrefill(F), RecordPromptService(mini)
      PROVE  /\ GiveTokens(mini, F) /\ RecordPromptService(mini)
             /\ \A r \in mini : outputs[r] = 0
  BY <1>2 DEF FinishMiniPrefill, StartedOK
<1>3. QED
  BY <1>1, <1>2 DEF Prefills

LEMMA DecodeGives ==
  ASSUME TypeOK, BatchesOK, StartedOK, Decodes
  PROVE  \E F : /\ GiveTokens(running, F) /\ RecordDecodeService(running)
                /\ \A r \in running : outputs[r] # 0
  BY DEF Decodes, FinishDecode, StartedOK

LEMMA StepKeepsRecords ==
  ASSUME TypeOK, TypeOK', BatchesOK, StartedOK, RecordsOK, [MetricsNext]_metricsVars
  PROVE  RecordsOK'
<1>1. running \in SUBSET Req /\ mini \in SUBSET Req
  BY DEF TypeOK
<1>2. CASE Prefills
  BY <1>1, <1>2, PrefillGives, PrefillRecords
<1>3. CASE Decodes
  BY <1>1, <1>3, DecodeGives, DecodeRecords
<1>4. CASE GivesNone
  BY <1>4, SameRecords DEF GivesNone
<1>5. QED
  BY <1>2, <1>3, <1>4, StepGives

(* Where loop_for_fwd stands between the tokens of an iteration and its    *)
(* end.                                                                    *)
AfterTokens == {"prefillCleanup", "merge", "decodeCleanup"}

LEMMA TokenStep ==
  ASSUME TypeOK, Prefills \/ Decodes
  PROVE  /\ pc \notin AfterTokens \cup {"sleep"}
         /\ pc' \in AfterTokens \cup {"top"}
         /\ \A r \in Req : outputs'[r] \in {outputs[r], outputs[r] + 1}
<1>1. /\ pc \in {"prefill", "decode"} /\ pc' \in AfterTokens \cup {"top"}
      /\ \E batch, F : GiveTokens(batch, F)
  BY DEF Prefills, Decodes, FinishFirstPrefill, FinishMiniPrefill, FinishDecode, AfterTokens
<1>2. \A r \in Req : outputs'[r] \in {outputs[r], outputs[r] + 1}
  BY <1>1 DEF GiveTokens
<1>3. QED
  BY <1>1, <1>2 DEF AfterTokens

(* A step of loop_for_fwd that gives no tokens does not pass them either,  *)
(* and falls asleep only from another place.                               *)
LEMMA QuietStep ==
  ASSUME MetricsForward, ~Prefills, ~Decodes
  PROVE  /\ outputs' = outputs
         /\ pc' \in AfterTokens => pc \in AfterTokens
         /\ pc \in AfterTokens /\ pc' \notin AfterTokens => pc' \in {"top", "sleep"}
         /\ pc' = "sleep" => pc # "sleep"
<1>1. \/ \E r \in Req : Charge(r)
      \/ \E k \in Client : Admit(k) \/ DropAborted(k)
      \/ Wake \/ DecodeStep \/ StartAdmission \/ NothingAdmitted
      \/ StartPrefill \/ PrefillCleanedUp \/ Merge \/ DecodeCleanedUp
  BY DEF MetricsForward, Prefills, Decodes
<1>2. QED
  BY <1>1 DEF Charge, Admit, DropAborted, Wake, DecodeStep, StartAdmission, NothingAdmitted,
     AdmissionOver, StartPrefill, PrefillCleanedUp, Merge, DecodeCleanedUp, StartDecode,
     AfterStep, routerVars, AfterTokens

(* What the file holds, and how far it is behind.                          *)
DumpOK ==
  /\ saved \in [Req -> Nat]
  /\ dump = FiguresIn(saved, BegunIn(saved))
  /\ loop = "runs" /\ pc = "sleep" => saved = outputs

LagOK ==
  /\ counter_count \in 0..save_every - 1
  /\ \A r \in Req : saved[r] <= outputs[r] /\ outputs[r] <= saved[r] + save_every
  /\ loop = "runs" =>
       \A r \in Req : outputs[r] <= saved[r] + counter_count
                                      + (IF pc \in AfterTokens THEN 1 ELSE 0)

(* Steps by what they do to the file.                                      *)
LEMMA StepSaves ==
  ASSUME [MetricsNext]_metricsVars
  PROVE  \/ MetricsForward
         \/ ReplaceFile
         \/ UNCHANGED <<dump, saved, outputs, counter_count, pc>>
              /\ (loop' = loop \/ loop' # "runs")
<1>1. CASE MetricsNetio
  <2>1. PICK r \in Req : ReceiveReq(r) \/ ReceiveAbort(r)
    BY <1>1 DEF MetricsNetio, AddReq, Abort
  <2>2. QED
    BY <1>1, <2>1 DEF MetricsNetio, ReceiveReq, ReceiveAbort, dumpVars
<1>2. CASE CreateTmp \/ SaveFails \/ Kill \/ UNCHANGED metricsVars
  BY <1>2 DEF CreateTmp, SaveFails, Kill, metricsVars, vars, routerVars, dumpVars
<1>3. QED
  BY <1>1, <1>2 DEF MetricsNext, MetricsLoop

LEMMA StepKeepsDump ==
  ASSUME TypeOK, FiguresOK, RecordsOK, DumpOK, [MetricsNext]_metricsVars
  PROVE  DumpOK'
<1>1. CASE MetricsForward
  <2>1. dump' = dump /\ saved' = saved
    BY <1>1 DEF MetricsForward
  <2>2. ASSUME loop' = "runs", pc' = "sleep" PROVE FALSE
    <3>1. pc # "sleep"
      BY <1>1, <2>2, TokenStep, QuietStep DEF AfterTokens
    <3>2. QED
      BY <1>1, <2>2, <3>1 DEF MetricsForward, Saves, StepReturns
  <2>3. QED
    BY <2>1, <2>2 DEF DumpOK
<1>2. CASE ReplaceFile
  <2>1. /\ dump' = Figures /\ saved' = outputs /\ outputs' = outputs
    BY <1>2 DEF ReplaceFile, vars, routerVars
  <2>2. Figures = FiguresIn(outputs, BegunIn(outputs)) /\ outputs \in [Req -> Nat]
    BY FiguresComplete DEF Begun, TypeOK
  <2>3. QED
    BY <2>1, <2>2 DEF DumpOK
<1>3. CASE UNCHANGED <<dump, saved, outputs, counter_count, pc>>
             /\ (loop' = loop \/ loop' # "runs")
  BY <1>3 DEF DumpOK
<1>4. QED
  BY <1>1, <1>2, <1>3, StepSaves

LEMMA StepKeepsLag ==
  ASSUME TypeOK, TypeOK', DumpOK, LagOK, [MetricsNext]_metricsVars
  PROVE  LagOK'
<1> USE SaveAssumption
<1>1. /\ saved \in [Req -> Nat] /\ outputs \in [Req -> Nat] /\ outputs' \in [Req -> Nat]
      /\ counter_count \in 0..save_every - 1
  BY DEF DumpOK, LagOK, TypeOK
<1>2. CASE MetricsForward
  <2>1. /\ saved' = saved /\ counter_count' = Iterations /\ loop = "runs"
        /\ loop' = IF Saves THEN "saves" ELSE "runs"
    BY <1>2 DEF MetricsForward
  <2>2. Iterations = IF ~StepReturns THEN counter_count
                       ELSE IF counter_count + 1 = save_every THEN 0 ELSE counter_count + 1
    BY DEF Iterations
  <2>3. counter_count' \in 0..save_every - 1
    BY <1>1, <2>1, <2>2
  <2>4. loop' = "runs" /\ StepReturns => counter_count' = counter_count + 1
    BY <1>1, <2>1, <2>2 DEF Saves
  <2>5. \A r \in Req : outputs[r] <= saved[r] + counter_count
                                       + (IF pc \in AfterTokens THEN 1 ELSE 0)
    BY <2>1 DEF LagOK
  <2>6. CASE Prefills \/ Decodes
    <3>1. /\ pc \notin AfterTokens \cup {"sleep"}
          /\ pc' \in AfterTokens \cup {"top"}
          /\ \A r \in Req : outputs'[r] \in {outputs[r], outputs[r] + 1}
      BY <2>6, TokenStep
    <3>2. \A r \in Req : saved[r] <= outputs'[r] /\ outputs'[r] <= saved[r] + counter_count + 1
      BY <1>1, <2>5, <3>1 DEF LagOK
    <3>3. StepReturns <=> pc' = "top"
      BY <3>1 DEF StepReturns, AfterTokens
    <3>4. loop' = "runs" =>
            \A r \in Req : outputs'[r] <= saved[r] + counter_count'
                                            + (IF pc' \in AfterTokens THEN 1 ELSE 0)
      <4>1. CASE pc' = "top"
        BY <1>1, <2>4, <3>2, <3>3, <4>1 DEF AfterTokens
      <4>2. CASE pc' \in AfterTokens
        <5>1. ~StepReturns
          BY <4>2 DEF StepReturns, AfterTokens
        <5>2. counter_count' = counter_count
          BY <2>1, <2>2, <5>1
        <5>3. QED
          BY <1>1, <3>2, <4>2, <5>2
      <4>3. QED
        BY <3>1, <4>1, <4>2
    <3>5. \A r \in Req : saved[r] <= outputs'[r] /\ outputs'[r] <= saved[r] + save_every
      BY <1>1, <3>2
    <3>6. QED
      BY <2>1, <2>3, <3>4, <3>5 DEF LagOK
  <2>7. CASE ~Prefills /\ ~Decodes
    <3>1. /\ outputs' = outputs
          /\ pc' \in AfterTokens => pc \in AfterTokens
          /\ pc \in AfterTokens /\ pc' \notin AfterTokens => pc' \in {"top", "sleep"}
      BY <1>2, <2>7, QuietStep
    <3>2. pc \in AfterTokens /\ pc' \notin AfterTokens => StepReturns
      BY <3>1 DEF StepReturns, AfterTokens
    <3>3. counter_count' = counter_count \/ StepReturns
      BY <2>1, <2>2
    <3>4. loop' = "runs" =>
            \A r \in Req : outputs'[r] <= saved[r] + counter_count'
                                            + (IF pc' \in AfterTokens THEN 1 ELSE 0)
      <4>1. CASE StepReturns
        <5>1. pc' \notin AfterTokens
          BY <4>1 DEF StepReturns, AfterTokens
        <5>2. QED
          BY <1>1, <2>4, <2>5, <3>1, <4>1, <5>1
      <4>2. CASE ~StepReturns
        <5>1. pc \in AfterTokens <=> pc' \in AfterTokens
          BY <3>1, <3>2, <4>2
        <5>2. QED
          BY <2>5, <3>1, <3>3, <4>2, <5>1
      <4>3. QED
        BY <4>1, <4>2
    <3>5. QED
      BY <2>1, <2>3, <3>1, <3>4 DEF LagOK
  <2>8. QED
    BY <2>6, <2>7
<1>3. CASE ReplaceFile
  <2>1. /\ saved' = outputs /\ outputs' = outputs /\ counter_count' = counter_count
    BY <1>3 DEF ReplaceFile, vars, routerVars
  <2>2. QED
    BY <1>1, <2>1 DEF LagOK
<1>4. CASE UNCHANGED <<dump, saved, outputs, counter_count, pc>>
             /\ (loop' = loop \/ loop' # "runs")
  BY <1>4 DEF LagOK
<1>5. QED
  BY <1>2, <1>3, <1>4, StepSaves

(* The file at metrics_dump_path is whole: wherever save_events fails or   *)
(* the process is killed, it holds the figures of one moment, for any      *)
(* clients and requests, the present one while the idle router sleeps; and *)
(* it is never more than save_every tokens of a request behind.            *)
THEOREM DumpWhole == MetricsSpec => []DumpIsWhole
<1>1. MetricsInit => FiguresOK /\ RecordsOK /\ DumpOK /\ LagOK
  <2>1. SUFFICES ASSUME MetricsInit
                 PROVE  FiguresOK /\ RecordsOK /\ DumpOK /\ LagOK
    OBVIOUS
  <2>2. /\ prompt_tokens = [c \in Client |-> 0] /\ decode_tokens = [c \in Client |-> 0]
        /\ lifts = [c \in Client |-> 0] /\ outputs = [r \in Req |-> 0]
        /\ saved = [r \in Req |-> 0] /\ counter_count = 0
        /\ dump = [prompt |-> [c \in Client |-> 0], decode |-> [c \in Client |-> 0]]
    BY <2>1 DEF MetricsInit, Zero, Init
  <2>3. Begun = {} /\ BegunIn(saved) = {} /\ outputs \in [Req -> Nat] /\ saved = outputs
    BY <2>2 DEF Begun, BegunIn
  <2>4. ASSUME NEW c \in Client
        PROVE  InputTokens(OfClient(c, {})) = 0 /\ SumOver(Later(outputs), OfClient(c, {})) = 0
    <3>1. OfClient(c, {}) = {}
      BY DEF OfClient
    <3>2. QED
      BY <2>3, <3>1, ClientFigures, LaterNat, RequestAssumption, SumEmpty
  <2>5. FiguresOK /\ RecordsOK
    BY <2>2, <2>3, <2>4 DEF FiguresOK, RecordsOK
  <2>6. DumpOK
    BY <2>2, <2>3, <2>4 DEF FiguresIn, DumpOK
  <2>7. LagOK
    BY <2>2, SaveAssumption DEF LagOK
  <2>8. QED
    BY <2>5, <2>6, <2>7
<1>2. TypeOK /\ TypeOK' /\ FiguresOK /\ [MetricsNext]_metricsVars => FiguresOK'
  BY StepKeepsFigures
<1>3. TypeOK /\ TypeOK' /\ (BatchesOK /\ QueueOK) /\ StartedOK /\ RecordsOK
        /\ [MetricsNext]_metricsVars => RecordsOK'
  BY StepKeepsRecords
<1>4. TypeOK /\ FiguresOK /\ RecordsOK /\ DumpOK /\ [MetricsNext]_metricsVars => DumpOK'
  BY StepKeepsDump
<1>5. TypeOK /\ TypeOK' /\ DumpOK /\ LagOK /\ [MetricsNext]_metricsVars => LagOK'
  BY StepKeepsLag
<1>6. DumpOK /\ LagOK => DumpIsWhole
  BY FiguresAreSums DEF DumpOK, LagOK, DumpIsWhole
<1>7. QED
  BY <1>1, <1>2, <1>3, <1>4, <1>5, <1>6, MetricsKeepRouter, PTL DEF MetricsSpec
=============================================================================
