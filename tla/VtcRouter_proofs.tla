-------------------------- MODULE VtcRouter_proofs --------------------------
(***************************************************************************)
(* Proofs about VtcRouter for any clients, requests and limits: its types  *)
(* and the consistency of its batches and queue; that it implements        *)
(* ServingContract; that a batch admitted by the estimate fits in the pool *)
(* for as long as it runs; what an abort does once it has found its        *)
(* request; that every request that arrived is in one place; and that the  *)
(* router does not sleep while somebody waits.                             *)
(***************************************************************************)
EXTENDS VtcContract, Admission_proofs, SequenceTheorems

(* The charges are natural numbers.                                        *)
LEMMA PromptChargeNat == \A len \in Nat : PromptCharge(len) \in Nat
<1>1. TAKE len \in Nat
<1>2. Unit \in Nat
  BY ServiceAssumption DEF Unit
<1>3. /\ w_p_input * len \in Nat
      /\ 2 * w_p_input * len \in Nat
      /\ Unit * w_p_input * len + w_p_input * len * len \in Nat
  BY <1>2 DEF w_p_input
<1>4. QED
  BY <1>3, ServiceAssumption DEF PromptCharge

LEMMA DecodeChargeNat == \A len \in Nat, n \in Nat : DecodeCharge(len, n) \in Nat
<1>1. TAKE len \in Nat, n \in Nat
<1>2. Unit \in Nat
  BY ServiceAssumption DEF Unit
<1>3. Unit * w_q_output + w_q_output * n \in Nat
  BY <1>2 DEF w_q_output
<1>4. QED
  BY <1>3, ServiceAssumption DEF DecodeCharge, w_q_output

(* A non-empty queue is a sequence with a head and a tail.                 *)
LEMMA WaitingHeadTail ==
  ASSUME TypeOK, NEW c \in Client, queued[c] # <<>>
  PROVE  /\ c \in Client
         /\ queued[c] \in Seq(Req)
         /\ queued[c] # <<>>
         /\ Len(queued[c]) \in Nat \ {0}
         /\ Earliest(c) = queued[c][1]
         /\ Earliest(c) \in Req
         /\ Tail(queued[c]) \in Seq(Req)
         /\ Len(Tail(queued[c])) = Len(queued[c]) - 1
         /\ \A i \in 1..Len(Tail(queued[c])) : Tail(queued[c])[i] = queued[c][i + 1]
<1>1. /\ c \in Client
      /\ queued[c] \in Seq(Req)
      /\ queued[c] # <<>>
  BY DEF TypeOK, ClientsInQueue
<1>2. QED
  BY <1>1, HeadTailProperties, EmptySeq, LenProperties, ElementOfSeq DEF Earliest

-----------------------------------------------------------------------------
(* What the queue's methods do to the types of its variables.              *)

QueueTypeOK ==
  /\ counters \in [Client -> Nat]
  /\ queued \in [Client -> Seq(Req)]
  /\ older \in SUBSET (Client \X Client)
  /\ lastLeft \in Client \cup {NoClient}

LEMMA AppendReqType ==
  ASSUME TypeOK, NEW r \in Req, AppendReq(r)
  PROVE  QueueTypeOK'
<1>1. adapter_dir[r] \in Client
  BY RequestAssumption
<1>2. counters' \in [Client -> Nat]
  <2>1. ASSUME NEW f \in Nat, LiftTo(adapter_dir[r], f)
        PROVE  counters' \in [Client -> Nat]
    BY <1>1, <2>1 DEF LiftTo, TypeOK
  <2>2. lastLeft # NoClient => counters[lastLeft] \in Nat
    BY DEF TypeOK
  <2>3. \A m \in ClientsInQueue : counters[m] \in Nat
    BY DEF TypeOK, ClientsInQueue
  <2>4. QED
    BY <2>1, <2>2, <2>3 DEF AppendReq, TypeOK
<1>3. queued' \in [Client -> Seq(Req)]
  <2>1. queued' = [queued EXCEPT ![adapter_dir[r]] = Append(@, r)]
    BY DEF AppendReq, PushRequest
  <2>2. Append(queued[adapter_dir[r]], r) \in Seq(Req)
    BY <1>1, AppendProperties DEF TypeOK
  <2>3. QED
    BY <2>1, <2>2 DEF TypeOK
<1>4. older' \in SUBSET (Client \X Client)
  BY <1>1 DEF AppendReq, PushRequest, TypeOK, ClientsInQueue
<1>5. lastLeft' \in Client \cup {NoClient}
  BY DEF AppendReq, PushRequest, TypeOK
<1>6. QED
  BY <1>2, <1>3, <1>4, <1>5 DEF QueueTypeOK

LEMMA RemoveEarliestType ==
  ASSUME TypeOK, NEW c \in Client, queued[c] # <<>>, RemoveEarliest(c)
  PROVE  /\ queued' \in [Client -> Seq(Req)]
         /\ older' \in SUBSET (Client \X Client)
         /\ lastLeft' \in Client \cup {NoClient}
<1>1. queued' \in [Client -> Seq(Req)]
  BY WaitingHeadTail DEF RemoveEarliest, TypeOK
<1>2. older' \in SUBSET (Client \X Client)
  BY DEF RemoveEarliest, TypeOK
<1>3. lastLeft' \in Client \cup {NoClient}
  BY WaitingHeadTail DEF RemoveEarliest
<1>4. QED
  BY <1>1, <1>2, <1>3

LEMMA TakeEarliestType ==
  ASSUME TypeOK, NEW k \in Client, queued[k] # <<>>, TakeEarliest(k)
  PROVE  QueueTypeOK'
<1>1. input_len[Earliest(k)] \in Nat
  BY WaitingHeadTail, RequestAssumption
<1>2. PromptCharge(input_len[Earliest(k)]) \in Nat
  BY <1>1, PromptChargeNat
<1>3. counters' \in [Client -> Nat]
  BY <1>2 DEF TakeEarliest, TypeOK
<1>4. QED
  BY <1>3, RemoveEarliestType DEF TakeEarliest, QueueTypeOK

LEMMA ChargeDecodeType ==
  ASSUME TypeOK, NEW r \in Req, ChargeDecode(r, outputs[r])
  PROVE  QueueTypeOK'
<1>1. DecodeCharge(input_len[r], outputs[r]) \in Nat
  BY DecodeChargeNat, RequestAssumption DEF TypeOK
<1>2. QED
  BY <1>1, RequestAssumption DEF ChargeDecode, TypeOK, QueueTypeOK

-----------------------------------------------------------------------------
(* What the router's actions do to the types of its variables.             *)

RouterTypeOK ==
  /\ pc \in AwaitPoints \cup {"top", "admit", "charge"}
  /\ running \in SUBSET Req
  /\ mini \in SUBSET Req
  /\ uncharged \in SUBSET Req
  /\ outputs \in [Req -> Nat]
  /\ aborted \in SUBSET Req
  /\ has_wait \in 0..max_wait_tokens
  /\ arrived \in SUBSET Req
  /\ finished \in SUBSET Req
  /\ forwarded \in SUBSET Req

LEMMA TypeSplit == TypeOK <=> QueueTypeOK /\ RouterTypeOK
  BY DEF TypeOK, QueueTypeOK, RouterTypeOK

LEMMA StartDecodeType ==
  ASSUME TypeOK, NEW w \in 0..max_wait_tokens, StartDecode(w)
  PROVE  TypeOK'
  BY DEF TypeOK, StartDecode, queueVars

GiveTokensTypeOK ==
  /\ QueueTypeOK
  /\ outputs \in [Req -> Nat]
  /\ finished \in SUBSET Req
  /\ uncharged \in SUBSET Req
  /\ aborted \in SUBSET Req
  /\ arrived \in SUBSET Req
  /\ forwarded \in SUBSET Req

LEMMA GiveTokensType ==
  ASSUME TypeOK, NEW B \in SUBSET Req, NEW F \in SUBSET B, GiveTokens(B, F)
  PROVE  GiveTokensTypeOK'
  BY DEF TypeOK, QueueTypeOK, GiveTokens, GiveTokensTypeOK, queueVars

LEMMA InitType == Init => TypeOK
  BY WaitAssumption, ClientAssumption, EmptySeq
  DEF Init, QueueInit, TypeOK, AwaitPoints

LEMMA StepKeepsType ==
  TypeOK /\ [Next]_vars => TypeOK'
<1> SUFFICES ASSUME TypeOK, [Next]_vars
             PROVE  TypeOK'
  OBVIOUS
<1> USE WaitAssumption DEF AwaitPoints
<1>1. ASSUME NEW r \in Req, AddReq(r)
      PROVE  TypeOK'
  <2>1. QueueTypeOK'
    BY <1>1, AppendReqType DEF AddReq, ReceiveReq
  <2>2. RouterTypeOK'
    BY <1>1 DEF AddReq, ReceiveReq, TypeOK, RouterTypeOK
  <2>3. QED
    BY <2>1, <2>2, TypeSplit DEF TypeOK, QueueTypeOK, RouterTypeOK
<1>2. ASSUME NEW r \in Req, Abort(r)
      PROVE  TypeOK'
  BY <1>2 DEF Abort, ReceiveAbort, TypeOK, queueVars
<1>3. CASE Wake
  BY <1>3 DEF Wake, TypeOK, queueVars
<1>4. CASE DecodeStep
  <2>1. \A w : StartDecode(w) /\ w \in 0..max_wait_tokens => TypeOK'
    BY StartDecodeType
  <2>2. has_wait \in 0..max_wait_tokens
    BY DEF TypeOK
  <2>3. has_wait < max_wait_tokens => has_wait + 1 \in 0..max_wait_tokens
    BY <2>2
  <2>4. QED
    BY <1>4, <2>1, <2>2, <2>3 DEF DecodeStep
<1>5. CASE StartAdmission
  BY <1>5 DEF StartAdmission, TypeOK, queueVars
<1>6. ASSUME NEW k \in Client, Admit(k)
      PROVE  TypeOK'
  <2>1. queued[k] # <<>>
    BY <1>6 DEF Admit, IsNext, ClientsInQueue
  <2>2. QueueTypeOK'
    BY <1>6, <2>1, TakeEarliestType DEF Admit
  <2>3. Earliest(k) \in Req
    BY <2>1, WaitingHeadTail
  <2>4. RouterTypeOK'
    BY <1>6, <2>3 DEF Admit, TypeOK, RouterTypeOK
  <2>5. QED
    BY <2>2, <2>4 DEF TypeOK, QueueTypeOK, RouterTypeOK
<1>7. ASSUME NEW k \in Client, DropAborted(k)
      PROVE  TypeOK'
  <2>1. queued[k] # <<>>
    BY <1>7 DEF DropAborted, IsNext, ClientsInQueue
  <2>2. /\ queued' \in [Client -> Seq(Req)]
        /\ older' \in SUBSET (Client \X Client)
        /\ lastLeft' \in Client \cup {NoClient}
    BY <1>7, <2>1, RemoveEarliestType DEF DropAborted
  <2>3. QED
    BY <1>7, <2>2 DEF DropAborted, TypeOK, routerVars
<1>8. CASE NothingAdmitted
  <2>1. has_wait \in 0..max_wait_tokens
    BY DEF TypeOK
  <2>2. StartDecode(has_wait) => TypeOK'
    BY <2>1, StartDecodeType
  <2>3. CASE pc' = "sleep" /\ UNCHANGED <<queueVars, running, mini, uncharged,
               outputs, aborted, has_wait, arrived, finished, forwarded>>
    BY <2>3 DEF TypeOK, queueVars
  <2>4. QED
    BY <1>8, <2>2, <2>3 DEF NothingAdmitted
<1>9. CASE StartPrefill
  BY <1>9 DEF StartPrefill, TypeOK, queueVars
<1>10. ASSUME NEW F \in SUBSET running, FinishFirstPrefill(F)
       PROVE  TypeOK'
  <2>1. running \in SUBSET Req
    BY DEF TypeOK
  <2>2. GiveTokens(running, F)
    BY <1>10 DEF FinishFirstPrefill
  <2>3. GiveTokensTypeOK'
    BY <2>1, <2>2, GiveTokensType
  <2>4. /\ running' \in SUBSET Req
        /\ mini' \in SUBSET Req
        /\ has_wait' \in 0..max_wait_tokens
        /\ pc' \in AwaitPoints \cup {"top", "admit", "charge"}
    BY <1>10 DEF FinishFirstPrefill, TypeOK
  <2>5. QED
    BY <2>3, <2>4 DEF GiveTokensTypeOK, QueueTypeOK, TypeOK
<1>11. ASSUME NEW F \in SUBSET running, FinishDecode(F)
       PROVE  TypeOK'
  <2>1. running \in SUBSET Req
    BY DEF TypeOK
  <2>2. GiveTokens(running, F)
    BY <1>11 DEF FinishDecode
  <2>3. GiveTokensTypeOK'
    BY <2>1, <2>2, GiveTokensType
  <2>4. /\ running' \in SUBSET Req
        /\ mini' \in SUBSET Req
        /\ has_wait' \in 0..max_wait_tokens
        /\ pc' \in AwaitPoints \cup {"top", "admit", "charge"}
    BY <1>11 DEF FinishDecode, TypeOK
  <2>5. QED
    BY <2>3, <2>4 DEF GiveTokensTypeOK, QueueTypeOK, TypeOK
<1>12. ASSUME NEW F \in SUBSET mini, FinishMiniPrefill(F)
       PROVE  TypeOK'
  <2>1. mini \in SUBSET Req
    BY DEF TypeOK
  <2>2. GiveTokens(mini, F)
    BY <1>12 DEF FinishMiniPrefill
  <2>3. GiveTokensTypeOK'
    BY <2>1, <2>2, GiveTokensType
  <2>4. /\ running' \in SUBSET Req
        /\ mini' \in SUBSET Req
        /\ has_wait' \in 0..max_wait_tokens
        /\ pc' \in AwaitPoints \cup {"top", "admit", "charge"}
    BY <1>12 DEF FinishMiniPrefill, TypeOK
  <2>5. QED
    BY <2>3, <2>4 DEF GiveTokensTypeOK, QueueTypeOK, TypeOK
<1>13. CASE PrefillCleanedUp
  BY <1>13 DEF PrefillCleanedUp, AfterStep, TypeOK, queueVars
<1>14. CASE Merge
  BY <1>14 DEF Merge, TypeOK, queueVars
<1>15. ASSUME NEW r \in Req, Charge(r)
       PROVE  TypeOK'
  <2>1. QueueTypeOK'
    BY <1>15, ChargeDecodeType DEF Charge
  <2>2. RouterTypeOK'
    BY <1>15 DEF Charge, TypeOK, RouterTypeOK
  <2>3. QED
    BY <2>1, <2>2 DEF TypeOK, QueueTypeOK, RouterTypeOK
<1>16. CASE DecodeCleanedUp
  BY <1>16 DEF DecodeCleanedUp, AfterStep, TypeOK, queueVars
<1>17. CASE UNCHANGED vars
  BY <1>17 DEF vars, queueVars, routerVars, TypeOK
<1>18. QED
  BY <1>1, <1>2, <1>3, <1>4, <1>5, <1>6, <1>7, <1>8, <1>9, <1>10, <1>11,
     <1>12, <1>13, <1>14, <1>15, <1>16, <1>17
  DEF Next, Netio, Forward

(* The type invariant of the router: every counter is a natural number,    *)
(* every queue a sequence of requests, whatever the interleaving.          *)
THEOREM TypeCorrect == Spec => []TypeOK
  BY InitType, StepKeepsType, PTL DEF Spec

-----------------------------------------------------------------------------
(* Batches and queue.                                                      *)

LEMMA BatchFinite ==
  ASSUME TypeOK, NEW S \in SUBSET Req
  PROVE  IsFiniteSet(S) /\ Cardinality(S) \in Nat
<1>1. IsFiniteSet(Req)
  BY RequestAssumption
<1>2. IsFiniteSet(S)
  BY <1>1, FS_Subset
<1>3. QED
  BY <1>2, FS_CardinalityType

(* A smaller batch respects the limit too.                                 *)
LEMMA FewerInService ==
  ASSUME TypeOK, NEW S \in SUBSET Req, NEW T \in SUBSET S,
         Cardinality(S) <= running_max_req_size
  PROVE  Cardinality(T) <= running_max_req_size
<1>1. IsFiniteSet(S)
  BY BatchFinite
<1>2. Cardinality(T) <= Cardinality(S)
  BY <1>1, FS_Subset
<1>3. Cardinality(S) \in Nat /\ Cardinality(T) \in Nat
  BY BatchFinite
<1>4. QED
  BY <1>2, <1>3, LimitAssumption

(* The queue stays consistent when it does not change and only requests    *)
(* that do not wait change.                                                *)
LEMMA QueueUntouched ==
  ASSUME TypeOK, BatchesOK, QueueOK,
         queued' = queued, arrived' = arrived,
         (running \cup mini \cup finished)' \subseteq running \cup mini \cup finished,
         \A r \in Req : r \notin running \cup mini => outputs'[r] = outputs[r]
  PROVE  QueueOK'
<1>1. ASSUME NEW c \in Client, NEW i \in 1..Len(queued[c])
      PROVE  WaitsOnceIn(c, i)'
  <2>1. queued[c][i] \in Req
    BY DEF TypeOK
  <2>2. WaitsOnceIn(c, i)
    BY DEF QueueOK
  <2>3. QED
    BY <2>1, <2>2 DEF WaitsOnceIn
<1>2. \A r \in Req \ arrived : outputs'[r] = 0
  BY DEF QueueOK, BatchesOK
<1>3. QED
  BY <1>1, <1>2 DEF QueueOK

(* A request that arrives waits at the end of its client's queue.          *)
LEMMA AddReqQueueOK ==
  ASSUME TypeOK, BatchesOK, QueueOK, NEW r \in Req, ReceiveReq(r)
  PROVE  QueueOK'
<1> DEFINE u == adapter_dir[r]
<1>1. u \in Client
  BY RequestAssumption
<1>2. /\ queued' = [queued EXCEPT ![u] = Append(@, r)]
      /\ arrived' = arrived \cup {r}
      /\ r \notin arrived
      /\ UNCHANGED <<running, mini, finished, outputs>>
  BY DEF ReceiveReq, AppendReq, PushRequest
<1>3. ASSUME NEW c \in Client, c # u, NEW i \in 1..Len(queued'[c])
      PROVE  WaitsOnceIn(c, i)'
  <2>1. queued'[c] = queued[c]
    BY <1>2, <1>3 DEF TypeOK
  <2>2. WaitsOnceIn(c, i)
    BY <2>1 DEF QueueOK
  <2>3. queued[c][i] \in Req /\ queued[c][i] # r
    BY <1>2, <2>1, <2>2 DEF WaitsOnceIn, TypeOK
  <2>4. /\ arrived' = arrived \cup {r}
        /\ UNCHANGED <<running, mini, finished, outputs>>
    BY <1>2
  <2>5. QED
    BY <2>1, <2>2, <2>3, <2>4 DEF WaitsOnceIn
<1>4. ASSUME NEW i \in 1..Len(queued'[u])
      PROVE  WaitsOnceIn(u, i)'
  <2>1. /\ queued[u] \in Seq(Req)
        /\ queued'[u] = Append(queued[u], r)
    BY <1>1, <1>2 DEF TypeOK
  <2>2. /\ Len(queued[u]) \in Nat
        /\ Len(queued'[u]) = Len(queued[u]) + 1
        /\ \A j \in 1..Len(queued[u]) : queued'[u][j] = queued[u][j]
        /\ queued'[u][Len(queued[u]) + 1] = r
    BY <2>1, AppendProperties, LenProperties
  <2>3. \A j \in 1..Len(queued[u]) :
          WaitsOnceIn(u, j) /\ queued[u][j] # r
    BY <1>1, <1>2 DEF QueueOK, WaitsOnceIn
  <2>4. CASE i \in 1..Len(queued[u])
    <3>1. /\ queued'[u][i] = queued[u][i]
          /\ queued[u][i] # r
          /\ WaitsOnceIn(u, i)
      BY <2>2, <2>3, <2>4
    <3>2. ASSUME NEW j \in 1..Len(queued'[u]), queued'[u][j] = queued'[u][i]
          PROVE  j = i
      <4>1. j \in 1..Len(queued[u]) \/ j = Len(queued[u]) + 1
        BY <2>2
      <4>2. j \in 1..Len(queued[u])
        BY <2>2, <3>1, <3>2, <4>1
      <4>3. queued'[u][j] = queued[u][j]
        BY <2>2, <4>2
      <4>4. QED
        BY <3>1, <3>2, <4>2, <4>3 DEF WaitsOnceIn
    <3>3. QED
      BY <1>2, <3>1, <3>2 DEF WaitsOnceIn
  <2>5. CASE i = Len(queued[u]) + 1
    <3>1. queued'[u][i] = r
      BY <2>2, <2>5
    <3>2. ASSUME NEW j \in 1..Len(queued'[u]), queued'[u][j] = r
          PROVE  j = i
      <4>1. j \in 1..Len(queued[u]) \/ j = Len(queued[u]) + 1
        BY <2>2
      <4>2. ASSUME j \in 1..Len(queued[u])
            PROVE  FALSE
        <5>1. queued'[u][j] = queued[u][j] /\ queued[u][j] # r
          BY <2>2, <2>3, <4>2
        <5>2. QED
          BY <3>2, <5>1
      <4>3. QED
        BY <2>5, <4>1, <4>2
    <3>3. r \notin running \cup mini \cup finished /\ outputs[r] = 0
      BY <1>2 DEF BatchesOK, QueueOK
    <3>4. QED
      BY <1>2, <3>1, <3>2, <3>3 DEF WaitsOnceIn
  <2>6. QED
    BY <2>2, <2>4, <2>5
<1>5. \A s \in Req \ arrived' : outputs'[s] = 0
  BY <1>2 DEF QueueOK
<1>6. QED
  BY <1>3, <1>4, <1>5 DEF QueueOK

(* When the earliest request of a client leaves the queue, for a batch or  *)
(* dropped, the others still wait, and none of them is that request.       *)
LEMMA RemoveEarliestQueueOK ==
  ASSUME TypeOK, QueueOK, NEW k \in Client, queued[k] # <<>>,
         RemoveEarliest(k),
         UNCHANGED <<arrived, outputs, running, finished>>,
         mini' \subseteq mini \cup {Earliest(k)}
  PROVE  QueueOK'
<1> DEFINE e == Earliest(k)
<1>1. /\ e = queued[k][1]
      /\ Len(queued[k]) \in Nat \ {0}
      /\ Len(Tail(queued[k])) = Len(queued[k]) - 1
      /\ \A i \in 1..Len(Tail(queued[k])) : Tail(queued[k])[i] = queued[k][i + 1]
  BY WaitingHeadTail
<1>2. queued' = [queued EXCEPT ![k] = Tail(@)]
  BY DEF RemoveEarliest
<1>3. adapter_dir[e] = k /\ \A j \in 1..Len(queued[k]) : queued[k][j] = e => j = 1
  BY <1>1 DEF QueueOK, WaitsOnceIn
<1>4. ASSUME NEW c \in Client, c # k, NEW i \in 1..Len(queued'[c])
      PROVE  WaitsOnceIn(c, i)'
  <2>1. queued'[c] = queued[c]
    BY <1>2, <1>4 DEF TypeOK
  <2>2. WaitsOnceIn(c, i)
    BY <2>1 DEF QueueOK
  <2>3. queued[c][i] # e
    BY <1>3, <1>4, <2>2 DEF WaitsOnceIn
  <2>4. QED
    BY <2>1, <2>2, <2>3 DEF WaitsOnceIn
<1>5. ASSUME NEW i \in 1..Len(queued'[k])
      PROVE  WaitsOnceIn(k, i)'
  <2>1. queued'[k] = Tail(queued[k])
    BY <1>2 DEF TypeOK
  <2>2. i + 1 \in 1..Len(queued[k]) /\ queued'[k][i] = queued[k][i + 1]
    BY <1>1, <2>1
  <2>3. WaitsOnceIn(k, i + 1)
    BY <2>2 DEF QueueOK
  <2>4. queued'[k][i] # e
    BY <1>3, <2>2
  <2>5. \A j \in 1..Len(queued'[k]) : queued'[k][j] = queued'[k][i] => j = i
    <3>1. TAKE j \in 1..Len(queued'[k])
    <3>2. j + 1 \in 1..Len(queued[k]) /\ queued'[k][j] = queued[k][j + 1]
      BY <1>1, <2>1
    <3>3. queued[k][j + 1] = queued[k][i + 1] => j + 1 = i + 1
      BY <2>3, <3>2 DEF WaitsOnceIn
    <3>4. QED
      BY <2>2, <3>2, <3>3
  <2>6. QED
    BY <2>2, <2>3, <2>4, <2>5 DEF WaitsOnceIn
<1>6. \A r \in Req \ arrived' : outputs'[r] = 0
  BY DEF QueueOK
<1>7. QED
  BY <1>4, <1>5, <1>6 DEF QueueOK

(* What the steps that leave the queue and the arrivals alone have in      *)
(* common: no request enters a batch or is finished that was in no batch,  *)
(* and only requests in a batch get tokens.                                *)
LEMMA NobodyJoins ==
  ASSUME TypeOK, BatchesOK, QueueOK,
         queued' = queued, arrived' = arrived,
         running' \cup mini' \subseteq running \cup mini,
         finished' \subseteq finished \cup running \cup mini,
         \A r \in Req : r \notin running \cup mini => outputs'[r] = outputs[r]
  PROVE  /\ QueueOK'
         /\ Cardinality(running' \cup mini') <= running_max_req_size
<1>1. (running \cup mini \cup finished)' \subseteq running \cup mini \cup finished
  OBVIOUS
<1>2. QueueOK'
  BY <1>1, QueueUntouched
<1>3. /\ running \cup mini \in SUBSET Req
      /\ running' \cup mini' \in SUBSET (running \cup mini)
      /\ Cardinality(running \cup mini) <= running_max_req_size
  BY DEF TypeOK, BatchesOK
<1>4. Cardinality(running' \cup mini') <= running_max_req_size
  BY <1>3, FewerInService
<1>5. QED
  BY <1>2, <1>4

LEMMA StartDecodeBatches ==
  ASSUME TypeOK, BatchesOK, QueueOK, mini = {}, NEW wait, StartDecode(wait)
  PROVE  BatchesOK' /\ QueueOK'
<1>1. /\ queued' = queued /\ arrived' = arrived
      /\ running' = running /\ mini' = mini /\ finished' = finished
      /\ outputs' = outputs
      /\ uncharged' = running /\ pc' = "charge"
  BY DEF StartDecode, queueVars
<1>2. /\ QueueOK'
      /\ Cardinality(running' \cup mini') <= running_max_req_size
  BY <1>1, NobodyJoins
<1>3. QED
  BY <1>1, <1>2 DEF BatchesOK

(* The requests that a model step finishes leave their batch for the       *)
(* report, and the others stay.                                            *)
LEMMA GiveTokensBatches ==
  ASSUME TypeOK, BatchesOK, QueueOK,
         NEW batch \in {running, mini}, NEW F \in SUBSET batch,
         GiveTokens(batch, F),
         \/ batch = running /\ running' = running \ F /\ mini' = mini
         \/ batch = mini /\ mini' = mini \ F /\ running' = running,
         pc \in {"prefill", "decode"},
         mini' # {} => pc' \in {"prefill", "prefillCleanup", "merge"}
  PROVE  BatchesOK' /\ QueueOK'
<1>1. /\ queued' = queued /\ arrived' = arrived
      /\ uncharged' = uncharged
      /\ finished' = finished \cup F
      /\ \A r \in Req : r \notin batch => outputs'[r] = outputs[r]
  BY DEF GiveTokens, queueVars
<1>2. /\ QueueOK'
      /\ Cardinality(running' \cup mini') <= running_max_req_size
  BY <1>1, NobodyJoins
<1>3. uncharged = {}
  BY DEF BatchesOK
<1>4. QED
  BY <1>1, <1>2, <1>3 DEF BatchesOK

LEMMA InitBatches == Init => BatchesOK /\ QueueOK
<1>1. SUFFICES ASSUME Init PROVE BatchesOK /\ QueueOK
  OBVIOUS
<1>2. Cardinality({}) = 0
  BY FS_EmptySet
<1>3. BatchesOK
  BY <1>1, <1>2, LimitAssumption DEF Init, BatchesOK
<1>4. QueueOK
  <2>1. ASSUME NEW c \in Client PROVE Len(queued[c]) = 0
    BY <1>1 DEF Init, QueueInit
  <2>2. \A r \in Req : outputs[r] = 0
    BY <1>1 DEF Init
  <2>3. QED
    BY <2>1, <2>2 DEF QueueOK
<1>5. QED
  BY <1>3, <1>4

LEMMA StepKeepsBatches ==
  TypeOK /\ BatchesOK /\ QueueOK /\ [Next]_vars => (BatchesOK /\ QueueOK)'
<1> SUFFICES ASSUME TypeOK, BatchesOK, QueueOK, [Next]_vars
             PROVE  BatchesOK' /\ QueueOK'
  OBVIOUS
<1>1. ASSUME NEW r \in Req, AddReq(r)
      PROVE  BatchesOK' /\ QueueOK'
  <2>1. QueueOK'
    BY <1>1, AddReqQueueOK DEF AddReq
  <2>2. /\ UNCHANGED <<pc, running, mini, uncharged, finished>>
        /\ arrived' = arrived \cup {r}
    BY <1>1 DEF AddReq, ReceiveReq
  <2>3. QED
    BY <2>1, <2>2 DEF BatchesOK
<1>2. ASSUME NEW r \in Req, Abort(r)
      PROVE  BatchesOK' /\ QueueOK'
  <2>1. UNCHANGED <<queued, pc, running, mini, uncharged, outputs, arrived, finished>>
    BY <1>2 DEF Abort, ReceiveAbort, queueVars
  <2>2. QED
    BY <2>1 DEF BatchesOK, QueueOK, WaitsOnceIn
<1>3. CASE Wake
  <2>1. /\ UNCHANGED <<queued, running, mini, uncharged, outputs, arrived, finished>>
        /\ pc = "sleep"
    BY <1>3 DEF Wake, queueVars
  <2>2. QED
    BY <2>1 DEF BatchesOK, QueueOK, WaitsOnceIn
<1>4. CASE DecodeStep
  <2>1. mini = {}
    BY <1>4 DEF DecodeStep, BatchesOK
  <2>2. \E wait \in {has_wait, has_wait + 1} : StartDecode(wait)
    BY <1>4 DEF DecodeStep
  <2>3. QED
    BY <2>1, <2>2, StartDecodeBatches
<1>5. CASE StartAdmission
  <2>1. /\ UNCHANGED <<queued, running, mini, uncharged, outputs, arrived, finished>>
        /\ pc = "top" /\ pc' = "admit"
    BY <1>5 DEF StartAdmission, queueVars
  <2>2. QED
    BY <2>1 DEF BatchesOK, QueueOK, WaitsOnceIn
<1>6. ASSUME NEW k \in Client, Admit(k)
      PROVE  BatchesOK' /\ QueueOK'
  <2> DEFINE e == Earliest(k)
  <2>1. queued[k] # <<>>
    BY <1>6 DEF Admit, IsNext, ClientsInQueue
  <2>2. /\ RemoveEarliest(k)
        /\ mini' = mini \cup {e}
        /\ UNCHANGED <<pc, running, uncharged, outputs, arrived, finished>>
        /\ pc = "admit"
    BY <1>6 DEF Admit, TakeEarliest
  <2>3. QueueOK'
    BY <2>1, <2>2, RemoveEarliestQueueOK
  <2>4. e \in arrived /\ e \notin running \cup mini \cup finished
    BY <2>1, WaitingHeadTail DEF QueueOK, WaitsOnceIn
  <2>5. Cardinality(running \cup mini \cup {e}) <= running_max_req_size
    BY <1>6 DEF Admit, Fits, CanAddNewReq
  <2>6. running' \cup mini' = running \cup mini \cup {e}
    BY <2>2
  <2>7. QED
    BY <2>2, <2>3, <2>4, <2>5, <2>6 DEF BatchesOK
<1>7. ASSUME NEW k \in Client, DropAborted(k)
      PROVE  BatchesOK' /\ QueueOK'
  <2>1. queued[k] # <<>>
    BY <1>7 DEF DropAborted, IsNext, ClientsInQueue
  <2>2. /\ RemoveEarliest(k)
        /\ UNCHANGED <<pc, running, mini, uncharged, outputs, arrived, finished>>
    BY <1>7 DEF DropAborted, routerVars
  <2>3. QueueOK'
    BY <2>1, <2>2, RemoveEarliestQueueOK
  <2>4. QED
    BY <2>2, <2>3 DEF BatchesOK
<1>8. CASE NothingAdmitted
  <2>1. mini = {} /\ pc = "admit"
    BY <1>8 DEF NothingAdmitted, AdmissionOver
  <2>2. CASE /\ pc' = "sleep"
             /\ UNCHANGED <<queueVars, running, mini, uncharged, outputs, aborted,
                            has_wait, arrived, finished, forwarded>>
    <3>1. UNCHANGED <<queued, running, mini, uncharged, outputs, arrived, finished>>
      BY <2>2 DEF queueVars
    <3>2. QED
      BY <2>1, <2>2, <3>1 DEF BatchesOK, QueueOK, WaitsOnceIn
  <2>3. CASE StartDecode(has_wait)
    BY <2>1, <2>3, StartDecodeBatches
  <2>4. QED
    BY <1>8, <2>2, <2>3 DEF NothingAdmitted
<1>9. CASE StartPrefill
  <2>1. /\ pc = "admit" /\ pc' = "prefill"
        /\ UNCHANGED <<queued, uncharged, outputs, arrived, finished>>
        /\ running' \cup mini' = running \cup mini
        /\ running' \cap mini' = {}
    BY <1>9 DEF StartPrefill, AdmissionOver, queueVars, BatchesOK
  <2>2. QueueOK' /\ Cardinality(running' \cup mini') <= running_max_req_size
    BY <2>1, NobodyJoins
  <2>3. QED
    BY <2>1, <2>2 DEF BatchesOK
<1>10. ASSUME NEW F \in SUBSET running, FinishFirstPrefill(F)
       PROVE  BatchesOK' /\ QueueOK'
  BY <1>10, GiveTokensBatches DEF FinishFirstPrefill
<1>11. ASSUME NEW F \in SUBSET running, FinishDecode(F)
       PROVE  BatchesOK' /\ QueueOK'
  <2>1. mini = {}
    BY <1>11 DEF FinishDecode, BatchesOK
  <2>2. QED
    BY <1>11, <2>1, GiveTokensBatches DEF FinishDecode
<1>12. ASSUME NEW F \in SUBSET mini, FinishMiniPrefill(F)
       PROVE  BatchesOK' /\ QueueOK'
  <2>1. /\ GiveTokens(mini, F)
        /\ mini' = mini \ F /\ running' = running
        /\ pc = "prefill"
        /\ pc' \in {"merge", "prefillCleanup"}
    BY <1>12 DEF FinishMiniPrefill
  <2>2. QED
    BY <1>12, <2>1, GiveTokensBatches
<1>13. CASE PrefillCleanedUp
  <2>1. /\ UNCHANGED <<queued, running, mini, uncharged, outputs, arrived, finished>>
        /\ pc = "prefillCleanup"
        /\ mini # {} => pc' = "merge"
    BY <1>13 DEF PrefillCleanedUp, queueVars
  <2>2. QED
    BY <2>1 DEF BatchesOK, QueueOK, WaitsOnceIn
<1>14. CASE Merge
  <2>1. /\ UNCHANGED <<queued, uncharged, outputs, arrived, finished>>
        /\ running' = running \cup mini /\ mini' = {}
        /\ pc = "merge"
    BY <1>14 DEF Merge, queueVars
  <2>2. QueueOK' /\ Cardinality(running' \cup mini') <= running_max_req_size
    BY <2>1, NobodyJoins
  <2>3. QED
    BY <2>1, <2>2 DEF BatchesOK
<1>15. ASSUME NEW r \in Req, Charge(r)
       PROVE  BatchesOK' /\ QueueOK'
  <2>1. /\ UNCHANGED <<queued, running, mini, outputs, arrived, finished>>
        /\ uncharged' = uncharged \ {r}
        /\ pc = "charge"
        /\ uncharged' # {} => pc' = "charge"
    BY <1>15 DEF Charge, ChargeDecode
  <2>2. QED
    BY <2>1 DEF BatchesOK, QueueOK, WaitsOnceIn
<1>16. CASE DecodeCleanedUp
  <2>1. /\ UNCHANGED <<queued, running, mini, uncharged, outputs, arrived, finished>>
        /\ pc = "decodeCleanup"
    BY <1>16 DEF DecodeCleanedUp, queueVars
  <2>2. QED
    BY <2>1 DEF BatchesOK, QueueOK, WaitsOnceIn
<1>17. CASE UNCHANGED vars
  BY <1>17 DEF vars, queueVars, routerVars, BatchesOK, QueueOK, WaitsOnceIn
<1>18. QED
  BY <1>1, <1>2, <1>3, <1>4, <1>5, <1>6, <1>7, <1>8, <1>9, <1>10, <1>11,
     <1>12, <1>13, <1>14, <1>15, <1>16, <1>17
  DEF Next, Netio, Forward

(* The batches and the queue never disagree: no request is in two places,  *)
(* the batches respect running_max_req_size, and what waits has neither    *)
(* been given a token nor is it waiting twice.                             *)
THEOREM BatchesCorrect == Spec => [](BatchesOK /\ QueueOK)
  BY InitBatches, StepKeepsBatches, TypeCorrect, PTL DEF Spec

-----------------------------------------------------------------------------
(* The contract: every action of the router is matched with the contract's  *)
(* action it performs, or shown to be invisible to the clients.             *)

(* What a client can see of the router.                                    *)
serving == running \cup mini
visible == <<arrived, queued, serving, finished, aborted>>

LEMMA AddReqSends ==
  ASSUME NEW r \in Req, AddReq(r)
  PROVE  Contract!Send(r)
  BY DEF AddReq, ReceiveReq, AppendReq, PushRequest, Contract!Send

(* An abort that finds its request finds one the contract can still        *)
(* cancel; one that finds nothing changes nothing.                         *)
LEMMA AbortCancels ==
  ASSUME BatchesOK, QueueOK, NEW r \in Req, Abort(r)
  PROVE  Contract!Cancel(r) \/ UNCHANGED visible
<1>1. UNCHANGED <<arrived, queued, running, mini, finished>>
  BY DEF Abort, ReceiveAbort, queueVars
<1>2. CASE r \in running \cup WaitingReqs
  <2>1. r \in arrived \ finished
    <3>1. CASE r \in running
      BY <3>1 DEF BatchesOK
    <3>2. CASE r \in WaitingReqs
      <4>1. PICK c \in Client : r \in {queued[c][i] : i \in 1..Len(queued[c])}
        BY <3>2 DEF WaitingReqs
      <4>2. PICK i \in 1..Len(queued[c]) : r = queued[c][i]
        BY <4>1
      <4>3. QED
        BY <4>2 DEF QueueOK, WaitsOnceIn
    <3>3. QED
      BY <1>2, <3>1, <3>2
  <2>2. aborted' = aborted \cup {r}
    BY <1>2 DEF Abort, ReceiveAbort
  <2>3. QED
    BY <1>1, <2>1, <2>2 DEF Contract!Cancel
<1>3. CASE r \notin running \cup WaitingReqs
  <2>1. aborted' = aborted
    BY <1>3 DEF Abort, ReceiveAbort
  <2>2. QED
    BY <1>1, <2>1 DEF visible, serving
<1>4. QED
  BY <1>2, <1>3

(* The contract counts requests as the router does.                        *)
LEMMA SameCardinality == \A S : Contract!Cardinality(S) = Cardinality(S)
  BY Zenon DEF Contract!Cardinality, Cardinality

LEMMA AdmitStarts ==
  ASSUME TypeOK, NEW k \in Client, Admit(k)
  PROVE  Contract!Start(k)
<1>1. queued[k] # <<>> /\ Head(queued[k]) \notin aborted
  BY DEF Admit, IsNext, ClientsInQueue, Earliest
<1>2. /\ queued' = [queued EXCEPT ![k] = Tail(@)]
      /\ running' \cup mini' = running \cup mini \cup {Head(queued[k])}
      /\ UNCHANGED <<arrived, finished, aborted>>
  BY DEF Admit, TakeEarliest, RemoveEarliest, Earliest
<1>3. Cardinality(running \cup mini \cup {Head(queued[k])}) <= running_max_req_size
  BY DEF Admit, Fits, CanAddNewReq, Earliest
<1>4. /\ Contract!Cardinality((running \cup mini) \cup {Head(queued[k])})
           <= running_max_req_size
      /\ (running \cup mini)' = (running \cup mini) \cup {Head(queued[k])}
  BY <1>2, <1>3, SameCardinality
<1>5. QED
  BY <1>1, <1>2, <1>4, Zenon DEF Contract!Start

LEMMA DropAbortedDrops ==
  ASSUME NEW k \in Client, DropAborted(k)
  PROVE  Contract!Drop(k)
  BY DEF DropAborted, IsNext, ClientsInQueue, Earliest, RemoveEarliest,
         routerVars, Contract!Drop

(* The requests of a batch that finish leave service together, whichever   *)
(* of the two batches they were in.                                        *)
LEMMA FinishCompletes ==
  ASSUME BatchesOK,
         NEW F, F \subseteq running \/ F \subseteq mini,
         NEW batch, GiveTokens(batch, F),
         \/ F \subseteq running /\ running' = running \ F /\ mini' = mini
         \/ F \subseteq mini /\ mini' = mini \ F /\ running' = running
  PROVE  Contract!Complete(F) /\ F \in SUBSET serving
<1>1. running' \cup mini' = (running \cup mini) \ F
  BY DEF BatchesOK
<1>2. /\ finished' = finished \cup F
      /\ UNCHANGED <<arrived, queued, aborted>>
  BY DEF GiveTokens, queueVars
<1>3. QED
  BY <1>1, <1>2 DEF Contract!Complete, serving

LEMMA StartDecodeInvisible ==
  ASSUME NEW w, StartDecode(w)
  PROVE  UNCHANGED visible
  BY DEF StartDecode, queueVars, visible, serving

(* A step of the router is a step of the contract or invisible.            *)
LEMMA StepImplements ==
  ASSUME TypeOK, BatchesOK, QueueOK, [Next]_vars
  PROVE  [Contract!Next]_visible
<1>1. ASSUME NEW r \in Req, AddReq(r)
      PROVE  Contract!Next
  BY <1>1, AddReqSends DEF Contract!Next
<1>2. ASSUME NEW r \in Req, Abort(r)
      PROVE  [Contract!Next]_visible
  BY <1>2, AbortCancels DEF Contract!Next
<1>3. ASSUME NEW k \in Client, Admit(k)
      PROVE  Contract!Next
  BY <1>3, AdmitStarts DEF Contract!Next
<1>4. ASSUME NEW k \in Client, DropAborted(k)
      PROVE  Contract!Next
  BY <1>4, DropAbortedDrops DEF Contract!Next
<1>5. ASSUME NEW F \in SUBSET running, FinishFirstPrefill(F) \/ FinishDecode(F)
      PROVE  Contract!Next
  <2>1. GiveTokens(running, F) /\ running' = running \ F /\ mini' = mini
    BY <1>5 DEF FinishFirstPrefill, FinishDecode
  <2>2. Contract!Complete(F) /\ F \in SUBSET serving
    BY <2>1, FinishCompletes
  <2>3. QED
    BY <2>2 DEF Contract!Next, serving
<1>6. ASSUME NEW F \in SUBSET mini, FinishMiniPrefill(F)
      PROVE  Contract!Next
  <2>1. GiveTokens(mini, F) /\ mini' = mini \ F /\ running' = running
    BY <1>6 DEF FinishMiniPrefill
  <2>2. Contract!Complete(F) /\ F \in SUBSET serving
    BY <2>1, FinishCompletes
  <2>3. QED
    BY <2>2 DEF Contract!Next, serving
<1>7. CASE DecodeStep \/ NothingAdmitted
  <2>1. CASE \E w \in {has_wait, has_wait + 1} : StartDecode(w)
    BY <2>1, StartDecodeInvisible
  <2>2. CASE UNCHANGED <<queueVars, running, mini, arrived, finished, aborted>>
    BY <2>2 DEF queueVars, visible, serving
  <2>3. QED
    BY <1>7, <2>1, <2>2 DEF DecodeStep, NothingAdmitted
<1>8. CASE Wake \/ StartAdmission \/ PrefillCleanedUp \/ DecodeCleanedUp
  BY <1>8 DEF Wake, StartAdmission, PrefillCleanedUp, DecodeCleanedUp,
              queueVars, visible, serving
<1>9. CASE StartPrefill \/ Merge
  BY <1>9 DEF StartPrefill, Merge, queueVars, visible, serving
<1>10. ASSUME NEW r \in Req, Charge(r)
       PROVE  UNCHANGED visible
  BY <1>10 DEF Charge, ChargeDecode, visible, serving
<1>11. CASE UNCHANGED vars
  BY <1>11 DEF vars, queueVars, routerVars, visible, serving
<1>12. QED
  BY <1>1, <1>2, <1>3, <1>4, <1>5, <1>6, <1>7, <1>8, <1>9, <1>10, <1>11
  DEF Next, Netio, Forward

(* Under every scheduling of arrivals, aborts and model answers, what the  *)
(* clients see of loop_for_fwd and loop_for_netio_req is a behaviour of    *)
(* the serving contract: first come first served within a client, at most  *)
(* running_max_req_size in service, each served at most once, and dropped  *)
(* only after an abort.                                                    *)
THEOREM RouterImplementsContract == Spec => ImplementsContract
<1>1. Init => Contract!Init
  BY DEF Init, QueueInit, Contract!Init
<1>2. TypeOK /\ (BatchesOK /\ QueueOK) /\ [Next]_vars
        => [Contract!Next]_(Contract!contractVars)
  BY StepImplements DEF visible, serving, Contract!contractVars
<1>3. QED
  BY <1>1, <1>2, TypeCorrect, BatchesCorrect, PTL
  DEF Spec, ImplementsContract, Contract!Spec

-----------------------------------------------------------------------------
(* The invariant: the peaks of everything in service fit, every request in *)
(* service has a token to go, and those not yet prefilled are the batch    *)
(* that is being built or prefilled, which gets its first token in one.    *)
PeaksOK == PeaksFit(outputs, running \cup mini)

StartedOK ==
  /\ \A r \in running \cup mini : outputs[r] < max_output_len[r]
  /\ \A r \in running : outputs[r] = 0 <=> pc = "prefill" /\ mini = {}
  /\ \A r \in mini : outputs[r] = 0 <=> pc \in {"admit", "prefill"}

(* Who stays has made less than his last token.                            *)
LEMMA StayersHaveLeft ==
  ASSUME TypeOK, NEW batch \in SUBSET Req, NEW F \in MayFinish(batch),
         GiveTokens(batch, F)
  PROVE  /\ \A r \in Req : outputs'[r] = IF r \in batch THEN outputs[r] + 1 ELSE outputs[r]
         /\ \A r \in batch \ F : outputs'[r] < max_output_len[r]
<1>1. \A r \in Req : outputs'[r] = IF r \in batch THEN outputs[r] + 1 ELSE outputs[r]
  BY DEF GiveTokens
<1>2. ASSUME NEW r \in batch \ F PROVE outputs'[r] < max_output_len[r]
  <2>1. r \in Req /\ outputs[r] \in Nat /\ max_output_len[r] \in Nat
    BY RequestAssumption DEF TypeOK
  <2>2. ~(outputs[r] + 1 >= max_output_len[r])
    BY DEF MayFinish
  <2>3. QED
    BY <1>1, <2>1, <2>2
<1>3. QED
  BY <1>1, <1>2

(* First tokens: the requests had entries of their own in the estimate, as *)
(* if they had them already.                                               *)
LEMMA PrefillKeepsPeaks ==
  ASSUME TypeOK, PeaksOK, NEW batch \in SUBSET Req, NEW F \in MayFinish(batch),
         GiveTokens(batch, F), \A r \in batch : outputs[r] = 0,
         running' \cup mini' \subseteq running \cup mini
  PROVE  PeaksOK'
<1> DEFINE B == running \cup mini
           A == running' \cup mini'
<1>1. B \in SUBSET Req /\ A \in SUBSET B /\ outputs \in [Req -> Nat]
  BY DEF TypeOK
<1>2. outputs' \in [Req -> Nat]
  BY <1>1 DEF GiveTokens
<1>3. ASSUME NEW r \in A
      PROVE  outputs'[r] = outputs[r] \/ (outputs[r] = 0 /\ outputs'[r] = 1)
  <2>1. r \in Req
    BY <1>1
  <2>2. outputs'[r] = IF r \in batch THEN outputs[r] + 1 ELSE outputs[r]
    BY <2>1, StayersHaveLeft
  <2>3. QED
    BY <2>2
<1> HIDE DEF A, B
<1>4. PeaksFit(outputs, B)
  BY DEF PeaksOK, B
<1>5. PeaksFit(outputs', A)
  BY <1>1, <1>2, <1>3, <1>4, FirstTokensFit
<1>6. QED
  BY <1>5 DEF PeaksOK, A

(* A decode step is a step of everyone: a moment later in the same peaks.  *)
LEMMA DecodeKeepsPeaks ==
  ASSUME TypeOK, PeaksOK, NEW F \in MayFinish(running),
         GiveTokens(running, F), \A r \in running : outputs[r] # 0,
         mini = {}, mini' = {}, running' \subseteq running
  PROVE  PeaksOK'
<1>1. running \in SUBSET Req /\ running' \in SUBSET running /\ outputs \in [Req -> Nat]
  BY DEF TypeOK
<1>2. outputs' \in [Req -> Nat]
  BY <1>1 DEF GiveTokens
<1>3. ASSUME NEW r \in running'
      PROVE  outputs[r] # 0 /\ outputs'[r] = outputs[r] + 1
  <2>1. r \in Req /\ r \in running
    BY <1>1
  <2>2. QED
    BY <1>1, <2>1, StayersHaveLeft
<1>4. PeaksFit(outputs, running)
  BY DEF PeaksOK
<1>5. PeaksFit(outputs', running')
  BY <1>1, <1>2, <1>3, <1>4, NextTokensFit
<1>6. QED
  BY <1>5 DEF PeaksOK

(* A request that was admitted was in the estimate.                        *)
LEMMA AdmitKeepsPeaks ==
  ASSUME TypeOK, QueueOK, StartedOK, NEW k \in Client, Admit(k)
  PROVE  PeaksOK'
<1> DEFINE e == Earliest(k)
           A == running \cup mini \cup {e}
           cache == CacheLenList(running, mini \cup {e}, outputs)
<1>1. queued[k] # <<>> /\ pc = "admit" /\ CanAddNewReq(running, mini, e, outputs)
  BY DEF Admit, Fits, IsNext, ClientsInQueue
<1>2. /\ running' = running /\ mini' = mini \cup {e} /\ outputs' = outputs
  BY DEF Admit
<1>3. e \in Req /\ outputs[e] = 0 /\ e \notin running
  <2>1. /\ Earliest(k) = queued[k][1] /\ Len(queued[k]) \in Nat \ {0}
        /\ queued[k][1] \in Req
    BY <1>1, WaitingHeadTail
  <2>2. 1 \in 1..Len(queued[k])
    BY <2>1
  <2>3. WaitsOnceIn(k, 1)
    BY <2>2 DEF QueueOK
  <2>4. QED
    BY <2>1, <2>3 DEF WaitsOnceIn
<1>4. /\ A \in SUBSET Req /\ A # {} /\ outputs \in [Req -> Nat]
      /\ running \in SUBSET Req /\ mini \in SUBSET Req
  BY <1>3 DEF TypeOK
<1>5. NeedMaxTokenNum(cache) + AdapterSize(A) < max_total_tokens
  <2>1. running \cup mini \cup {e} = A
    OBVIOUS
  <2>2. QED
    BY <1>1 DEF CanAddNewReq
<1>6. ASSUME NEW x \in A
      PROVE  /\ cache[x].has_run = HasRun(outputs, x)
             /\ cache[x].left = LeftOut(outputs, x)
             /\ LeftOut(outputs, x) \in Nat
  <2>1. x \in Req
    BY <1>4
  <2>2. input_len[x] \in Nat /\ max_output_len[x] \in Nat \ {0} /\ outputs[x] \in Nat
    BY <1>4, <2>1, RunNat
  <2>3. CASE x \in running
    <3>1. outputs[x] # 0 /\ outputs[x] < max_output_len[x]
      BY <1>1, <2>3 DEF StartedOK
    <3>2. cache[x] = RunningEntry(x, outputs[x])
      BY <2>3 DEF CacheLenList
    <3>3. QED
      BY <2>2, <3>1, <3>2 DEF RunningEntry, HasRun, LeftOut
  <2>4. CASE x \notin running
    <3>1. outputs[x] = 0
      BY <1>1, <1>3, <2>4 DEF StartedOK
    <3>2. cache[x] = NewEntry(x)
      BY <2>4 DEF CacheLenList
    <3>3. QED
      BY <2>2, <3>1, <3>2 DEF NewEntry, HasRun, LeftOut
  <2>5. QED
    BY <2>3, <2>4
<1>7. DOMAIN cache = A
  BY DEF CacheLenList
<1> HIDE DEF cache, A
<1>8. IsCacheOf(cache, outputs, A)
  BY <1>6, <1>7 DEF IsCacheOf
<1>9. PeaksFit(outputs, A)
  BY <1>4, <1>5, <1>6, <1>8, EstimateCovers
<1>10. running' \cup mini' = A
  BY <1>2 DEF A
<1>11. QED
  BY <1>2, <1>9, <1>10 DEF PeaksOK

LEMMA AdmitKeepsStarted ==
  ASSUME TypeOK, QueueOK, StartedOK, NEW k \in Client, Admit(k)
  PROVE  StartedOK'
<1> DEFINE e == Earliest(k)
<1>1. queued[k] # <<>> /\ pc = "admit"
  BY DEF Admit, IsNext, ClientsInQueue
<1>2. UNCHANGED <<pc, running, outputs>> /\ mini' = mini \cup {e}
  BY DEF Admit
<1>3. e \in Req /\ outputs[e] = 0
  <2>1. /\ Earliest(k) = queued[k][1] /\ Len(queued[k]) \in Nat \ {0}
        /\ queued[k][1] \in Req
    BY <1>1, WaitingHeadTail
  <2>2. 1 \in 1..Len(queued[k])
    BY <2>1
  <2>3. WaitsOnceIn(k, 1)
    BY <2>2 DEF QueueOK
  <2>4. QED
    BY <2>1, <2>3 DEF WaitsOnceIn
<1>4. outputs[e] < max_output_len[e]
  <2>1. max_output_len[e] \in Nat \ {0}
    BY <1>3, RequestAssumption
  <2>2. QED
    BY <1>3, <2>1
<1> HIDE DEF e
<1>5. QED
  BY <1>1, <1>2, <1>3, <1>4 DEF StartedOK

(* Steps that touch neither the batches' requests nor their outputs.       *)
LEMMA SamePeaks ==
  ASSUME PeaksOK, outputs' = outputs, running' \cup mini' = running \cup mini
  PROVE  PeaksOK'
<1>1. PeaksFit(outputs, running \cup mini)
  BY DEF PeaksOK
<1>2. PeaksFit(outputs', running' \cup mini')
  BY <1>1, Zenon
<1>3. QED
  BY <1>2 DEF PeaksOK

LEMMA StepKeepsStarted ==
  TypeOK /\ BatchesOK /\ QueueOK /\ StartedOK /\ [Next]_vars => StartedOK'
<1> SUFFICES ASSUME TypeOK, BatchesOK, QueueOK, StartedOK, [Next]_vars
             PROVE  StartedOK'
  OBVIOUS
<1>1. ASSUME NEW r \in Req, AddReq(r) \/ Abort(r) PROVE StartedOK'
  BY <1>1 DEF AddReq, ReceiveReq, Abort, ReceiveAbort, StartedOK
<1>2. CASE Wake \/ StartAdmission \/ DecodeCleanedUp
  <2>1. UNCHANGED <<running, mini, outputs>> /\ mini = {} /\ pc # "prefill" /\ pc' # "prefill"
    BY <1>2 DEF Wake, StartAdmission, DecodeCleanedUp, AfterStep, BatchesOK
  <2>2. QED
    BY <2>1 DEF StartedOK
<1>3. CASE DecodeStep \/ NothingAdmitted
  <2>1. UNCHANGED <<running, mini, outputs>> /\ mini = {} /\ pc # "prefill" /\ pc' # "prefill"
    BY <1>3 DEF DecodeStep, NothingAdmitted, AdmissionOver, StartDecode, BatchesOK
  <2>2. QED
    BY <2>1 DEF StartedOK
<1>4. ASSUME NEW r \in Req, Charge(r) PROVE StartedOK'
  <2>1. UNCHANGED <<running, mini, outputs>> /\ mini = {} /\ pc # "prefill" /\ pc' # "prefill"
    BY <1>4 DEF Charge, BatchesOK
  <2>2. QED
    BY <2>1 DEF StartedOK
<1>5. ASSUME NEW k \in Client, DropAborted(k) PROVE StartedOK'
  BY <1>5 DEF DropAborted, routerVars, StartedOK
<1>6. ASSUME NEW k \in Client, Admit(k) PROVE StartedOK'
  BY <1>6, AdmitKeepsStarted
<1>7. CASE StartPrefill
  <2>1. /\ outputs' = outputs
        /\ pc = "admit" /\ pc' = "prefill" /\ mini # {}
        /\ IF running = {} THEN running' = mini /\ mini' = {}
                           ELSE running' = running /\ mini' = mini
    BY <1>7 DEF StartPrefill, AdmissionOver
  <2>2. QED
    BY <2>1 DEF StartedOK
<1>8. ASSUME NEW F \in SUBSET running, FinishFirstPrefill(F)
      PROVE  StartedOK'
  <2>1. /\ F \in MayFinish(running) /\ GiveTokens(running, F)
        /\ running' = running \ F /\ mini' = mini /\ mini = {}
        /\ pc = "prefill" /\ pc' # "prefill"
        /\ running \in SUBSET Req
    BY <1>8 DEF FinishFirstPrefill, TypeOK
  <2>2. \A r \in running : outputs[r] = 0
    BY <2>1 DEF StartedOK
  <2>3. \A r \in running' : outputs'[r] = 1 /\ outputs'[r] < max_output_len[r]
    BY <2>1, <2>2, StayersHaveLeft
  <2>4. QED
    BY <2>1, <2>3 DEF StartedOK
<1>9. ASSUME NEW F \in SUBSET mini, FinishMiniPrefill(F)
      PROVE  StartedOK'
  <2>1. /\ F \in MayFinish(mini) /\ GiveTokens(mini, F)
        /\ mini' = mini \ F /\ running' = running /\ mini # {}
        /\ pc = "prefill" /\ pc' \notin {"prefill", "admit"}
        /\ mini \in SUBSET Req /\ running \in SUBSET Req
        /\ running \cap mini = {}
    BY <1>9 DEF FinishMiniPrefill, TypeOK, BatchesOK
  <2>2. \A r \in mini : outputs[r] = 0
    BY <2>1 DEF StartedOK
  <2>3. \A r \in mini' : outputs'[r] = 1 /\ outputs'[r] < max_output_len[r]
    BY <2>1, <2>2, StayersHaveLeft
  <2>4. \A r \in running : outputs'[r] = outputs[r] /\ outputs[r] # 0
    <3>1. \A r \in running : outputs'[r] = outputs[r]
      BY <2>1, StayersHaveLeft
    <3>2. QED
      BY <2>1, <3>1 DEF StartedOK
  <2>5. QED
    BY <2>1, <2>3, <2>4 DEF StartedOK
<1>10. CASE PrefillCleanedUp
  <2>1. /\ UNCHANGED <<running, mini, outputs>>
        /\ pc = "prefillCleanup" /\ pc' \notin {"prefill", "admit"}
    BY <1>10 DEF PrefillCleanedUp, AfterStep
  <2>2. QED
    BY <2>1 DEF StartedOK
<1>11. CASE Merge
  <2>1. /\ running' = running \cup mini /\ mini' = {} /\ outputs' = outputs
        /\ pc = "merge" /\ pc' = "top"
    BY <1>11 DEF Merge
  <2>2. QED
    BY <2>1 DEF StartedOK
<1>12. ASSUME NEW F \in SUBSET running, FinishDecode(F)
       PROVE  StartedOK'
  <2>1. /\ F \in MayFinish(running) /\ GiveTokens(running, F)
        /\ running' = running \ F /\ mini' = mini /\ mini = {}
        /\ pc = "decode" /\ pc' # "prefill"
        /\ running \in SUBSET Req
    BY <1>12 DEF FinishDecode, TypeOK, BatchesOK
  <2>2. \A r \in running' : outputs'[r] # 0 /\ outputs'[r] < max_output_len[r]
    <3>1. ASSUME NEW r \in running'
          PROVE  outputs'[r] = outputs[r] + 1 /\ outputs'[r] < max_output_len[r]
      BY <2>1, StayersHaveLeft
    <3>2. \A r \in running : outputs[r] \in Nat
      BY <2>1 DEF TypeOK
    <3>3. QED
      BY <2>1, <3>1, <3>2
  <2>3. QED
    BY <2>1, <2>2 DEF StartedOK
<1>13. CASE UNCHANGED vars
  BY <1>13 DEF vars, routerVars, StartedOK
<1>14. QED
  BY <1>1, <1>2, <1>3, <1>4, <1>5, <1>6, <1>7, <1>8, <1>9, <1>10, <1>11, <1>12, <1>13
  DEF Next, Netio, Forward

LEMMA StartedAlways == Spec => []StartedOK
<1>1. Init => StartedOK
  BY DEF Init, StartedOK
<1>2. QED
  BY <1>1, StepKeepsStarted, TypeCorrect, BatchesCorrect, PTL DEF Spec

LEMMA StepKeepsPeaks ==
  TypeOK /\ BatchesOK /\ QueueOK /\ PeaksOK /\ StartedOK /\ [Next]_vars => PeaksOK'
<1> SUFFICES ASSUME TypeOK, BatchesOK, QueueOK, PeaksOK, StartedOK, [Next]_vars
             PROVE  PeaksOK'
  OBVIOUS
<1>1. CASE UNCHANGED <<running, mini, outputs>>
  BY <1>1, SamePeaks
<1>2. ASSUME NEW k \in Client, Admit(k) PROVE PeaksOK'
  BY <1>2, AdmitKeepsPeaks
<1>3. CASE StartPrefill \/ Merge
  <2>1. running' \cup mini' = running \cup mini /\ outputs' = outputs
    BY <1>3 DEF StartPrefill, Merge
  <2>2. QED
    BY <2>1, SamePeaks
<1>4. ASSUME NEW F \in SUBSET running, FinishFirstPrefill(F)
      PROVE  PeaksOK'
  <2>1. /\ F \in MayFinish(running) /\ GiveTokens(running, F)
        /\ running' = running \ F /\ mini' = mini /\ mini = {}
        /\ pc = "prefill" /\ running \in SUBSET Req
    BY <1>4 DEF FinishFirstPrefill, TypeOK
  <2>2. \A r \in running : outputs[r] = 0
    BY <2>1 DEF StartedOK
  <2>3. QED
    BY <2>1, <2>2, PrefillKeepsPeaks
<1>5. ASSUME NEW F \in SUBSET mini, FinishMiniPrefill(F)
      PROVE  PeaksOK'
  <2>1. /\ F \in MayFinish(mini) /\ GiveTokens(mini, F)
        /\ mini' = mini \ F /\ running' = running
        /\ pc = "prefill" /\ mini \in SUBSET Req
    BY <1>5 DEF FinishMiniPrefill, TypeOK
  <2>2. \A r \in mini : outputs[r] = 0
    BY <2>1 DEF StartedOK
  <2>3. QED
    BY <2>1, <2>2, PrefillKeepsPeaks
<1>6. ASSUME NEW F \in SUBSET running, FinishDecode(F)
      PROVE  PeaksOK'
  <2>1. /\ F \in MayFinish(running) /\ GiveTokens(running, F)
        /\ running' = running \ F /\ mini' = mini /\ mini = {}
        /\ pc = "decode"
    BY <1>6 DEF FinishDecode, BatchesOK
  <2>2. \A r \in running : outputs[r] # 0
    BY <2>1 DEF StartedOK
  <2>3. QED
    BY <2>1, <2>2, DecodeKeepsPeaks
<1>7. QED
  <2>1. ASSUME NEW r \in Req, AddReq(r) \/ Abort(r) \/ Charge(r)
        PROVE  UNCHANGED <<running, mini, outputs>>
    BY <2>1 DEF AddReq, ReceiveReq, Abort, ReceiveAbort, Charge
  <2>2. ASSUME NEW k \in Client, DropAborted(k)
        PROVE  UNCHANGED <<running, mini, outputs>>
    BY <2>2 DEF DropAborted, routerVars
  <2>3. CASE \/ Wake \/ DecodeStep \/ StartAdmission \/ NothingAdmitted
             \/ PrefillCleanedUp \/ DecodeCleanedUp \/ UNCHANGED vars
    BY <1>1, <2>3
    DEF Wake, DecodeStep, StartAdmission, NothingAdmitted, PrefillCleanedUp,
        DecodeCleanedUp, StartDecode, vars, routerVars
  <2>4. QED
    BY <1>1, <1>2, <1>3, <1>4, <1>5, <1>6, <2>1, <2>2, <2>3
    DEF Next, Netio, Forward

LEMMA StartsWithinLimits ==
  ASSUME Req # {}, Init
  PROVE  PeaksOK
<1>1. outputs \in [Req -> Nat] /\ running \cup mini = {}
  BY DEF Init
<1>2. PeaksFit(outputs, {})
  BY <1>1, NobodyFits
<1>3. QED
  BY <1>1, <1>2 DEF PeaksOK

(* The admission estimate is safe over time: whatever was merged and       *)
(* whichever requests ended since it was made, prompts, tokens and         *)
(* adapters of everything in service fit in the pool at every step, and no *)
(* more than running_max_req_size requests are in service.                 *)
THEOREM EstimateIsSafe == ASSUME Req # {} PROVE Spec => []BatchFits
<1>1. Init => PeaksOK
  BY StartsWithinLimits
<1>2. TypeOK /\ BatchesOK /\ PeaksOK /\ StartedOK => BatchFits
  <2> SUFFICES ASSUME TypeOK, BatchesOK, PeaksOK, StartedOK PROVE BatchFits
    OBVIOUS
  <2> DEFINE B == running \cup mini
  <2>1. B \in SUBSET Req /\ outputs \in [Req -> Nat] /\ PeaksFit(outputs, B)
    BY DEF TypeOK, PeaksOK
  <2>2. ASSUME NEW r \in B PROVE LeftOut(outputs, r) >= 0
    <3>1. r \in Req /\ outputs[r] < max_output_len[r]
      BY <2>1 DEF StartedOK
    <3>2. max_output_len[r] \in Nat /\ outputs[r] \in Nat
      BY <2>1, <3>1, RunNat
    <3>3. QED
      BY <3>1, <3>2 DEF LeftOut
  <2> HIDE DEF B
  <2>3. TokensHeld(B, outputs) + AdapterSize(B) < max_total_tokens
    BY <2>1, <2>2, HeldIsPeak
  <2>4. QED
    BY <2>3 DEF BatchFits, BatchesOK, B
<1>3. QED
  BY <1>1, <1>2, StepKeepsPeaks, StartedAlways, TypeCorrect, BatchesCorrect, PTL DEF Spec

-----------------------------------------------------------------------------
(* What an abort does.                                                     *)

(* What AbortedStops says of one step.                                     *)
StopsAborted ==
  \A r \in aborted : /\ r \in mini' => r \in mini
                     /\ outputs'[r] # outputs[r] => r \in finished'

(* Only the steps that give tokens change outputs, and they finish every   *)
(* aborted request of their batch; only Admit puts a request in the mini   *)
(* batch, and never an aborted one.                                        *)
LEMMA GiveTokensStops ==
  ASSUME TypeOK, NEW batch \in SUBSET Req, NEW F \in MayFinish(batch),
         GiveTokens(batch, F), mini' \subseteq mini
  PROVE  StopsAborted
<1>1. SUFFICES ASSUME NEW r \in aborted, outputs'[r] # outputs[r]
               PROVE  r \in finished'
  BY DEF StopsAborted
<1>2. r \in Req
  BY DEF TypeOK
<1>3. r \in batch
  BY <1>1, <1>2 DEF GiveTokens
<1>4. r \in F
  BY <1>3 DEF MayFinish
<1>5. QED
  BY <1>4 DEF GiveTokens

LEMMA StepStopsAborted == TypeOK /\ [Next]_vars => StopsAborted
<1> SUFFICES ASSUME TypeOK, [Next]_vars PROVE StopsAborted
  OBVIOUS
<1>1. ASSUME NEW r \in Req, AddReq(r) \/ Abort(r) PROVE StopsAborted
  BY <1>1 DEF AddReq, ReceiveReq, Abort, ReceiveAbort, StopsAborted
<1>2. CASE Wake \/ StartAdmission \/ PrefillCleanedUp \/ DecodeCleanedUp
  BY <1>2 DEF Wake, StartAdmission, PrefillCleanedUp, DecodeCleanedUp, StopsAborted
<1>3. CASE DecodeStep
  BY <1>3 DEF DecodeStep, StartDecode, StopsAborted
<1>4. ASSUME NEW k \in Client, Admit(k) PROVE StopsAborted
  BY <1>4 DEF Admit, StopsAborted
<1>5. ASSUME NEW k \in Client, DropAborted(k) PROVE StopsAborted
  BY <1>5 DEF DropAborted, routerVars, StopsAborted
<1>6. CASE NothingAdmitted
  BY <1>6 DEF NothingAdmitted, StartDecode, StopsAborted
<1>7. CASE StartPrefill
  BY <1>7 DEF StartPrefill, StopsAborted
<1>8. ASSUME NEW F \in SUBSET running, FinishFirstPrefill(F) \/ FinishDecode(F)
      PROVE  StopsAborted
  <2>1. /\ F \in MayFinish(running)
        /\ GiveTokens(running, F)
        /\ mini' = mini
        /\ running \in SUBSET Req
    BY <1>8 DEF FinishFirstPrefill, FinishDecode, TypeOK
  <2>2. QED
    BY <2>1, GiveTokensStops
<1>9. ASSUME NEW F \in SUBSET mini, FinishMiniPrefill(F)
      PROVE  StopsAborted
  <2>1. /\ F \in MayFinish(mini)
        /\ GiveTokens(mini, F)
        /\ mini' \subseteq mini
        /\ mini \in SUBSET Req
    BY <1>9 DEF FinishMiniPrefill, TypeOK
  <2>2. QED
    BY <2>1, GiveTokensStops
<1>10. CASE Merge
  BY <1>10 DEF Merge, StopsAborted
<1>11. ASSUME NEW r \in Req, Charge(r) PROVE StopsAborted
  BY <1>11 DEF Charge, StopsAborted
<1>12. CASE UNCHANGED vars
  BY <1>12 DEF vars, routerVars, StopsAborted
<1>13. QED
  BY <1>1, <1>2, <1>3, <1>4, <1>5, <1>6, <1>7, <1>8, <1>9, <1>10, <1>11, <1>12
  DEF Next, Netio, Forward

(* An abort that found its request (in the queue or the running batch)     *)
(* stops it: no later step of the router puts it in a batch, and it gets   *)
(* at most the token whose decode was under way.                           *)
THEOREM AbortsStop == Spec => AbortedStops
<1>1. TypeOK /\ [Next]_vars => [StopsAborted]_vars
  BY StepStopsAborted
<1>2. QED
  BY <1>1, TypeCorrect, PTL DEF Spec, AbortedStops, StopsAborted

-----------------------------------------------------------------------------
(* A request that arrived is somewhere, unless it was aborted.             *)
SomewhereOK ==
  \A r \in arrived : r \in WaitingReqs \cup running \cup mini \cup finished \cup aborted

Waits(r) == \E c \in Client : \E i \in 1..Len(queued[c]) : queued[c][i] = r

LEMMA WaitingIsWaits ==
  /\ \A r : r \in WaitingReqs <=> Waits(r)
  /\ \A r : r \in WaitingReqs' <=> Waits(r)'
<1>1. ASSUME NEW r PROVE r \in WaitingReqs <=> Waits(r)
  BY DEF WaitingReqs, Waits
<1>2. ASSUME NEW r PROVE r \in WaitingReqs' <=> Waits(r)'
  <2>1. ASSUME r \in WaitingReqs' PROVE Waits(r)'
    <3>1. PICK c \in Client : \E i \in 1..Len(queued'[c]) : queued'[c][i] = r
      BY <2>1 DEF WaitingReqs
    <3>2. QED
      BY <3>1 DEF Waits
  <2>2. ASSUME Waits(r)' PROVE r \in WaitingReqs'
    <3>1. PICK c \in Client : \E i \in 1..Len(queued'[c]) : queued'[c][i] = r
      BY <2>2 DEF Waits
    <3>2. QED
      BY <3>1 DEF WaitingReqs
  <2>3. QED
    BY <2>1, <2>2
<1>3. QED
  BY <1>1, <1>2

(* The head leaves its queue and nobody else.                              *)
LEMMA OnlyHeadLeaves ==
  ASSUME TypeOK, NEW k \in Client, queued[k] # <<>>, RemoveEarliest(k),
         NEW r, Waits(r), r # Earliest(k)
  PROVE  Waits(r)'
<1>a. PICK c \in Client : \E i \in 1..Len(queued[c]) : queued[c][i] = r
  BY DEF Waits
<1>1. PICK i \in 1..Len(queued[c]) : queued[c][i] = r
  BY <1>a
<1>2. queued' = [queued EXCEPT ![k] = Tail(@)]
  BY DEF RemoveEarliest
<1>3. CASE c # k
  <2>1. queued'[c] = queued[c]
    BY <1>2, <1>3 DEF TypeOK
  <2>2. QED
    BY <1>1, <2>1 DEF Waits
<1>4. CASE c = k
  <2>1. /\ Earliest(k) = queued[k][1]
        /\ Len(queued[k]) \in Nat \ {0}
        /\ Len(Tail(queued[k])) = Len(queued[k]) - 1
        /\ \A j \in 1..Len(Tail(queued[k])) : Tail(queued[k])[j] = queued[k][j + 1]
    BY WaitingHeadTail
  <2>2. i # 1
    BY <1>1, <1>4, <2>1
  <2>3. queued'[k] = Tail(queued[k])
    BY <1>2 DEF TypeOK
  <2>4. i - 1 \in 1..Len(queued'[k]) /\ queued'[k][i - 1] = r
    BY <1>1, <1>4, <2>1, <2>2, <2>3
  <2>5. QED
    BY <2>4 DEF Waits
<1>5. QED
  BY <1>3, <1>4

(* Whoever waits goes on waiting when a request is appended, which waits.  *)
LEMMA AppendedWaits ==
  ASSUME TypeOK, NEW r \in Req, PushRequest(r)
  PROVE  /\ Waits(r)'
         /\ \A s : Waits(s) => Waits(s)'
<1> DEFINE u == adapter_dir[r]
<1>1. u \in Client /\ queued[u] \in Seq(Req)
  BY RequestAssumption DEF TypeOK
<1>2. /\ queued' = [queued EXCEPT ![u] = Append(queued[u], r)]
      /\ queued'[u] = Append(queued[u], r)
  BY <1>1 DEF PushRequest, TypeOK
<1>3. /\ Len(queued'[u]) = Len(queued[u]) + 1
      /\ Len(queued[u]) \in Nat
      /\ \A i \in 1..Len(queued[u]) : queued'[u][i] = queued[u][i]
      /\ queued'[u][Len(queued[u]) + 1] = r
  BY <1>1, <1>2, AppendProperties, LenProperties
<1>4. Waits(r)'
  <2>1. Len(queued[u]) + 1 \in 1..Len(queued'[u])
    BY <1>3
  <2>2. QED
    BY <1>1, <1>3, <2>1 DEF Waits
<1>5. ASSUME NEW s, Waits(s) PROVE Waits(s)'
  <2>a. PICK c \in Client : \E i \in 1..Len(queued[c]) : queued[c][i] = s
    BY <1>5 DEF Waits
  <2>1. PICK i \in 1..Len(queued[c]) : queued[c][i] = s
    BY <2>a
  <2>2. CASE c = u
    <3>1. i \in 1..Len(queued'[u]) /\ queued'[u][i] = s
      BY <1>3, <2>1, <2>2
    <3>2. QED
      BY <1>1, <3>1 DEF Waits
  <2>3. CASE c # u
    <3>1. queued'[c] = queued[c]
      BY <1>2, <2>3 DEF TypeOK
    <3>2. QED
      BY <2>1, <3>1 DEF Waits
  <2>4. QED
    BY <2>2, <2>3
<1>6. QED
  BY <1>4, <1>5

(* Steps that leave the queue and the arrivals alone keep everybody        *)
(* somewhere if nobody leaves the batches but into the report.             *)
LEMMA StaySomewhere ==
  ASSUME SomewhereOK, queued' = queued, arrived' = arrived,
         aborted \subseteq aborted',
         running \cup mini \cup finished \subseteq running' \cup mini' \cup finished'
  PROVE  SomewhereOK'
<1>1. WaitingReqs' = WaitingReqs
  BY DEF WaitingReqs
<1>2. QED
  BY <1>1 DEF SomewhereOK

LEMMA StepKeepsSomewhere == TypeOK /\ SomewhereOK /\ [Next]_vars => SomewhereOK'
<1> SUFFICES ASSUME TypeOK, SomewhereOK, [Next]_vars PROVE SomewhereOK'
  OBVIOUS
<1>1. ASSUME NEW r \in Req, AddReq(r) PROVE SomewhereOK'
  <2>1. /\ PushRequest(r)
        /\ arrived' = arrived \cup {r}
        /\ UNCHANGED <<running, mini, finished, aborted>>
    BY <1>1 DEF AddReq, ReceiveReq, AppendReq
  <2>2. Waits(r)' /\ \A s : Waits(s) => Waits(s)'
    BY <2>1, AppendedWaits
  <2>3. \A s : s \in WaitingReqs => s \in WaitingReqs'
    BY <2>2, WaitingIsWaits
  <2>4. r \in WaitingReqs'
    BY <2>2, WaitingIsWaits
  <2>5. QED
    BY <2>1, <2>3, <2>4 DEF SomewhereOK
<1>2. ASSUME NEW r \in Req, Abort(r) PROVE SomewhereOK'
  <2>1. /\ UNCHANGED <<queued, running, mini, finished, arrived>>
        /\ aborted \subseteq aborted'
    BY <1>2 DEF Abort, ReceiveAbort, queueVars
  <2>2. QED
    BY <2>1, StaySomewhere
<1>3. CASE Wake \/ StartAdmission \/ PrefillCleanedUp \/ DecodeCleanedUp
  <2>1. UNCHANGED <<queued, running, mini, finished, arrived, aborted>>
    BY <1>3 DEF Wake, StartAdmission, PrefillCleanedUp, DecodeCleanedUp, queueVars
  <2>2. QED
    BY <2>1, StaySomewhere
<1>4. CASE DecodeStep \/ NothingAdmitted
  <2>1. UNCHANGED <<queued, running, mini, finished, arrived, aborted>>
    BY <1>4 DEF DecodeStep, NothingAdmitted, StartDecode, queueVars
  <2>2. QED
    BY <2>1, StaySomewhere
<1>5. ASSUME NEW k \in Client, Admit(k) PROVE SomewhereOK'
  <2>1. /\ queued[k] # <<>>
        /\ RemoveEarliest(k)
        /\ mini' = mini \cup {Earliest(k)}
        /\ UNCHANGED <<running, finished, arrived, aborted>>
    BY <1>5 DEF Admit, IsNext, ClientsInQueue, TakeEarliest
  <2>2. ASSUME NEW r, Waits(r), r # Earliest(k) PROVE Waits(r)'
    BY <2>1, <2>2, OnlyHeadLeaves
  <2>3. \A r : r \in WaitingReqs /\ r # Earliest(k) => r \in WaitingReqs'
    BY <2>2, WaitingIsWaits
  <2>4. QED
    BY <2>1, <2>3 DEF SomewhereOK
<1>6. ASSUME NEW k \in Client, DropAborted(k) PROVE SomewhereOK'
  <2>1. /\ queued[k] # <<>>
        /\ Earliest(k) \in aborted
        /\ RemoveEarliest(k)
        /\ UNCHANGED <<running, mini, finished, arrived, aborted>>
    BY <1>6 DEF DropAborted, IsNext, ClientsInQueue, routerVars
  <2>2. ASSUME NEW r, Waits(r), r # Earliest(k) PROVE Waits(r)'
    BY <2>1, <2>2, OnlyHeadLeaves
  <2>3. \A r : r \in WaitingReqs /\ r # Earliest(k) => r \in WaitingReqs'
    BY <2>2, WaitingIsWaits
  <2>4. QED
    BY <2>1, <2>3 DEF SomewhereOK
<1>7. CASE StartPrefill \/ Merge
  <2>1. /\ UNCHANGED <<queued, finished, arrived, aborted>>
        /\ running \cup mini \subseteq running' \cup mini'
    BY <1>7 DEF StartPrefill, Merge, queueVars
  <2>2. QED
    BY <2>1, StaySomewhere
<1>8. ASSUME NEW F \in SUBSET running, FinishFirstPrefill(F) \/ FinishDecode(F)
      PROVE  SomewhereOK'
  <2>1. /\ UNCHANGED <<queued, arrived, aborted, mini>>
        /\ running' = running \ F
        /\ finished' = finished \cup F
    BY <1>8 DEF FinishFirstPrefill, FinishDecode, GiveTokens, queueVars
  <2>2. QED
    BY <2>1, StaySomewhere
<1>9. ASSUME NEW F \in SUBSET mini, FinishMiniPrefill(F) PROVE SomewhereOK'
  <2>1. /\ UNCHANGED <<queued, arrived, aborted, running>>
        /\ mini' = mini \ F
        /\ finished' = finished \cup F
    BY <1>9 DEF FinishMiniPrefill, GiveTokens, queueVars
  <2>2. QED
    BY <2>1, StaySomewhere
<1>10. ASSUME NEW r \in Req, Charge(r) PROVE SomewhereOK'
  <2>1. UNCHANGED <<queued, running, mini, finished, arrived, aborted>>
    BY <1>10 DEF Charge, ChargeDecode
  <2>2. QED
    BY <2>1, StaySomewhere
<1>11. CASE UNCHANGED vars
  <2>1. UNCHANGED <<queued, running, mini, finished, arrived, aborted>>
    BY <1>11 DEF vars, queueVars, routerVars
  <2>2. QED
    BY <2>1, StaySomewhere
<1>12. QED
  BY <1>1, <1>2, <1>3, <1>4, <1>5, <1>6, <1>7, <1>8, <1>9, <1>10, <1>11
  DEF Next, Netio, Forward

-----------------------------------------------------------------------------
(* Counting the places.                                                    *)

(* A queue in which nobody waits twice is no longer than Req is large.     *)
LEMMA ShortQueue ==
  ASSUME TypeOK, QueueOK, NEW c \in Client
  PROVE  Len(queued[c]) <= Cardinality(Req)
<1> DEFINE n == Len(queued[c])
<1>1. /\ n \in Nat
      /\ queued[c] \in [1..n -> Req]
  BY LenProperties DEF TypeOK
<1>2. \A i, j \in 1..n : queued[c][i] = queued[c][j] => i = j
  BY DEF QueueOK, WaitsOnceIn
<1>3. queued[c] \in Injection(1..n, Req)
  BY <1>1, <1>2 DEF Injection, IsInjective
<1>4. IsFiniteSet(Req)
  BY RequestAssumption
<1>5. Cardinality(1..n) <= Cardinality(Req)
  BY <1>3, <1>4, FS_Injection
<1>6. Cardinality(1..n) = n
  BY <1>1, FS_Interval
<1>7. QED
  BY <1>5, <1>6

LEMMA WaitsAtOne ==
  ASSUME TypeOK, QueueOK, NEW r \in Req
  PROVE  Cardinality(Positions(r)) = IF r \in WaitingReqs THEN 1 ELSE 0
<1>1. IsFiniteSet(Req) /\ Cardinality(Req) \in Nat
  BY RequestAssumption, FS_CardinalityType
<1>2. CASE r \in WaitingReqs
  <2>1. PICK c \in Client : \E i \in 1..Len(queued[c]) : queued[c][i] = r
    BY <1>2 DEF WaitingReqs
  <2>2. PICK i \in 1..Len(queued[c]) : queued[c][i] = r
    BY <2>1
  <2>3. Len(queued[c]) \in Nat /\ Len(queued[c]) <= Cardinality(Req)
    BY ShortQueue, LenProperties DEF TypeOK
  <2>4. WaitsOnceIn(c, i)
    BY <2>2 DEF QueueOK
  <2>5. <<c, i>> \in Positions(r)
    BY <1>1, <2>2, <2>3 DEF Positions
  <2>6. ASSUME NEW p \in Positions(r) PROVE p = <<c, i>>
    <3>1. /\ p[1] \in Client /\ p[2] \in 1..Cardinality(Req)
          /\ p = <<p[1], p[2]>>
          /\ p[2] <= Len(queued[p[1]]) /\ queued[p[1]][p[2]] = r
      BY <2>6 DEF Positions
    <3>2. Len(queued[p[1]]) \in Nat
      BY <3>1, LenProperties DEF TypeOK
    <3>3. p[2] \in 1..Len(queued[p[1]])
      BY <1>1, <3>1, <3>2
    <3>4. WaitsOnceIn(p[1], p[2])
      BY <3>1, <3>3 DEF QueueOK
    <3>5. p[1] = c
      BY <2>2, <2>4, <3>1, <3>4 DEF WaitsOnceIn
    <3>6. p[2] = i
      BY <2>2, <2>4, <3>1, <3>3, <3>5 DEF WaitsOnceIn
    <3>7. QED
      BY <3>1, <3>5, <3>6
  <2>7. Positions(r) = {<<c, i>>}
    BY <2>5, <2>6
  <2>8. QED
    BY <1>2, <2>7, FS_Singleton
<1>3. CASE r \notin WaitingReqs
  <2>1. ASSUME NEW p \in Positions(r) PROVE FALSE
    <3>1. /\ p[1] \in Client /\ p[2] \in 1..Cardinality(Req)
          /\ p[2] <= Len(queued[p[1]]) /\ queued[p[1]][p[2]] = r
      BY <2>1 DEF Positions
    <3>2. Len(queued[p[1]]) \in Nat
      BY <3>1, LenProperties DEF TypeOK
    <3>3. p[2] \in 1..Len(queued[p[1]])
      BY <1>1, <3>1, <3>2
    <3>4. QED
      BY <1>3, <3>1, <3>3 DEF WaitingReqs
  <2>2. Positions(r) = {}
    BY <2>1
  <2>3. QED
    BY <1>3, <2>2, FS_EmptySet
<1>4. QED
  BY <1>2, <1>3

Batches(r) ==
  {S \in {<<1, running>>, <<2, mini>>, <<3, finished>>} : r \in S[2]}

LEMMA InOneBatch ==
  ASSUME BatchesOK, NEW r
  PROVE  Cardinality(Batches(r)) = IF r \in running \cup mini \cup finished THEN 1 ELSE 0
<1>1. CASE r \in running
  <2>1. Batches(r) = {<<1, running>>}
    BY <1>1 DEF BatchesOK, Batches
  <2>2. QED
    BY <1>1, <2>1, FS_Singleton
<1>2. CASE r \in mini
  <2>1. Batches(r) = {<<2, mini>>}
    BY <1>2 DEF BatchesOK, Batches
  <2>2. QED
    BY <1>2, <2>1, FS_Singleton
<1>3. CASE r \in finished
  <2>1. Batches(r) = {<<3, finished>>}
    BY <1>3 DEF BatchesOK, Batches
  <2>2. QED
    BY <1>3, <2>1, FS_Singleton
<1>4. CASE r \notin running \cup mini \cup finished
  <2>1. Batches(r) = {}
    BY <1>4 DEF Batches
  <2>2. QED
    BY <1>4, <2>1, FS_EmptySet
<1>5. QED
  BY <1>1, <1>2, <1>3, <1>4

(* Every request that arrived waits, once, or is in one batch, or was      *)
(* reported as finished, and in no second of these places: none is lost    *)
(* and none duplicated when the lists of queue and batches are rebuilt,    *)
(* unless it was aborted and dropped.                                      *)
THEOREM NoneIsLost == Spec => []NoRequestLost
<1>1. Init => SomewhereOK
  BY DEF Init, SomewhereOK
<1>2. TypeOK /\ BatchesOK /\ QueueOK /\ SomewhereOK => NoRequestLost
  <2> SUFFICES ASSUME TypeOK, BatchesOK, QueueOK, SomewhereOK, NEW r \in arrived
               PROVE  \/ Cardinality(Positions(r)) + Cardinality(Batches(r)) = 1
                      \/ /\ Cardinality(Positions(r)) + Cardinality(Batches(r)) = 0
                         /\ r \in aborted
    BY DEF NoRequestLost, Batches
  <2>1. r \in Req
    BY DEF TypeOK
  <2>2. Cardinality(Positions(r)) = IF r \in WaitingReqs THEN 1 ELSE 0
    BY <2>1, WaitsAtOne
  <2>3. Cardinality(Batches(r)) = IF r \in running \cup mini \cup finished THEN 1 ELSE 0
    BY InOneBatch
  <2>4. r \in WaitingReqs => r \notin running \cup mini \cup finished
    BY DEF WaitingReqs, QueueOK, WaitsOnceIn
  <2>5. r \in WaitingReqs \cup running \cup mini \cup finished \cup aborted
    BY DEF SomewhereOK
  <2>6. QED
    BY <2>2, <2>3, <2>4, <2>5
<1>3. TypeOK /\ SomewhereOK /\ [Next]_vars => SomewhereOK'
  BY StepKeepsSomewhere
<1>4. QED
  BY <1>1, <1>2, <1>3, TypeCorrect, BatchesCorrect, PTL DEF Spec

-----------------------------------------------------------------------------
(* The insertion order of the dict is a strict total order on its keys.    *)
OrderOK ==
  /\ older \subseteq ClientsInQueue \X ClientsInQueue
  /\ \A c \in ClientsInQueue : <<c, c>> \notin older
  /\ \A c, d \in ClientsInQueue : c # d => <<c, d>> \in older \/ <<d, c>> \in older
  /\ \A c, d, e \in ClientsInQueue :
       <<c, d>> \in older /\ <<d, e>> \in older => <<c, e>> \in older

(* A key that is new comes after the others.                               *)
LEMMA PushKeepsOrder ==
  ASSUME TypeOK, OrderOK, NEW r \in Req, PushRequest(r)
  PROVE  OrderOK'
<1> DEFINE u == adapter_dir[r]
<1>1. u \in Client /\ queued' = [queued EXCEPT ![u] = Append(@, r)]
  BY RequestAssumption DEF PushRequest
<1>2. queued'[u] # <<>> /\ \A c \in Client \ {u} : queued'[c] = queued[c]
  <2>1. queued[u] \in Seq(Req) /\ queued'[u] = Append(queued[u], r)
    BY <1>1 DEF TypeOK
  <2>2. Len(queued[u]) \in Nat /\ Len(queued'[u]) = Len(queued[u]) + 1
    BY <2>1, AppendProperties, LenProperties
  <2>3. Len(<<>>) = 0
    OBVIOUS
  <2>4. queued'[u] # <<>>
    BY <2>2, <2>3
  <2>5. \A c \in Client \ {u} : queued'[c] = queued[c]
    BY <1>1 DEF TypeOK
  <2>6. QED
    BY <2>4, <2>5
<1>3. ClientsInQueue' = ClientsInQueue \cup {u}
  BY <1>1, <1>2 DEF ClientsInQueue
<1>4. CASE u \in ClientsInQueue
  <2>1. older' = older /\ ClientsInQueue' = ClientsInQueue
    BY <1>3, <1>4 DEF PushRequest
  <2>2. QED
    BY <2>1 DEF OrderOK
<1>5. CASE u \notin ClientsInQueue
  <2>1. older' = older \cup {<<d, u>> : d \in ClientsInQueue}
    BY <1>5 DEF PushRequest
  <2>2. QED
    BY <1>3, <1>5, <2>1 DEF OrderOK
<1>6. QED
  BY <1>4, <1>5

LEMMA RemoveKeepsOrder ==
  ASSUME TypeOK, OrderOK, NEW k \in Client, queued[k] # <<>>, RemoveEarliest(k)
  PROVE  OrderOK'
<1>1. queued' = [queued EXCEPT ![k] = Tail(@)]
  BY DEF RemoveEarliest
<1>2. queued'[k] = Tail(queued[k]) /\ \A c \in Client \ {k} : queued'[c] = queued[c]
  BY <1>1 DEF TypeOK
<1>3. CASE Tail(queued[k]) = <<>>
  <2>1. /\ ClientsInQueue' = ClientsInQueue \ {k}
        /\ older' = {p \in older : k \notin {p[1], p[2]}}
    BY <1>2, <1>3 DEF ClientsInQueue, RemoveEarliest
  <2>2. QED
    BY <2>1 DEF OrderOK
<1>4. CASE Tail(queued[k]) # <<>>
  <2>1. ClientsInQueue' = ClientsInQueue /\ older' = older
    BY <1>2, <1>4 DEF ClientsInQueue, RemoveEarliest
  <2>2. QED
    BY <2>1 DEF OrderOK
<1>5. QED
  BY <1>3, <1>4

LEMMA SameOrder ==
  ASSUME OrderOK, UNCHANGED <<queued, older>>
  PROVE  OrderOK'
BY DEF OrderOK, ClientsInQueue

LEMMA StepKeepsOrder == TypeOK /\ OrderOK /\ [Next]_vars => OrderOK'
<1> SUFFICES ASSUME TypeOK, OrderOK, [Next]_vars PROVE OrderOK'
  OBVIOUS
<1>1. ASSUME NEW r \in Req, AddReq(r) PROVE OrderOK'
  BY <1>1, PushKeepsOrder DEF AddReq, ReceiveReq, AppendReq
<1>2. ASSUME NEW r \in Req, Abort(r) PROVE OrderOK'
  BY <1>2, SameOrder DEF Abort, ReceiveAbort, queueVars
<1>3. CASE Wake \/ StartAdmission \/ PrefillCleanedUp \/ DecodeCleanedUp
  BY <1>3, SameOrder DEF Wake, StartAdmission, PrefillCleanedUp, DecodeCleanedUp, queueVars
<1>4. CASE DecodeStep \/ NothingAdmitted
  BY <1>4, SameOrder DEF DecodeStep, NothingAdmitted, StartDecode, queueVars
<1>5. ASSUME NEW k \in Client, Admit(k) \/ DropAborted(k) PROVE OrderOK'
  <2>1. queued[k] # <<>> /\ RemoveEarliest(k)
    BY <1>5 DEF Admit, DropAborted, TakeEarliest, IsNext, ClientsInQueue
  <2>2. QED
    BY <2>1, RemoveKeepsOrder
<1>6. CASE StartPrefill \/ Merge
  BY <1>6, SameOrder DEF StartPrefill, Merge, queueVars
<1>7. ASSUME NEW F \in SUBSET running, FinishFirstPrefill(F) \/ FinishDecode(F)
      PROVE  OrderOK'
  BY <1>7, SameOrder DEF FinishFirstPrefill, FinishDecode, GiveTokens, queueVars
<1>8. ASSUME NEW F \in SUBSET mini, FinishMiniPrefill(F) PROVE OrderOK'
  BY <1>8, SameOrder DEF FinishMiniPrefill, GiveTokens, queueVars
<1>9. ASSUME NEW r \in Req, Charge(r) PROVE OrderOK'
  BY <1>9, SameOrder DEF Charge, ChargeDecode
<1>10. CASE UNCHANGED vars
  BY <1>10, SameOrder DEF vars, queueVars
<1>11. QED
  BY <1>1, <1>2, <1>3, <1>4, <1>5, <1>6, <1>7, <1>8, <1>9, <1>10
  DEF Next, Netio, Forward

(* So the queue always has a next client when it has any.                  *)
LEMMA SomebodyIsNext ==
  ASSUME TypeOK, QueueOK, OrderOK, ClientsInQueue # {}
  PROVE  \E k \in Client : IsNext(k)
<1> DEFINE Tie(k, c) == counters[k] = counters[c] /\ <<k, c>> \in older
           Before(k, c) == counters[k] < counters[c] \/ Tie(k, c)
           C == {T \in SUBSET ClientsInQueue :
                   T # {} /\ ~ \E k \in T : \A c \in T \ {k} : Before(k, c)}
<1>1. IsFiniteSet(ClientsInQueue)
  <2>1. ASSUME NEW c \in ClientsInQueue PROVE c \in AdaptersOf(Req)
    <3>1. c \in Client /\ queued[c] # <<>>
      BY DEF ClientsInQueue
    <3>2. Len(queued[c]) \in Nat \ {0} /\ queued[c][1] \in Req
      BY <3>1, WaitingHeadTail
    <3>3. 1 \in 1..Len(queued[c])
      BY <3>2
    <3>4. WaitsOnceIn(c, 1)
      BY <3>1, <3>3 DEF QueueOK
    <3>5. QED
      BY <3>2, <3>4 DEF WaitsOnceIn, AdaptersOf
  <2>2. ClientsInQueue \in SUBSET AdaptersOf(Req)
    BY <2>1
  <2>3. QED
    BY <2>2, DirsFinite, FS_Subset
<1>2. C = {}
  <2>1. SUFFICES ASSUME C # {} PROVE FALSE
    OBVIOUS
  <2>2. PICK T \in C : \A x \in T : T \ {x} \notin C
    BY <1>1, <2>1, SmallestPart
  <2>3. T \in SUBSET ClientsInQueue /\ T # {}
    BY <2>2
  <2>4. PICK x \in T : TRUE
    BY <2>3
  <2>5. CASE T \ {x} = {}
    BY <2>2, <2>4, <2>5
  <2>6. CASE T \ {x} # {}
    <3>1. T \ {x} \in SUBSET ClientsInQueue /\ T \ {x} \notin C
      BY <2>2, <2>4
    <3>2. PICK m \in T \ {x} : \A c \in (T \ {x}) \ {m} : Before(m, c)
      BY <2>6, <3>1
    <3>3. \A c \in T : c \in ClientsInQueue /\ counters[c] \in Nat
      BY <2>3 DEF TypeOK, ClientsInQueue
    <3>4. m \in T /\ m # x
      BY <3>2
    <3>5. Before(m, x) \/ Before(x, m)
      <4>1. /\ counters[x] \in Nat /\ counters[m] \in Nat
            /\ x \in ClientsInQueue /\ m \in ClientsInQueue /\ m # x
        BY <2>4, <3>3, <3>4
      <4>2. <<m, x>> \in older \/ <<x, m>> \in older
        BY <4>1 DEF OrderOK
      <4>3. QED
        BY <4>1, <4>2
    <3>6. CASE Before(m, x)
      <4>1. \A c \in T \ {m} : Before(m, c)
        BY <3>2, <3>6
      <4>2. QED
        BY <2>2, <3>4, <4>1
    <3>7. CASE Before(x, m)
      <4>1. ASSUME NEW c \in T \ {x} PROVE Before(x, c)
        <5>1. CASE c = m
          BY <3>7, <5>1
        <5>2. CASE c # m
          <6>1. Before(m, c)
            BY <3>2, <5>2
          <6>2. /\ counters[x] \in Nat /\ counters[m] \in Nat /\ counters[c] \in Nat
                /\ x \in ClientsInQueue /\ m \in ClientsInQueue /\ c \in ClientsInQueue
            BY <2>4, <3>3, <3>4
          <6>3. <<x, m>> \in older /\ <<m, c>> \in older => <<x, c>> \in older
            BY <6>2 DEF OrderOK
          <6>4. QED
            BY <3>7, <6>1, <6>2, <6>3
        <5>3. QED
          BY <5>1, <5>2
      <4>2. QED
        BY <2>2, <2>4, <4>1
    <3>8. QED
      BY <3>5, <3>6, <3>7
  <2>7. QED
    BY <2>5, <2>6
<1>3. PICK k \in ClientsInQueue : \A c \in ClientsInQueue \ {k} : Before(k, c)
  BY <1>2
<1>4. k \in Client /\ IsNext(k)
  BY <1>3 DEF IsNext, ClientsInQueue
<1>5. QED
  BY <1>4

-----------------------------------------------------------------------------
(* Every request has a place in the pool beside its own adapter, and the   *)
(* server takes a request at all.                                          *)
EveryoneFits ==
  /\ running_max_req_size >= 1
  /\ \A r \in Req : input_len[r] + max_output_len[r] + 4 * lora_rank[adapter_dir[r]]
                     < max_total_tokens

(* Then an idle router refuses nobody.                                     *)
LEMMA IdleAdmits ==
  ASSUME EveryoneFits, NEW r \in Req, running = {}, mini = {}
  PROVE  Fits(r)
<1> DEFINE cache == CacheLenList({}, {r}, outputs)
           o == [q \in Req |-> 0]
<1>1. /\ input_len[r] \in Nat /\ max_output_len[r] \in Nat \ {0}
      /\ o \in [Req -> Nat] /\ o[r] = 0
      /\ adapter_dir[r] \in Client /\ lora_rank[adapter_dir[r]] \in Nat
  BY RequestAssumption
<1>2. LeftOut(o, r) = max_output_len[r] - 1 /\ HasRun(o, r) = input_len[r] + 1
  BY <1>1 DEF LeftOut, HasRun
<1>3. IsCacheOf(cache, o, {r})
  <2>1. cache[r] = NewEntry(r) /\ DOMAIN cache = {r}
    BY DEF CacheLenList
  <2>2. QED
    BY <1>2, <2>1 DEF IsCacheOf, NewEntry
<1>4. NeedAt(cache, r) = input_len[r] + max_output_len[r]
  <2> DEFINE f == [q \in Req |-> HasRun(o, q) + LeftOut(o, r)]
  <2>1. LeftOut(o, r) \in Nat
    BY <1>1, <1>2
  <2>2. f[r] = input_len[r] + max_output_len[r] /\ f[r] \in Nat
    BY <1>1, <1>2
  <2>3. Alive(o, {r}, LeftOut(o, r)) = {r}
    BY <2>1 DEF Alive
  <2> HIDE DEF f, o, cache
  <2>4. SumOver(f, {r}) = f[r]
    BY <2>2, SumSingle
  <2>5. Peak(o, {r}, LeftOut(o, r)) = SumOver(f, {r})
    BY <2>3 DEF Peak, f
  <2>6. NeedAt(cache, r) = Peak(o, {r}, LeftOut(o, r))
    BY <1>1, <1>3, <2>1, NeedIsPeak
  <2>7. QED
    BY <2>2, <2>4, <2>5, <2>6
<1>5. NeedMaxTokenNum(cache) = input_len[r] + max_output_len[r]
  <2>1. DOMAIN cache = {r}
    BY <1>3 DEF IsCacheOf
  <2> DEFINE N == {NeedAt(cache, e) : e \in DOMAIN cache}
  <2>2. N = {input_len[r] + max_output_len[r]}
    BY <1>4, <2>1
  <2>3. N \in SUBSET Nat /\ IsFiniteSet(N) /\ N # {}
    <3> DEFINE n == input_len[r] + max_output_len[r]
    <3>1. n \in Nat
      BY <1>1
    <3>2. N = {n}
      BY <2>2
    <3> HIDE DEF N, n
    <3>3. QED
      BY <3>1, <3>2, FS_Singleton
  <2>4. Max(N) \in N
    <3> HIDE DEF N
    <3>1. QED
      BY <2>3, GreatestNumber
  <2>5. QED
    BY <2>2, <2>4 DEF NeedMaxTokenNum
<1>6. AdapterSize({r}) = 4 * lora_rank[adapter_dir[r]]
  <2>1. AdaptersOf({r}) = {adapter_dir[r]} /\ adapter_dir[r] \in AdaptersOf(Req)
    BY DEF AdaptersOf
  <2>2. adapterCells[adapter_dir[r]] = 4 * lora_rank[adapter_dir[r]]
    BY <2>1 DEF adapterCells
  <2>3. adapterCells[adapter_dir[r]] \in Nat
    BY <2>1, DirsFinite
  <2>4. SumOver(adapterCells, {adapter_dir[r]}) = adapterCells[adapter_dir[r]]
    BY <2>3, SumSingle
  <2>5. AdapterSize({r}) = SumOver(adapterCells, AdaptersOf({r}))
    BY AdapterSizeIsSum
  <2>6. QED
    BY <2>1, <2>2, <2>4, <2>5
<1>7. CanAddNewReq({}, {}, r, outputs)
  <2>1. {} \cup {} \cup {r} = {r} /\ {} \cup {r} = {r}
    OBVIOUS
  <2>2. NeedMaxTokenNum(cache) + AdapterSize({r}) < max_total_tokens
    BY <1>1, <1>5, <1>6 DEF EveryoneFits
  <2>3. Cardinality({r}) <= running_max_req_size
    BY FS_Singleton, LimitAssumption DEF EveryoneFits
  <2>4. QED
    BY <2>1, <2>2, <2>3 DEF CanAddNewReq
<1>8. InputTokens({r}) <= batch_max_tokens
  <2>1. InputTokens({r}) = SumOver(input_len, {r})
    BY DEF InputTokens, SumOver
  <2>2. SumOver(input_len, {r}) = input_len[r]
    BY <1>1, SumSingle
  <2>3. input_len[r] <= max_req_input_len
    BY RequestAssumption DEF HttpAccepts
  <2>4. QED
    BY <1>1, <2>1, <2>2, <2>3, LimitAssumption
<1>9. mini \cup {r} = {r}
  OBVIOUS
<1>10. QED
  BY <1>7, <1>8, <1>9 DEF Fits

(* An idle router that looks at the queue finds a batch in it unless it is *)
(* empty, provided each request fits in the pool beside its own adapter.   *)
THEOREM LookFinds == ASSUME EveryoneFits PROVE Spec => LookFindsWork
<1>1. Init => OrderOK
  BY DEF Init, QueueInit, OrderOK, ClientsInQueue
<1>2. TypeOK /\ QueueOK /\ OrderOK /\ [Next]_vars
        => [pc = "admit" /\ pc' = "sleep" => ClientsInQueue = {}]_vars
  <2> SUFFICES ASSUME TypeOK, QueueOK, OrderOK, [Next]_vars,
                      pc = "admit", pc' = "sleep", ClientsInQueue # {}
               PROVE  FALSE
    OBVIOUS
  <2>1. NothingAdmitted
    BY DEF Next, Netio, Forward, AddReq, ReceiveReq, Abort, ReceiveAbort, Wake, DecodeStep, StartAdmission, StartDecode,
           Admit, DropAborted, StartPrefill, FinishFirstPrefill, FinishMiniPrefill,
           FinishDecode, PrefillCleanedUp, Merge, Charge, DecodeCleanedUp, routerVars, vars
  <2>2. AdmissionOver /\ running = {} /\ mini = {}
    BY <2>1 DEF NothingAdmitted, StartDecode
  <2>3. PICK k \in Client : IsNext(k)
    BY SomebodyIsNext
  <2>4. k \in ClientsInQueue /\ ~Fits(Earliest(k))
    BY <2>2, <2>3 DEF AdmissionOver, IsNext
  <2>5. Earliest(k) \in Req
    BY <2>4, WaitingHeadTail DEF ClientsInQueue
  <2>6. QED
    BY <2>2, <2>4, <2>5, IdleAdmits
<1>3. QED
  BY <1>1, <1>2, StepKeepsOrder, TypeCorrect, BatchesCorrect, PTL DEF Spec, LookFindsWork
=============================================================================
