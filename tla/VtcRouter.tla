------------------------------ MODULE VtcRouter ------------------------------
(***************************************************************************)
(* The router process under the fair scheduler: RouterManager of           *)
(* router/manager.py over the queue of module FairQueue.                   *)
(*                                                                         *)
(* Two coroutines share one event loop: loop_for_fwd builds batches and    *)
(* runs them on the model, loop_for_netio_req receives requests and        *)
(* aborts.  A coroutine is interrupted only where it awaits, so pc names   *)
(* the awaits of loop_for_fwd (AwaitPoints), between which it runs alone,  *)
(* plus the points inside a step where a loop of the code is unrolled into *)
(* one action per iteration and nothing else may run.                      *)
(***************************************************************************)
EXTENDS FairQueue

CONSTANT max_wait_tokens   (* 10 in the code, smaller in the runs           *)

ASSUME WaitAssumption == max_wait_tokens \in Nat

VARIABLES
  pc,         (* where loop_for_fwd is                                      *)
  running,    (* running_batch.reqs; {} also when running_batch is None     *)
  mini,       (* the batch being built or prefilled and not yet running     *)
  uncharged,  (* requests update_counter has yet to visit                   *)
  outputs,    (* len(req.output_ids)                                        *)
  aborted,    (* requests with req.aborted set                              *)
  has_wait,   (* has_wait_tokens                                            *)
  arrived,    (* requests add_req was called with                           *)
  finished,   (* requests reported to detokenization as finished            *)
  forwarded   (* requests whose AbortReq was sent on to detokenization      *)

routerVars == <<pc, running, mini, uncharged, outputs, aborted, has_wait,
                arrived, finished, forwarded>>
vars == <<queueVars, routerVars>>

(* What loop_for_fwd may be awaiting: the sleep of an idle router, the     *)
(* model (load_adapters, init_batch and prefill_batch in one; decode), the *)
(* removal of finished requests from the model's batch and adapters        *)
(* (_handle_finish_req, _filter_runing_batch), and merge_batch.            *)
AwaitPoints == {"sleep", "prefill", "prefillCleanup", "merge",
                "decode", "decodeCleanup"}

Init ==
  /\ QueueInit
  /\ pc = "top"
  /\ running = {}
  /\ mini = {}
  /\ uncharged = {}
  /\ outputs = [r \in Req |-> 0]
  /\ aborted = {}
  /\ has_wait = 0
  /\ arrived = {}
  /\ finished = {}
  /\ forwarded = {}

-----------------------------------------------------------------------------
(* loop_for_netio_req.                                                     *)

ReceiveReq(r) ==
  /\ r \notin arrived
  /\ AppendReq(r)
  /\ arrived' = arrived \cup {r}
  /\ UNCHANGED <<pc, running, mini, uncharged, outputs, aborted, has_wait,
                 finished, forwarded>>

(* abort looks at the running batch and at the queue, and the AbortReq is  *)
(* sent on whether or not it found the request there.  The HTTP server     *)
(* sends an abort after the request itself, on the same socket.            *)
ReceiveAbort(r) ==
  /\ r \in arrived \ forwarded
  /\ aborted' = aborted \cup ({r} \cap (running \cup WaitingReqs))
  /\ forwarded' = forwarded \cup {r}
  /\ UNCHANGED <<queueVars, pc, running, mini, uncharged, outputs, has_wait,
                 arrived, finished>>

(* Both only while loop_for_fwd awaits something.                          *)
AddReq(r) == pc \in AwaitPoints /\ ReceiveReq(r)
Abort(r) == pc \in AwaitPoints /\ ReceiveAbort(r)

-----------------------------------------------------------------------------
(* loop_for_fwd and _step.                                                 *)

(* The sleep of 10 ms is over.                                             *)
Wake ==
  /\ pc = "sleep"
  /\ pc' = "top"
  /\ UNCHANGED <<queueVars, running, mini, uncharged, outputs, aborted,
                 has_wait, arrived, finished, forwarded>>

(* _decode_batch up to its first await starts with update_counter.         *)
StartDecode(wait) ==
  /\ pc' = "charge"
  /\ uncharged' = running
  /\ has_wait' = wait
  /\ UNCHANGED <<queueVars, running, mini, outputs, aborted, arrived,
                 finished, forwarded>>

(* Mutation of DecodeStep: the forced decode counts too.                   *)
DecodeStepAlwaysCounts ==
  /\ pc = "top"
  /\ running # {}
  /\ \/ has_wait < max_wait_tokens
     \/ Cardinality(running) >= running_max_req_size
  /\ StartDecode(has_wait + 1)

(* Too early to admit (has_wait_tokens is incremented when the step ends   *)
(* and not read before), or no room for another request.                   *)
DecodeStep ==
  /\ pc = "top"
  /\ running # {}
  /\ \/ has_wait < max_wait_tokens /\ StartDecode(has_wait + 1)
     \/ /\ has_wait >= max_wait_tokens
        /\ Cardinality(running) >= running_max_req_size
        /\ StartDecode(has_wait)

(* generate_new_batch is entered.                                          *)
StartAdmission ==
  /\ pc = "top"
  /\ running # {} => /\ has_wait >= max_wait_tokens
                     /\ Cardinality(running) < running_max_req_size
  /\ pc' = "admit"
  /\ UNCHANGED <<queueVars, running, mini, uncharged, outputs, aborted,
                 has_wait, arrived, finished, forwarded>>

Fits(r) ==
  /\ CanAddNewReq(running, mini, r, outputs)
  /\ InputTokens(mini \cup {r}) <= batch_max_tokens

(* One iteration of generate_new_batch that takes a request,               *)
Admit(k) ==
  /\ pc = "admit"
  /\ IsNext(k)
  /\ Earliest(k) \notin aborted
  /\ Fits(Earliest(k))
  /\ TakeEarliest(k)
  /\ mini' = mini \cup {Earliest(k)}
  /\ UNCHANGED <<pc, running, uncharged, outputs, aborted, has_wait, arrived,
                 finished, forwarded>>

(* one that drops an aborted request,                                      *)
DropAborted(k) ==
  /\ pc = "admit"
  /\ IsNext(k)
  /\ Earliest(k) \in aborted
  /\ RemoveEarliest(k)
  /\ UNCHANGED <<counters, routerVars>>

(* Mutation of AdmissionOver: an aborted request ends the loop.            *)
StopsAtAborted ==
  /\ pc = "admit"
  /\ \A k \in ClientsInQueue :
       IsNext(k) => Earliest(k) \in aborted \/ ~Fits(Earliest(k))

(* and the exit from its loop.                                             *)
AdmissionOver ==
  /\ pc = "admit"
  /\ \A k \in ClientsInQueue :
       IsNext(k) => Earliest(k) \notin aborted /\ ~Fits(Earliest(k))

(* No batch: an idle router sleeps, a busy one decodes.                    *)
NothingAdmitted ==
  /\ AdmissionOver
  /\ mini = {}
  /\ \/ /\ running = {}
        /\ pc' = "sleep"
        /\ UNCHANGED <<queueVars, running, mini, uncharged, outputs, aborted,
                       has_wait, arrived, finished, forwarded>>
     \/ running # {} /\ StartDecode(has_wait)

(* A batch: it becomes the running batch of an idle router, and stays      *)
(* apart from the running batch of a busy one until it is merged.          *)
StartPrefill ==
  /\ AdmissionOver
  /\ mini # {}
  /\ pc' = "prefill"
  /\ IF running = {}
       THEN running' = mini /\ mini' = {}
       ELSE UNCHANGED <<running, mini>>
  /\ UNCHANGED <<queueVars, uncharged, outputs, aborted, has_wait, arrived,
                 finished, forwarded>>

-----------------------------------------------------------------------------
(* What follows the model's answer, common to prefill and decode: every    *)
(* request of the batch gets a token, those that must or happen to finish  *)
(* are marked, reported and filtered out.                                  *)

(* Mutation of MayFinish: req.aborted is not looked at.                    *)
IgnoresAborted(batch) ==
  {F \in SUBSET batch :
     \A r \in batch : outputs[r] + 1 >= max_output_len[r] => r \in F}

(* mark_finished_req: the length limit and an abort always finish a        *)
(* request; a stop sequence or the end token may.                          *)
MayFinish(batch) ==
  {F \in SUBSET batch :
     \A r \in batch : outputs[r] + 1 >= max_output_len[r] \/ r \in aborted
                        => r \in F}

GiveTokens(batch, F) ==
  /\ outputs' = [r \in Req |-> IF r \in batch THEN outputs[r] + 1 ELSE outputs[r]]
  /\ finished' = finished \cup F
  /\ UNCHANGED <<queueVars, uncharged, aborted, arrived, forwarded>>

(* Where loop_for_fwd goes when _step returns with batch as running_batch. *)
AfterStep(batch) == IF batch = {} THEN "sleep" ELSE "top"

(* The first batch of an idle router was prefilled.                        *)
FinishFirstPrefill(F) ==
  /\ pc = "prefill"
  /\ mini = {}
  /\ F \in MayFinish(running)
  /\ GiveTokens(running, F)
  /\ running' = running \ F
  /\ pc' = IF F = {} THEN "top" ELSE "prefillCleanup"
  /\ has_wait' = IF F = {} THEN 0 ELSE has_wait
  /\ UNCHANGED mini

(* A mini batch was prefilled.                                             *)
FinishMiniPrefill(F) ==
  /\ pc = "prefill"
  /\ mini # {}
  /\ F \in MayFinish(mini)
  /\ GiveTokens(mini, F)
  /\ mini' = mini \ F
  /\ pc' = IF F = {} THEN "merge" ELSE "prefillCleanup"
  /\ UNCHANGED <<running, has_wait>>

(* The model has dropped the requests that finished at prefill.            *)
PrefillCleanedUp ==
  /\ pc = "prefillCleanup"
  /\ IF mini # {}
       THEN pc' = "merge" /\ UNCHANGED has_wait
       ELSE pc' = AfterStep(running) /\ has_wait' = 0
  /\ UNCHANGED <<queueVars, running, mini, uncharged, outputs, aborted,
                 arrived, finished, forwarded>>

(* Mutation of Merge: the new requests replace the running ones.           *)
MergeReplaces ==
  /\ pc = "merge"
  /\ running' = mini
  /\ mini' = {}
  /\ has_wait' = 0
  /\ pc' = "top"
  /\ UNCHANGED <<queueVars, uncharged, outputs, aborted, arrived, finished,
                 forwarded>>

(* The model has merged the mini batch; so does the router.                *)
Merge ==
  /\ pc = "merge"
  /\ running' = running \cup mini
  /\ mini' = {}
  /\ has_wait' = 0
  /\ pc' = "top"
  /\ UNCHANGED <<queueVars, uncharged, outputs, aborted, arrived, finished,
                 forwarded>>

(* One request's charge in update_counter; decode_batch is awaited after   *)
(* the last one.  The linear definition charges a client for all its       *)
(* requests at once, which is the same sum.                                *)
Charge(r) ==
  /\ pc = "charge"
  /\ r \in uncharged
  /\ ChargeDecode(r, outputs[r])
  /\ uncharged' = uncharged \ {r}
  /\ pc' = IF uncharged' = {} THEN "decode" ELSE "charge"
  /\ UNCHANGED <<running, mini, outputs, aborted, has_wait, arrived, finished,
                 forwarded>>

FinishDecode(F) ==
  /\ pc = "decode"
  /\ F \in MayFinish(running)
  /\ GiveTokens(running, F)
  /\ running' = running \ F
  /\ pc' = IF F = {} THEN "top" ELSE "decodeCleanup"
  /\ UNCHANGED <<mini, has_wait>>

DecodeCleanedUp ==
  /\ pc = "decodeCleanup"
  /\ pc' = AfterStep(running)
  /\ UNCHANGED <<queueVars, running, mini, uncharged, outputs, aborted,
                 has_wait, arrived, finished, forwarded>>

-----------------------------------------------------------------------------
Netio == \E r \in Req : AddReq(r) \/ Abort(r)

Forward ==
  \/ Wake
  \/ DecodeStep
  \/ StartAdmission
  \/ \E k \in Client : Admit(k) \/ DropAborted(k)
  \/ NothingAdmitted
  \/ StartPrefill
  \/ \E F \in SUBSET running : FinishFirstPrefill(F) \/ FinishDecode(F)
  \/ \E F \in SUBSET mini : FinishMiniPrefill(F)
  \/ PrefillCleanedUp
  \/ Merge
  \/ \E r \in Req : Charge(r)
  \/ DecodeCleanedUp

Next == Netio \/ Forward

Spec == Init /\ [][Next]_vars

(* The event loop runs loop_for_fwd again after every await, and the model *)
(* answers: nothing cancels the coroutine while the server is up.          *)
FairSpec == Spec /\ WF_vars(Forward)

-----------------------------------------------------------------------------
(* Properties.                                                             *)

TypeOK ==
  /\ counters \in [Client -> Nat]
  /\ queued \in [Client -> Seq(Req)]
  /\ older \in SUBSET (Client \X Client)
  /\ lastLeft \in Client \cup {NoClient}
  /\ pc \in AwaitPoints \cup {"top", "admit", "charge"}
  /\ running \in SUBSET Req
  /\ mini \in SUBSET Req
  /\ uncharged \in SUBSET Req
  /\ outputs \in [Req -> Nat]
  /\ aborted \in SUBSET Req
  /\ has_wait \in 0..max_wait_tokens
  /\ arrived \in SUBSET Req
  /\ finished \in SUBSET Req
  /\ forwarded \in SUBSET Req

(* The batches never share a request with each other, with the report of   *)
(* finished requests or with the queue, and together respect the limit on  *)
(* requests in service; a mini batch exists only while it is being built,  *)
(* prefilled and merged, and update_counter is finished before decoding.   *)
BatchesOK ==
  /\ running \cap mini = {}
  /\ (running \cup mini) \cap finished = {}
  /\ running \cup mini \cup finished \subseteq arrived
  /\ uncharged \subseteq running
  /\ Cardinality(running \cup mini) <= running_max_req_size
  /\ mini # {} => pc \in {"admit", "prefill", "prefillCleanup", "merge"}
  /\ uncharged # {} => pc = "charge"

(* A waiting request waits once, in its own client's queue, untouched by   *)
(* the model.                                                              *)
WaitsOnceIn(c, i) ==
  LET r == queued[c][i]
  IN  /\ adapter_dir[r] = c
      /\ r \in arrived
      /\ r \notin running \cup mini \cup finished
      /\ outputs[r] = 0
      /\ \A j \in 1..Len(queued[c]) : queued[c][j] = r => j = i
QueueOK ==
  /\ \A c \in Client : \A i \in 1..Len(queued[c]) : WaitsOnceIn(c, i)
  /\ \A r \in Req \ arrived : outputs[r] = 0

(* The positions at which r waits.                                         *)
Positions(r) == {p \in Client \X (1..Cardinality(Req)) :
                   p[2] <= Len(queued[p[1]]) /\ queued[p[1]][p[2]] = r}

(* No request is lost, duplicated or answered twice on its way through the *)
(* queue, the batch being built, the running batch and the report to       *)
(* detokenization: one that arrived is in exactly one of them, unless it   *)
(* was aborted and dropped; the lists the code rebuilds at push_request,   *)
(* remove_request, merge and filter_finished keep it so.                   *)
NoRequestLost ==
  \A r \in arrived :
    LET places == Cardinality(Positions(r))
                    + Cardinality({S \in {<<1, running>>, <<2, mini>>, <<3, finished>>} :
                                     r \in S[2]})
    IN  places = 1 \/ (places = 0 /\ r \in aborted)

(* The admission estimate is safe over time, not only when it is made: at  *)
(* every later step, with whatever batches were merged and whichever       *)
(* requests finished since, the key-value cells of the batch (one per      *)
(* prompt token and per token generated, with the one being generated) and *)
(* the adapters of its requests fit in the pool, and the batch has at most *)
(* running_max_req_size requests.  MemoryAllocator.alloc raises otherwise. *)
BatchFits ==
  LET batch == running \cup mini
  IN  /\ TokensHeld(batch, outputs) + AdapterSize(batch) < max_total_tokens
      /\ Cardinality(batch) <= running_max_req_size

(* An abort that found its request stops it: an aborted request is never   *)
(* put in a batch, and gets at most one more token (the one whose decode   *)
(* was under way), after which it is reported and gone.                    *)
AbortedStops ==
  [][\A r \in aborted : /\ r \in mini' => r \in mini
                        /\ outputs'[r] # outputs[r] => r \in finished']_vars

(* What api_server.py says of an abort ("Abort the request if the client   *)
(* disconnects.", lines 110 and 173), of every abort the router handled:   *)
(* the request gets at most one more token.                                *)
AbortHonoured ==
  [][\A r \in forwarded : outputs'[r] # outputs[r] => r \in finished']_vars

(* A look at the queue is never fruitless while somebody waits: an idle    *)
(* router that calls generate_new_batch gets a batch unless the queue is   *)
(* empty, whichever client is next, whatever was aborted meanwhile and     *)
(* whatever the counters say.  So it never sleeps twice in a row with      *)
(* somebody waiting (loop_for_fwd looks again after each sleep of 10 ms).  *)
LookFindsWork ==
  [][pc = "admit" /\ pc' = "sleep" => ClientsInQueue = {}]_vars

(* What README, line 9, says of the scheduler ("ensures fairness without   *)
(* artificially causing under-utilization"): the machine never idles while *)
(* some client has a request waiting.                                      *)
WorkConserving ==
  [][pc # "sleep" /\ pc' = "sleep" => ClientsInQueue = {}]_vars

(* A request that the pool could hold on its own (all of them, when no     *)
(* adapter is so large that an accepted request does not fit beside it).   *)
FitsAlone(r) == CanAddNewReq({}, {}, r, outputs)

(* No client is starved (README, "To ensure that no client is starved"):   *)
(* every request the pool could hold is eventually answered or aborted,    *)
(* whoever else is waiting.                                                *)
EveryRequestServed ==
  \A r \in Req : FitsAlone(r) /\ r \in arrived ~> r \in finished \cup aborted
=============================================================================
