----------------------------- MODULE ListRouter -----------------------------
(***************************************************************************)
(* RouterManager over the schedulers of module ListQueues: batches,        *)
(* aborts, time-outs and the merging of an adapter into the base model's   *)
(* weights.  As in VtcRouter pc names what loop_for_fwd awaits; several    *)
(* awaits in a row, between which only the model's side changes, are one   *)
(* ("prefill": load_adapters, merge_adapter, init_batch, prefill_batch;    *)
(* "settle": unmerging, offloading, filtering, removing and merging).      *)
(***************************************************************************)
EXTENDS ListQueues
LOCAL INSTANCE SequencesExt

CONSTANTS
  max_wait_tokens,   (* 10 in the code, smaller in the runs                 *)
  max_aborts         (* bound: how many requests are aborted by clients     *)

ASSUME WaitAssumption == max_wait_tokens \in Nat

VARIABLES
  pc,
  mini,       (* a new mini batch, until it is merged                       *)
  has_wait,   (* has_wait_tokens                                            *)
  finished,   (* requests reported as finished                              *)
  forwarded,  (* requests whose AbortReq was sent on to detokenization      *)
  refused,    (* requests reported in a BatchAbortReq                       *)
  merged      (* how often each adapter is in the base model's weights      *)

batchVars == <<running, mini, outputs, finished>>
vars == <<policy, listVars, batchVars, aborted, order, expired, pc, has_wait,
          forwarded, refused, merged>>

Awaits == {"sleep", "prefill", "settle", "decode"}

Init ==
  /\ policy \in Policies
  /\ ListInit
  /\ running = {} /\ mini = {} /\ finished = {}
  /\ outputs = [r \in Req |-> 0]
  /\ aborted = {} /\ forwarded = {} /\ refused = {}
  /\ order = <<>>
  /\ expired = 0
  /\ pc = "top"
  /\ has_wait = 0
  /\ merged = [c \in Client |-> 0]

-----------------------------------------------------------------------------
AddReq(r) ==
  /\ pc \in Awaits
  /\ r \notin ToSet(order)
  /\ AppendReq(r)
  /\ UNCHANGED <<policy, batchVars, aborted, expired, pc, has_wait, forwarded,
                 refused, merged>>

Abort(r) ==
  /\ pc \in Awaits
  /\ r \in ToSet(order) \ forwarded
  /\ Cardinality(forwarded) < max_aborts
  /\ aborted' = aborted \cup ({r} \cap (running \cup ToSet(waiting)))
  /\ forwarded' = forwarded \cup {r}
  /\ UNCHANGED <<policy, listVars, batchVars, order, expired, pc, has_wait,
                 refused, merged>>

(* The oldest request whose time was not up yet reaches 5.5 s.             *)
Expire ==
  /\ policy = "abort"
  /\ pc \in Awaits
  /\ expired < Len(order)
  /\ expired' = expired + 1
  /\ UNCHANGED <<policy, listVars, batchVars, aborted, order, pc, has_wait,
                 forwarded, refused, merged>>

-----------------------------------------------------------------------------
Wake ==
  /\ pc = "sleep"
  /\ pc' = "top"
  /\ UNCHANGED <<policy, listVars, batchVars, aborted, order, expired,
                 has_wait, forwarded, refused, merged>>

Full == Cardinality(running) >= running_max_req_size

(* Too early to admit, or no room for another request.                     *)
DecodeStep ==
  /\ pc = "top"
  /\ running # {}
  /\ has_wait < max_wait_tokens \/ Full
  /\ has_wait' = IF has_wait < max_wait_tokens THEN has_wait + 1 ELSE has_wait
  /\ pc' = "decode"
  /\ UNCHANGED <<policy, listVars, batchVars, aborted, order, expired,
                 forwarded, refused, merged>>

(* generate_new_batch, the report of what it gave up, and what _step does  *)
(* up to its next await.  merge_adapter is called for the first batch of   *)
(* an idle router only: a mini batch has the adapter of the running one.   *)
AdmitBatch(b) ==
  LET new == ToSet(b.taken)
  IN  /\ SetList(b)
      /\ refused' = refused \cup b.late
      /\ aborted' = aborted \cup b.late
      /\ running' = IF running = {} THEN new ELSE running
      /\ mini' = IF running = {} THEN {} ELSE new
      /\ pc' = IF new # {} THEN "prefill" ELSE IF running = {} THEN "sleep" ELSE "decode"
      /\ merged' = [c \in Client |->
                      IF policy = "peft" /\ running = {} /\ c \in Dirs(new)
                        THEN merged[c] + 1 ELSE merged[c]]
      /\ UNCHANGED <<policy, outputs, finished, order, expired, has_wait, forwarded>>

Admit ==
  /\ pc = "top"
  /\ running # {} => has_wait >= max_wait_tokens /\ ~Full
  /\ \E b \in {NewBatch} : AdmitBatch(b)

-----------------------------------------------------------------------------
(* mark_finished_req: the length limit and an abort finish a request, a    *)
(* stop sequence or the end token may.                                     *)
MayFinish(batch) ==
  {F \in SUBSET batch :
     \A r \in batch : outputs[r] + 1 >= max_output_len[r] \/ r \in aborted => r \in F}

(* Every request of the batch gets a token and those in F are filtered     *)
(* out; _handle_finish_req unmerges when nobody is left of the batch.      *)
Answer(batch, F) ==
  /\ F \in MayFinish(batch)
  /\ outputs' = [r \in Req |-> IF r \in batch THEN outputs[r] + 1 ELSE outputs[r]]
  /\ finished' = finished \cup F
  /\ merged' = [c \in Client |->
                  IF policy = "peft" /\ F = batch /\ c \in Dirs(batch)
                    THEN merged[c] - 1 ELSE merged[c]]
  /\ UNCHANGED <<policy, listVars, aborted, order, expired, forwarded, refused>>

FinishFirstPrefill(F) ==
  /\ pc = "prefill"
  /\ mini = {}
  /\ Answer(running, F)
  /\ running' = running \ F
  /\ has_wait' = 0
  /\ pc' = IF F = {} THEN "top" ELSE "settle"
  /\ UNCHANGED mini

FinishMiniPrefill(F) ==
  /\ pc = "prefill"
  /\ mini # {}
  /\ Answer(mini, F)
  /\ mini' = mini \ F
  /\ has_wait' = 0
  /\ pc' = "settle"
  /\ UNCHANGED running

FinishDecode(F) ==
  /\ pc = "decode"
  /\ Answer(running, F)
  /\ running' = running \ F
  /\ pc' = IF F = {} THEN "top" ELSE "settle"
  /\ UNCHANGED <<mini, has_wait>>

(* The model has done its part; a mini batch joins the running one.        *)
Settled ==
  /\ pc = "settle"
  /\ running' = running \cup mini
  /\ mini' = {}
  /\ pc' = IF running' = {} THEN "sleep" ELSE "top"
  /\ UNCHANGED <<policy, listVars, outputs, finished, aborted, order, expired,
                 has_wait, forwarded, refused, merged>>

-----------------------------------------------------------------------------
Forward ==
  \/ Wake
  \/ DecodeStep
  \/ Admit
  \/ \E F \in SUBSET running : FinishFirstPrefill(F) \/ FinishDecode(F)
  \/ \E F \in SUBSET mini : FinishMiniPrefill(F)
  \/ Settled

Next ==
  \/ \E r \in Req : AddReq(r) \/ Abort(r)
  \/ Expire
  \/ Forward

Spec == Init /\ [][Next]_vars

(* The event loop runs loop_for_fwd again after every await, and the model *)
(* answers.  Forward is enabled in every state, so that its weak fairness  *)
(* is that it happens again and again (and TLC is spared the evaluation of *)
(* ENABLED for generate_new_batch).                                        *)
FairSpec == Spec /\ []<><<Forward>>_vars

-----------------------------------------------------------------------------
(* Properties.                                                             *)

TypeOK ==
  /\ policy \in Policies
  /\ waiting \in Seq(Req) /\ order \in Seq(Req)
  /\ expired \in 0..Len(order)
  /\ req_time_stamp \in Seq(1..Cardinality(Req))
  /\ policy = "abort" => Len(req_time_stamp) = Len(waiting)
  /\ {apprx_req_rate, last_req_num} \subseteq Int /\ apprx_bs \in Nat \ {0}
  /\ pc \in Awaits \cup {"top"}
  /\ running \cup mini \cup finished \cup aborted \cup forwarded \cup refused
       \subseteq ToSet(order)
  /\ has_wait \in 0..max_wait_tokens
  /\ outputs \in [Req -> Nat] /\ merged \in [Client -> Int]

(* Whichever way a scheduler cuts its list (a slice by two counts, a       *)
(* filter by identity, by request id, in two rounds, or in parallel with   *)
(* another list), a request that arrived is in one place, once: waiting,   *)
(* in a batch, or finished; or it was aborted and dropped.                 *)
NoRequestLost ==
  \A r \in ToSet(order) :
    LET waits  == Cardinality({i \in DOMAIN waiting : waiting[i] = r})
        places == waits + Cardinality({k \in 1..3 : r \in <<running, mini, finished>>[k]})
    IN  places = 1 \/ (places = 0 /\ r \in aborted)

(* The pool holds every batch at every step, although ClusterReqQueue goes *)
(* on admitting after a refusal, with the refused request still in its     *)
(* cache list and about to be added to it again, and although requests of  *)
(* three prompts are taken in an order nobody fixed.                       *)
BatchFits ==
  LET batch == running \cup mini
  IN  /\ TokensHeld(batch, outputs) + AdapterSize(batch) < max_total_tokens
      /\ Cardinality(batch) <= running_max_req_size

(* AbortReqQueue gives up a request only when that request's own time is   *)
(* up, and judges each by its own time stamp: the list and the list of its *)
(* stamps, cut by separate comprehensions that read each other, stay       *)
(* aligned through admissions from either end, aborts and time-outs.       *)
OwnTimeStamp ==
  /\ refused \subseteq {order[i] : i \in 1..expired}
  /\ policy = "abort" =>
       \A i \in DOMAIN waiting : order[req_time_stamp[i]] = waiting[i]

(* An aborted request gets at most the token that was under way, and no    *)
(* scheduler puts it in a batch afterwards, from either end of its list.   *)
AbortedStops ==
  [][\A r \in aborted : /\ outputs'[r] # outputs[r] => r \in finished'
                        /\ r \in running' \cup mini' => r \in running \cup mini]_vars

(* All ways to cut 1..n, by the ends of their groups, and their latency.   *)
Splits(n) == {s \in SUBSET (1..n) : n = 0 \/ n \in s}
SplitCost(s, lat) ==
  LET start(j) == Max({i \in s : i < j} \cup {0}) + 1
  IN  IF \E j \in s : lat[start(j)][j] = Inf THEN Inf
      ELSE MapThenSumSet(LAMBDA j : lat[start(j)][j], s)

(* Each item of s is in one of the groups, and no other way to cut s into  *)
(* consecutive groups has a lower latency.                                 *)
EachInOne(s, groups) ==
  \A i \in DOMAIN s : Cardinality({g \in DOMAIN groups : s[i] \in ToSet(groups[g])}) = 1
LeastLatency(s, lat, groups) ==
  LET ends == {i \in DOMAIN s : \E g \in ToSet(groups) : Last(g) = s[i]}
  IN  \A other \in Splits(Len(s)) : ~Less(SplitCost(other, lat), SplitCost(ends, lat))

(* Neither dynamic program is beaten, and neither loses or repeats a       *)
(* request: not by another way to cut an adapter's requests into mini      *)
(* batches, nor by another way to cut these into macro batches.  What the  *)
(* cuts are compared by is the latency the tables predict, which is        *)
(* infinite for a batch size that was not measured.                        *)
PetsSplitsBest ==
  policy = "pets" =>
    LET minis  == IntraTaskBatching(waiting)
        sorted == SortedMinis(minis)
        macros == InterTaskBatching(minis)
    IN  /\ \A c \in Dirs(ToSet(waiting)) :
             LET q == Queries(waiting, c)
             IN  EachInOne(q, minis) /\ LeastLatency(q, QueryLatency(q, c), minis)
        /\ EachInOne(sorted, macros) /\ LeastLatency(sorted, MacroLatency(sorted), macros)

(* Two schedulers can be blocked by requests that were aborted while they  *)
(* waited: an aborted request leaves the list only when somebody is taken, *)
(* or never.  PEFTReqQueue looks for requests with the adapter of the      *)
(* first one; PETSReqQueue considers the shortest macro batch only.        *)
Blocked ==
  /\ running = {}
  /\ waiting # <<>>
  /\ \/ /\ policy = "peft"
        /\ \A i \in DOMAIN waiting :
             adapter_dir[waiting[i]] = adapter_dir[waiting[1]] => waiting[i] \in aborted
     \/ /\ policy = "pets"
        /\ ToSet(PetsReqs) \subseteq aborted

(* Under every scheduler each request is answered, refused or aborted      *)
(* sooner or later, whatever was aborted in front of it, unless one of the *)
(* two is blocked.                                                         *)
EveryRequestServed ==
  \A r \in Req : r \in ToSet(order) ~> r \in finished \cup aborted \/ Blocked

(* manager.py:233 and 364, "merge adapter to base model" and "unmerge      *)
(* adapter from base model": a decode step of a peft batch runs on weights *)
(* that hold its adapter once and no other.                                *)
MergedWhileRunning ==
  policy = "peft" /\ pc = "decode" =>
    \A c \in Client : merged[c] = IF c \in Dirs(running) THEN 1 ELSE 0
=============================================================================
