-------------------------- MODULE FairnessMetrics --------------------------
(***************************************************************************)
(* The measuring side of the fair scheduler: class FairnessMetrics, which  *)
(* RouterManager feeds while it runs batches (scheduler "vtc_fair", the    *)
(* linear cost, is the only one it is built for).  The event lists are     *)
(* kept as their sums, since every figure below covers the time from the   *)
(* start of the server on.  loop_for_fwd dumps them to a file, by way of a *)
(* temporary one, before it sleeps and every 100th time _step returns with *)
(* a running batch.  The process may be killed at any time.                *)
(***************************************************************************)
EXTENDS VtcRouter

CONSTANT save_every   (* 100 in the code, smaller in the runs               *)

ASSUME SaveAssumption == save_every \in Nat \ {0}

VARIABLES
  prompt_tokens,  (* sum of _prompt_events per client                       *)
  decode_tokens,  (* sum of _decode_events per client                       *)
  lifts,          (* history: what AppendReq has added to each counter      *)
  counter_count,  (* iterations of loop_for_fwd, modulo save_every          *)
  dump,           (* the figures in the file at metrics_dump_path           *)
  saved,          (* history: len(output_ids) of each request when the file *)
                  (* was last replaced                                      *)
  tmp_file,       (* the temporary file exists                              *)
  loop            (* loop_for_fwd "runs", is in save_events ("saves"), has  *)
                  (* "ended" with an exception, or the process was "killed" *)

figureVars == <<prompt_tokens, decode_tokens, lifts>>
dumpVars == <<counter_count, dump, saved, tmp_file, loop>>
metricsVars == <<vars, figureVars, dumpVars>>

Figures == [prompt |-> prompt_tokens, decode |-> decode_tokens]
Zero == [c \in Client |-> 0]

MetricsInit ==
  /\ Init
  /\ prompt_tokens = Zero
  /\ decode_tokens = Zero
  /\ lifts = Zero
  /\ counter_count = 0
  /\ dump = [prompt |-> Zero, decode |-> Zero]
  /\ saved = [r \in Req |-> 0]
  /\ tmp_file = FALSE
  /\ loop = "runs"

OfClient(c, reqs) == {r \in reqs : adapter_dir[r] = c}

(* The loops over batch.reqs in _prefill_batch and _decode_batch run before *)
(* finished requests are filtered out of the batch.                        *)
RecordPromptService(batch) ==
  /\ prompt_tokens' = [c \in Client |->
                         prompt_tokens[c] + InputTokens(OfClient(c, batch))]
  /\ UNCHANGED <<decode_tokens, lifts>>

(* Mutation of RecordDecodeService: after the filter instead of before.    *)
RecordUnfinished(batch) ==
  /\ decode_tokens' = [c \in Client |->
                         decode_tokens[c] + Cardinality(OfClient(c, batch \ finished'))]
  /\ UNCHANGED <<prompt_tokens, lifts>>

RecordDecodeService(batch) ==
  /\ decode_tokens' = [c \in Client |->
                         decode_tokens[c] + Cardinality(OfClient(c, batch))]
  /\ UNCHANGED <<prompt_tokens, lifts>>

RecordLift ==
  /\ lifts' = [c \in Client |-> lifts[c] + (counters'[c] - counters[c])]
  /\ UNCHANGED <<prompt_tokens, decode_tokens>>

(* _step has returned and loop_for_fwd counts one more iteration.          *)
StepReturns == pc # "sleep" /\ pc' \in {"top", "sleep"}
Iterations ==
  IF ~StepReturns THEN counter_count
    ELSE IF counter_count + 1 = save_every THEN 0 ELSE counter_count + 1

(* Mutation of Saves: without a running batch only, not every save_every   *)
(* iterations.                                                             *)
SavesIdle == StepReturns /\ pc' = "sleep"

(* save_events is called: before every sleep, and after every save_every   *)
(* iterations with a batch running (without one the loop sleeps).          *)
Saves == StepReturns /\ (pc' = "sleep" \/ Iterations = 0)

(* A step of loop_for_fwd, up to the call of save_events if there is one.  *)
MetricsForward ==
  /\ loop = "runs"
  /\ \/ \E F \in SUBSET running : FinishFirstPrefill(F) /\ RecordPromptService(running)
     \/ \E F \in SUBSET mini : FinishMiniPrefill(F) /\ RecordPromptService(mini)
     \/ \E F \in SUBSET running : FinishDecode(F) /\ RecordDecodeService(running)
     \/ /\ \/ \E r \in Req : Charge(r)
           \/ \E k \in Client : Admit(k) \/ DropAborted(k)
           \/ Wake \/ DecodeStep \/ StartAdmission \/ NothingAdmitted
           \/ StartPrefill \/ PrefillCleanedUp \/ Merge \/ DecodeCleanedUp
        /\ UNCHANGED figureVars
  /\ counter_count' = Iterations
  /\ loop' = IF Saves THEN "saves" ELSE "runs"
  /\ UNCHANGED <<dump, saved, tmp_file>>

(* save_events: a temporary file is made and written, then renamed over    *)
(* the old one; when writing fails it is removed and the exception leaves  *)
(* loop_for_fwd, which nothing restarts.  Nothing in it awaits.            *)
CreateTmp ==
  /\ loop = "saves"
  /\ ~tmp_file
  /\ tmp_file' = TRUE
  /\ UNCHANGED <<vars, figureVars, counter_count, dump, saved, loop>>

ReplaceFile ==
  /\ loop = "saves"
  /\ tmp_file
  /\ dump' = Figures
  /\ saved' = outputs
  /\ tmp_file' = FALSE
  /\ loop' = "runs"
  /\ UNCHANGED <<vars, figureVars, counter_count>>

SaveFails ==
  /\ loop = "saves"
  /\ tmp_file
  /\ tmp_file' = FALSE
  /\ loop' = "ended"
  /\ UNCHANGED <<vars, figureVars, counter_count, dump, saved>>

Kill ==
  /\ loop # "killed"
  /\ loop' = "killed"
  /\ UNCHANGED <<vars, figureVars, counter_count, dump, saved, tmp_file>>

(* loop_for_netio_req receives while loop_for_fwd awaits something, and    *)
(* whatever it last did when it has ended.                                 *)
MetricsNetio ==
  /\ \E r \in Req :
       \/ loop = "runs"  /\ AddReq(r)       /\ RecordLift
       \/ loop = "ended" /\ ReceiveReq(r)   /\ RecordLift
       \/ loop = "runs"  /\ Abort(r)        /\ UNCHANGED figureVars
       \/ loop = "ended" /\ ReceiveAbort(r) /\ UNCHANGED figureVars
  /\ UNCHANGED dumpVars

MetricsLoop == MetricsForward \/ CreateTmp \/ ReplaceFile \/ SaveFails

MetricsNext == MetricsLoop \/ MetricsNetio \/ Kill

(* As for VtcRouter: the event loop goes on and the model answers.         *)
MetricsSpec ==
  MetricsInit /\ [][MetricsNext]_metricsVars /\ WF_metricsVars(MetricsLoop)

-----------------------------------------------------------------------------
(* _service_in_range from the start on.                                    *)
Service(c) == w_p_input * prompt_tokens[c] + w_q_output * decode_tokens[c]

(* What update_counter and generate_new_batch have charged and the model   *)
(* has not yet answered.                                                   *)
InFlight(c) ==
  LET prefilling == {r \in running \cup mini : outputs[r] = 0}
      decoding   == IF pc \in {"charge", "decode"} THEN running \ uncharged ELSE {}
  IN  w_p_input * InputTokens(OfClient(c, prefilling))
        + w_q_output * Cardinality(OfClient(c, decoding))

(* The two independent accounts of a client's service agree at every       *)
(* moment: its virtual counter is what was measured, plus what is on the   *)
(* model now, plus its lifts.  They are written in different functions, at *)
(* different awaits, over lists that are filtered in between.              *)
MetricsAgree ==
  \A c \in Client : counters[c] = lifts[c] + Service(c) + InFlight(c)

(* What the events amount to when each request has o[r] output tokens: the *)
(* prompts of those that have one, and the later tokens.                   *)
FiguresOf(o) ==
  LET begun(c) == OfClient(c, {r \in Req : o[r] # 0})
  IN  [prompt |-> [c \in Client |-> InputTokens(begun(c))],
       decode |-> [c \in Client |-> MapThenSumSet(LAMBDA r : o[r] - 1, begun(c))]]

(* The file always describes one moment, both lists together and every     *)
(* request of the batch to the same token, wherever in the loop or in      *)
(* save_events the process is killed; while the idle router sleeps that    *)
(* moment is the present.  And a kill never loses much: the file is behind *)
(* by at most save_every tokens of a request, with batches that drain,     *)
(* merge and sleep in between (an idle iteration counts too).              *)
DumpIsWhole ==
  /\ dump = FiguresOf(saved)
  /\ loop = "runs" /\ pc = "sleep" => saved = outputs
  /\ \A r \in Req : saved[r] <= outputs[r] /\ outputs[r] <= saved[r] + save_every

(* No client is starved (README, "To ensure that no client is starved"):   *)
(* every request the pool could hold is eventually answered or aborted, as *)
(* long as the loop goes on; the dumps that succeed do not stop it.        *)
ServedWhileUp ==
  \A r \in Req :
    FitsAlone(r) /\ r \in arrived
      ~> r \in finished \cup aborted \/ loop \in {"ended", "killed"}

(* The same of a server that is up, that is, whose process was not killed: *)
(* what README promises says nothing of a figure file.  save_events raises *)
(* out of loop_for_fwd, a task nobody waits for, while loop_for_netio_req  *)
(* goes on taking requests.                                                *)
ServedUnlessKilled ==
  \A r \in Req :
    FitsAlone(r) /\ r \in arrived
      ~> r \in finished \cup aborted \/ loop = "killed"
=============================================================================
