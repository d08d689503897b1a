------------------------------ MODULE Admission ------------------------------
(***************************************************************************)
(* The admission estimate of ReqQueue (req_queue.py), shared by every      *)
(* scheduler that inherits from it: would the batch still fit in the token *)
(* pool at its peak if one more request joined it?                         *)
(*                                                                         *)
(* The code keeps a list of pairs (tokens run so far, tokens left) sorted  *)
(* by decreasing tokens left.  The k-th pair contributes its left count    *)
(* times k plus the run counts of the first k pairs; equal left counts are *)
(* dominated by the last of them, so the k that matter are "how many pairs *)
(* have at least this much left", which needs no order.                    *)
(***************************************************************************)
EXTENDS Workload, FiniteSetsExt

(* A pair of cache_len_list: a request already generating that has n       *)
(* output tokens, and a request not started (_can_add_new_req).            *)
RunningEntry(r, n) == [has_run |-> input_len[r] + n,
                       left    |-> max_output_len[r] - n - 1]

(* Mutation of NewEntry: the first output token is not counted as run.     *)
NewEntryNoToken(r) == [has_run |-> input_len[r], left |-> max_output_len[r] - 1]

NewEntry(r) == [has_run |-> input_len[r] + 1, left |-> max_output_len[r] - 1]

(* cache_len_list as a function of the requests in it: current is the      *)
(* batch that runs, joining the requests taken so far and the candidate,   *)
(* outputs[r] the number of output tokens of r.                            *)
CacheLenList(current, joining, outputs) ==
  [r \in current \cup joining |->
     IF r \in current THEN RunningEntry(r, outputs[r]) ELSE NewEntry(r)]

(* Mutation of NeedAt: the tokens left are counted once, not per request.  *)
NeedAtOnce(cache, e) ==
  LET alive == {f \in DOMAIN cache : cache[f].left >= cache[e].left}
  IN  cache[e].left + MapThenSumSet(LAMBDA f : cache[f].has_run, alive)

(* Tokens needed when only the requests with at least e.left to go remain. *)
NeedAt(cache, e) ==
  LET alive == {f \in DOMAIN cache : cache[f].left >= cache[e].left}
  IN  cache[e].left * Cardinality(alive)
        + MapThenSumSet(LAMBDA f : cache[f].has_run, alive)

NeedMaxTokenNum(cache) == Max({NeedAt(cache, e) : e \in DOMAIN cache})

(* Cells that the adapters of a set of requests occupy: 4 per rank, each   *)
(* distinct adapter once (_init_cache_list).                               *)
AdapterSize(reqs) ==
  MapThenSumSet(LAMBDA c : 4 * lora_rank[c], {adapter_dir[r] : r \in reqs})

(* Mutation of CanAddNewReq: the candidate's own adapter is not added.     *)
CanAddWithoutItsAdapter(current, joining, r, outputs) ==
  LET all   == current \cup joining \cup {r}
      cache == CacheLenList(current, joining \cup {r}, outputs)
  IN  /\ NeedMaxTokenNum(cache) + AdapterSize(all \ {r}) < max_total_tokens
      /\ Cardinality(all) <= running_max_req_size

(* _can_add_new_req: the requests taken before this one are in joining.    *)
CanAddNewReq(current, joining, r, outputs) ==
  LET all   == current \cup joining \cup {r}
      cache == CacheLenList(current, joining \cup {r}, outputs)
  IN  /\ NeedMaxTokenNum(cache) + AdapterSize(all) < max_total_tokens
      /\ Cardinality(all) <= running_max_req_size

(* Cells the key-value cache of a batch occupies while its next token is   *)
(* computed: one per prompt token and one per output token.                *)
TokensHeld(reqs, outputs) ==
  MapThenSumSet(LAMBDA r : input_len[r] + outputs[r], reqs)

(* Batch.input_tokens, the running sum new_batch_total_tokens of           *)
(* generate_new_batch.                                                     *)
InputTokens(reqs) == MapThenSumSet(LAMBDA r : input_len[r], reqs)
=============================================================================
