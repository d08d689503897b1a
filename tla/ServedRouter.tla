---------------------------- MODULE ServedRouter ----------------------------
(***************************************************************************)
(* The router of VtcRouter and the model server it calls, in one process   *)
(* (--tp 1): what becomes of the cells while batches are prefilled,        *)
(* decoded, filtered and merged.  The router admits by an estimate and     *)
(* never asks the pool; an exception of alloc leaves the server's method   *)
(* and the router's _step, and ends the task of loop_for_fwd for good,     *)
(* while loop_for_netio_req goes on.                                       *)
(***************************************************************************)
EXTENDS VtcRouter, ModelServer

CONSTANT pool_size_lora   (* --pool-size-lora, cells beyond max_total_tokens *)

ASSUME PoolAssumption ==
  /\ pool_size_lora \in Nat
  /\ tot_size = max_total_tokens + pool_size_lora
  /\ Running # Mini

VARIABLE alive   (* loop_for_fwd has not ended with an exception            *)

servedVars == <<vars, serverVars, alive>>

ServedInit == Init /\ ServerInit /\ alive = TRUE

Dirs(reqs) == {adapter_dir[r] : r \in reqs}

Dies == alive' = FALSE /\ UNCHANGED serverVars

(* load_adapters for the batch that was admitted.                          *)
ServedStartPrefill ==
  /\ StartPrefill
  /\ \/ HasRoom(LoadSize(Dirs(mini))) /\ LoadAdapters(Dirs(mini)) /\ UNCHANGED alive
     \/ ~HasRoom(LoadSize(Dirs(mini))) /\ Dies

(* init_batch and prefill_batch, for the batch and under its id.           *)
Prefilled == IF mini = {} THEN running ELSE mini
PrefilledId == IF mini = {} THEN Running ELSE Mini

ServedPrefill ==
  /\ \/ \E F \in SUBSET running : FinishFirstPrefill(F)
     \/ \E F \in SUBSET mini : FinishMiniPrefill(F)
  /\ HasRoom(PromptSize(Prefilled))
  /\ PrefillBatch(PrefilledId, Prefilled)
  /\ UNCHANGED alive

PrefillFails ==
  /\ pc = "prefill"
  /\ ~HasRoom(PromptSize(Prefilled))
  /\ Dies
  /\ UNCHANGED vars

(* Mutation of ServedPrefillCleanup: adapters are offloaded here too.      *)
OffloadsAtPrefill ==
  /\ PrefillCleanedUp
  /\ IF Mini \in DOMAIN cache
       THEN Release(Mini, mini, KeptAdapters(Dirs(mini)))
       ELSE Release(Running, running, KeptAdapters(Dirs(running)))
  /\ UNCHANGED alive

(* After a prefill the finished requests leave the batch; their adapters   *)
(* stay (_prefill_batch passes minibatch=True), unless that was the first  *)
(* batch of an idle router and nothing of it is left.                      *)
ServedPrefillCleanup ==
  /\ PrefillCleanedUp
  /\ IF Mini \in DOMAIN cache
       THEN Release(Mini, mini, DOMAIN a_loc)
       ELSE Release(Running, running, IF running = {} THEN {} ELSE DOMAIN a_loc)
  /\ UNCHANGED alive

ServedMerge ==
  /\ Merge
  /\ MergeBatch(Running, Mini)
  /\ UNCHANGED alive

ServedDecode ==
  /\ \E F \in SUBSET running : FinishDecode(F)
  /\ HasRoom(Cardinality(running))
  /\ DecodeBatch(Running)
  /\ UNCHANGED alive

(* forward has taken the batch out of the cache and does not put it back.  *)
DecodeFails ==
  /\ pc = "decode"
  /\ ~HasRoom(Cardinality(running))
  /\ alive' = FALSE
  /\ cache' = [id \in DOMAIN cache \ {Running} |-> cache[id]]
  /\ UNCHANGED <<vars, poolVars, a_loc>>

(* After a decode the adapters nobody in the batch uses leave too.         *)
ServedDecodeCleanup ==
  /\ DecodeCleanedUp
  /\ Release(Running, running, KeptAdapters(Dirs(running)))
  /\ UNCHANGED alive

(* What the server does not see.                                           *)
RouterAlone ==
  /\ \/ Wake \/ DecodeStep \/ StartAdmission \/ NothingAdmitted
     \/ \E k \in Client : Admit(k) \/ DropAborted(k)
     \/ \E r \in Req : Charge(r)
  /\ UNCHANGED <<serverVars, alive>>

ServedForward ==
  /\ alive
  /\ \/ RouterAlone
     \/ ServedStartPrefill
     \/ ServedPrefill \/ PrefillFails \/ ServedPrefillCleanup
     \/ ServedMerge
     \/ ServedDecode \/ DecodeFails \/ ServedDecodeCleanup

ServedNext ==
  \/ ServedForward
  \/ Netio /\ UNCHANGED <<serverVars, alive>>

ServedSpec == ServedInit /\ [][ServedNext]_servedVars

-----------------------------------------------------------------------------
ServedTypeOK ==
  /\ mem_state \in SUBSET Cells
  /\ can_use_mem_size \in 0 .. tot_size
  /\ DOMAIN a_loc \subseteq Client
  /\ \A c \in DOMAIN a_loc : a_loc[c] \subseteq Cells
  /\ DOMAIN cache \subseteq {Running, Mini}
  /\ alive \in BOOLEAN

Entries == {e \in {Running, Mini} \X (1 .. Cardinality(Req)) :
              e[1] \in DOMAIN cache /\ e[2] \in DOMAIN cache[e[1]].requests}
Row(e) == RowSlice(cache[e[1]], e[2])

(* While the router steps, no cell leaks and none has two users, through   *)
(* every mixture of prefills, decodes, filters, merges and offloads: each  *)
(* is free, or in one adapter, or in one column of one row, and the        *)
(* counter is the number of free ones.  filter, merge and free_self        *)
(* compute column numbers from two lengths; a slice that is off by one     *)
(* frees somebody else's cell.                                             *)
CellsAccounted ==
  alive =>
  LET rows == UNION {Range(Row(e)) : e \in Entries}
      adapters == UNION {a_loc[c] : c \in DOMAIN a_loc}
  IN  /\ mem_state \cup rows \cup adapters = Cells
      /\ can_use_mem_size = Cardinality(mem_state)
      /\ Cardinality(mem_state)
           + SumOf([e \in Entries |-> Len(Row(e))])
           + SumOf([c \in DOMAIN a_loc |-> adapter_len[c]]) = tot_size

(* Whenever the model is about to run a batch, every adapter of the batch  *)
(* is loaded (LoraUnorderedBatchInfer looks it up and raises otherwise),   *)
(* although adapters are loaded and offloaded for one batch while another  *)
(* is in service.                                                          *)
AdaptersReady ==
  alive => /\ pc = "prefill" => Dirs(Prefilled) \subseteq DOMAIN a_loc
           /\ pc = "decode" => Dirs(running) \subseteq DOMAIN a_loc

(* The server's batches are the router's, with the cells of each request's *)
(* prompt and of the tokens it was given but the last: the router's view   *)
(* and the server's are kept by separate calls and compared nowhere.       *)
Agrees(id, batch) ==
  IF batch = {} THEN id \notin DOMAIN cache
  ELSE /\ id \in DOMAIN cache
       /\ Range(cache[id].requests) = batch
       /\ \A i \in DOMAIN cache[id].requests :
            LET r == cache[id].requests[i]
            IN  Len(Row(<<id, i>>)) = input_len[r] + outputs[r] - 1

ServerMatchesRouter ==
  alive /\ pc \in {"top", "sleep", "charge", "merge", "decode"}
    => Agrees(Running, running) /\ Agrees(Mini, mini)

(* The estimate leaves out one thing only: adapters that are loaded for    *)
(* requests which are gone.  Whatever a step is about to allocate fits     *)
(* into the free cells and theirs, so that an allocation can fail only     *)
(* while such an adapter lingers, and by no more than it holds.            *)
Lingering ==
  SumOf([k \in DOMAIN a_loc \ Dirs(running \cup mini) |-> adapter_len[k]])

RoomButForLingering ==
  LET room == can_use_mem_size + Lingering
  IN  alive =>
        /\ AdmissionOver /\ mini # {} => LoadSize(Dirs(mini)) + PromptSize(mini) <= room
        /\ pc = "prefill" => PromptSize(Prefilled) <= room
        /\ pc = "decode" => Cardinality(running) <= room

(* A batch that the estimate admitted never runs out of cells: alloc does  *)
(* not raise.                                                              *)
PoolSuffices == alive
=============================================================================
