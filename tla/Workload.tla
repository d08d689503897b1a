------------------------------ MODULE Workload ------------------------------
(***************************************************************************)
(* What the router can be handed: the requests the HTTP server accepts,    *)
(* their sizes, and the limits the server was started with.                *)
(*                                                                         *)
(* A request is an opaque identifier; everything about it that the         *)
(* scheduler reads and never changes (class Req of io_struct.py) is a      *)
(* constant function of that identifier.  The repository assumes one       *)
(* client per adapter (fair_queue.py:37), so a client IS its adapter.      *)
(***************************************************************************)
EXTENDS Naturals, FiniteSets

CONSTANTS
  Client,                (* the adapter_dirs the server was started with    *)
  NoClient,              (* Python's None where a client is expected        *)
  Req,                   (* every request a behaviour may send              *)
  adapter_dir,           (* Req -> Client                                   *)
  input_len,             (* prompt tokens of a request                      *)
  max_output_len,        (* its max_new_tokens                              *)
  lora_rank,             (* rank of a client's adapter                      *)
  max_total_tokens,      (* --max_total_token_num, the cells of the pool    *)
  batch_max_tokens,      (* --batch_max_tokens, prompt tokens of one batch  *)
  running_max_req_size,  (* --running_max_req_size                          *)
  max_req_input_len,     (* --max_req_input_len                             *)
  max_req_total_len      (* --max_req_total_len                             *)

(* The length checks of HttpServerManager.generate: a request that fails   *)
(* one is answered with an error and never sent to the router.             *)
HttpAccepts(r) ==
  LET req_total_len == input_len[r] + max_output_len[r]
  IN  /\ input_len[r] <= max_req_input_len
      /\ req_total_len <= max_req_total_len
      /\ req_total_len + 1 <= max_total_tokens

ASSUME ClientAssumption == NoClient \notin Client

(* A prompt holds at least the BOS token; SamplingParams.verify wants      *)
(* max_new_tokens >= 1.                                                    *)
ASSUME RequestAssumption ==
  /\ IsFiniteSet(Req)
  /\ adapter_dir \in [Req -> Client]
  /\ input_len \in [Req -> Nat \ {0}]
  /\ max_output_len \in [Req -> Nat \ {0}]
  /\ lora_rank \in [Client -> Nat]
  /\ \A r \in Req : HttpAccepts(r)

(* The assertions of api_server.main on the command line.                  *)
ASSUME LimitAssumption ==
  /\ max_total_tokens \in Nat
  /\ running_max_req_size \in Nat
  /\ max_req_input_len \in Nat
  /\ max_req_total_len \in Nat
  /\ batch_max_tokens \in Nat
  /\ max_req_input_len < max_req_total_len
  /\ batch_max_tokens >= max_req_total_len
=============================================================================
