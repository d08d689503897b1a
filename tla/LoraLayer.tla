------------------------------ MODULE LoraLayer ------------------------------
(***************************************************************************)
(* A forward of a batch whose requests have different adapters: the choice *)
(* of the engine (forward of the RPC server), and what LoraUnordered-      *)
(* BatchInfer and LoraBmmInfer launch in each layer.  The deltas are made  *)
(* once for all layers.  What attention returns is in AttentionLayer.      *)
(***************************************************************************)
EXTENDS LoraKernels

CONSTANTS
  LAYERS,
  LONG, WIDE,     (* 200 tokens and rank 64: where lora_prefill pays        *)
  LoraBatches,    (* sequences of <<adapter, tokens>>, one per request      *)
  AdapterOrders   (* sequences of the adapters in the pool                  *)

(* A batch has a request, a request a token, and the pool the adapters of  *)
(* the batch.  lora_prefill computes the deltas' columns in whole blocks   *)
(* (of 16), and its expansion, tl.arange(0, BLOCK_RANK), compiles only if  *)
(* the widest rank of the batch is a power of 2.                           *)
ASSUME BatchAssumption ==
  /\ AdapterOrders \subseteq Seq(DOMAIN rank)
  /\ \A batch \in LoraBatches :
       /\ batch \in Seq((DOMAIN rank) \X (Nat \ {0}))
       /\ batch # <<>>
       /\ \A dirs \in AdapterOrders, b \in DOMAIN batch :
            \E i \in DOMAIN dirs : dirs[i] = batch[b][1]
       /\ \A a \in {batch[b][1] : b \in DOMAIN batch} :
            rank[a] >= WIDE /\ (\A b \in DOMAIN batch : rank[batch[b][1]] <= rank[a])
              => rank[a] % SHRINK_N = 0

VARIABLE engine   (* "bgmv", "triton", "bmm"; "none" if nothing runs        *)

engineVars == <<lora, engine>>
loraVars == <<engineVars, launchVars>>

(* The record: decode has a row per request, prefill one per token.        *)
State(batch, dirs, prefill) ==
  LET requests == 0 .. Len(batch) - 1
      len == [b \in requests |-> IF prefill THEN batch[b + 1][2] ELSE 1]
      start(b) == SumTo(len, b)
      longest == CHOOSE m \in {batch[b][2] : b \in DOMAIN batch} :
                   \A b \in DOMAIN batch : batch[b][2] <= m
      widest == CHOOSE m \in {rank[batch[b][1]] : b \in DOMAIN batch} :
                  \A b \in DOMAIN batch : rank[batch[b][1]] <= m
  IN  [is_prefill |-> prefill, layer |-> 0, adapter_dirs |-> dirs,
       adapters |-> [b \in requests |-> batch[b + 1][1]],
       req_bins |-> [b \in requests |-> CHOOSE i \in DOMAIN dirs : dirs[i] = batch[b + 1][1]],
       request |-> [row \in 0 .. start(Len(batch)) - 1 |->
                      CHOOSE b \in requests : start(b) <= row /\ row < start(b + 1)],
       b_start_loc |-> [b \in requests |-> start(b)],
       b_seq_len |-> [b \in requests |-> batch[b + 1][2]],
       max_b_seq_len |-> longest, max_lora_dim |-> widest]

Engine(st, bmm) ==
  IF bmm THEN "bmm"
  ELSE IF st.is_prefill /\ st.max_b_seq_len >= LONG /\ st.max_lora_dim >= WIDE
          /\ Cardinality(DOMAIN st.req_bins) >= 2
       THEN "triton" ELSE "bgmv"

(* _lora_get_qkv, _batch_lora_get_qkv and the two for o.                   *)
Adapt(e, slot) ==
  IF e = "bmm" THEN <<<<"bmm", slot>>>>
  ELSE IF e = "bgmv" THEN <<<<"bgmv_shrink", slot>>, <<"bgmv_expand", slot>>>>
  ELSE <<<<"shrink_fwd", slot>>, <<"expand_fwd", slot>>>>
LoraGetQkv(e) ==
  <<<<"mm", "q">>>> \o Adapt(e, "q") \o <<<<"rotary", "q">>>>
    \o <<<<"mm", "k">>>> \o Adapt(e, "k") \o <<<<"rotary", "k">>>>
    \o <<<<"mm", "v">>>> \o Adapt(e, "v")
LoraGetO(e) == <<<<"mm", "o">>>> \o Adapt(e, "o")

Programs(l) ==
  CASE l[1] \in {"mm", "rotary", "bmm"} -> {<<0>>}
    [] l[1] = "bgmv_shrink" -> BgmvShrinkGrid
    [] l[1] = "bgmv_expand" -> BgmvExpandGrid
    [] l[1] = "shrink_fwd" -> ShrinkGrid
    [] l[1] = "expand_fwd" -> ExpandGrid

Outputs(slot) == {slot} \X Tokens \X (0 .. EMBED - 1)
Base(a) == <<"base", a, lora.layer>>

Stores(l, p) ==
  LET slot == l[2]
  IN  CASE l[1] = "mm" -> [a \in Outputs(slot) |-> <<Base(a)>>]
        [] l[1] = "rotary" -> [a \in Outputs(slot) |-> Append(Load(a), <<"rotated">>)]
        [] l[1] = "bgmv_shrink" -> BgmvShrink(p, slot)
        [] l[1] = "bgmv_expand" -> BgmvExpand(p, slot)
        [] l[1] = "shrink_fwd" -> ShrinkFwd(p, slot)
        [] l[1] = "expand_fwd" -> ExpandFwd(p, slot)
        [] l[1] = "bmm" -> Bmm(slot)

Deltas(st) ==
  {delta[slot] : slot \in Slots} \X (DOMAIN st.request) \X (0 .. st.max_lora_dim - 1)

LoraInit ==
  \E batch \in LoraBatches, dirs \in AdapterOrders, prefill, bmm \in BOOLEAN :
    /\ lora = State(batch, dirs, prefill)
    /\ engine = Engine(lora, bmm)
    /\ memory = [a \in Deltas(lora) |-> Zero]
    /\ launches = LoraGetQkv(engine) \o LoraGetO(engine)
    /\ grid = Programs(Head(launches))

LoraIdle == lora = << >> /\ engine = "none"

RunLora(p) == Run(p, Stores(Head(launches), p)) /\ UNCHANGED engineVars

NextLora == Launch(Programs(launches[2])) /\ UNCHANGED engineVars

NextLayer ==
  /\ Finished
  /\ lora.layer + 1 < LAYERS
  /\ lora' = [lora EXCEPT !.layer = @ + 1]
  /\ launches' = LoraGetQkv(engine) \o LoraGetO(engine)
  /\ grid' = {<<0>>}
  /\ UNCHANGED <<memory, engine>>

LoraNext == (\E p \in grid : RunLora(p)) \/ NextLora \/ NextLayer

LoraSpec == LoraInit /\ [][LoraNext]_loraVars

-----------------------------------------------------------------------------
(* Properties.                                                             *)

(* Everybody gets his own adapter: after a layer, q, k, v and o of every   *)
(* token are the base model's plus input * A * B * scaling of its own      *)
(* request's adapter, each product once and before the rotation, wherever  *)
(* the adapter lies in the pool, whatever its rank beside wider ones (if   *)
(* the ranks fit) and whatever the deltas hold from other projections and  *)
(* layers.  k in a decode with --bmm is claimed only if the adapters of    *)
(* the batch have one scaling: KeysAreOwn says what is wrong otherwise.    *)
OwnTerms(slot, row, n) ==
  LET a == lora.adapters[Request(row)]
  IN  [d \in 1 .. rank[a] |->
         <<"lora", <<"dot", Input(slot, row), WeightA(a, slot, d - 1)>>,
           WeightB(a, slot, n, d - 1), scaling[a]>>]
IsOwn(slot) ==
  \A a \in Outputs(slot) :
    Load(a) = <<Base(a)>> \o OwnTerms(slot, a[2], a[3])
                \o (IF slot \in {"q", "k"} THEN <<<<"rotated">>>> ELSE <<>>)

OneScaling == \A b, c \in Requests : scaling[lora.adapters[b]] = scaling[lora.adapters[c]]

LoraIsOwn ==
  engine # "none" /\ Finished =>
    \A slot \in Slots :
      (engine = "bmm" /\ slot = "k" /\ ~lora.is_prefill => OneScaling) => IsOwn(slot)

(* The same of the k of a decode with --bmm, whose loop takes the scaling  *)
(* of whatever adapter the loop over q ended with: TLC refutes it.         *)
KeysAreOwn == engine = "bmm" /\ ~lora.is_prefill /\ Finished => IsOwn("k")

(* No program of a launch stores outside the tensors of the forward, and   *)
(* no two to the same place: the expansions read an output, add to it and  *)
(* write it back without synchronisation.                                  *)
LoraStoresStayOwn ==
  engine # "none" /\ grid = Programs(Head(launches)) =>
    LET writes == [p \in grid |-> DOMAIN Stores(Head(launches), p)]
    IN  \A p, r \in grid :
          /\ writes[p] \subseteq Deltas(lora) \cup UNION {Outputs(slot) : slot \in Slots}
          /\ p # r => writes[p] \cap writes[r] = {}
=============================================================================
