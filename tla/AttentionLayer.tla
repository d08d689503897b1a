--------------------------- MODULE AttentionLayer ---------------------------
(***************************************************************************)
(* One attention layer of the base model (basemodel.py, the layer_infer    *)
(* modules of llama and llama2) over the prefill of a batch and the decode *)
(* steps after it.  Llama has as many key heads as query heads, llama2 a   *)
(* key head for kv_group_num of them.                                      *)
(***************************************************************************)
EXTENDS AttentionKernels

CONSTANTS
  PromptLens,   (* sequences of prompt lengths, one per request             *)
  PrefillCells, (* sequences of cells that alloc may give a prefill         *)
  DecodeCells   (* the same for decode steps; those that follow one another *)
                (* are what alloc_contiguous finds                          *)

FromZero(s) == [i \in 0 .. Len(s) - 1 |-> s[i + 1]]

(* Every request has a token, and the allocator gives cells enough, none   *)
(* of them twice, nor again while the batch holds them.                    *)
ASSUME CellAssumption ==
  /\ \A lens \in PromptLens :
       /\ lens \in Seq(Nat \ {0}) /\ lens # <<>>
       /\ \A index \in PrefillCells : Len(index) >= SumTo(FromZero(lens), Len(lens))
       /\ \A index \in DecodeCells : Len(index) >= Len(lens)
  /\ \A index \in PrefillCells \cup DecodeCells :
       /\ index \in Seq(Nat)
       /\ \A i, j \in DOMAIN index : index[i] = index[j] => i = j
  /\ \A index \in PrefillCells \cup DecodeCells, other \in DecodeCells :
       index # other \/ index \in PrefillCells =>
         \A i \in DOMAIN index, j \in DOMAIN other : index[i] # other[j]

(* A key head of llama2 serves two query heads.                            *)
ASSUME HeadAssumption == HEADS % 2 = 0

VARIABLES
  model,     (* "llama" or "llama2", and the version of Triton              *)
  cells      (* decode cells not given out                                  *)

layerVars == <<infer_state, model, cells>>
attentionVars == <<layerVars, launchVars>>

(* The request of row i of the tokens of a prefill.                       *)
Of(lens, i) == CHOOSE b \in DOMAIN lens : SumTo(lens, b) <= i /\ i < SumTo(lens, b + 1)

(* init_bloc: the cells of each row end at column max_len - 1.             *)
InitBloc(lens, max_len, index) ==
  [b \in DOMAIN lens |->
     [c \in max_len - lens[b] .. max_len - 1 |->
        index[SumTo(lens, b) + c - (max_len - lens[b])]]]

PrefillState(lens, index, group) ==
  LET n == SumTo(lens, Cardinality(DOMAIN lens))
      max_len == CHOOSE m \in {lens[b] : b \in DOMAIN lens} : \A b \in DOMAIN lens : lens[b] <= m
  IN  [is_prefill |-> TRUE, kv_group_num |-> group,
       batch_size |-> Cardinality(DOMAIN lens), rows |-> n,
       max_len_in_batch |-> max_len,
       b_start_loc |-> [b \in DOMAIN lens |-> SumTo(lens, b)], b_seq_len |-> lens,
       b_loc |-> InitBloc(lens, max_len, index),
       mem_index |-> [i \in 0 .. n - 1 |-> index[i]],
       decode_is_contiguous |-> FALSE, other_kv_index |-> Junk,
       position |-> [i \in 0 .. n - 1 |-> i - SumTo(lens, Of(lens, i))],
       token |-> [i \in 0 .. n - 1 |-> <<Of(lens, i), i - SumTo(lens, Of(lens, i))>>]]

(* What forward of the model RPC server adds up after each step, and then  *)
(* _decode and init_some_extra_state.                                      *)
DecodeState(old, index) ==
  LET max_len == old.max_len_in_batch + 1
      lens == [b \in Batches |-> old.b_seq_len[b] + 1]
  IN  [old EXCEPT !.is_prefill = FALSE,
         !.rows = old.batch_size,
         !.max_len_in_batch = max_len,
         !.b_start_loc = [b \in Batches |-> old.b_start_loc[b] + b],
         !.b_seq_len = lens,
         !.b_loc = [b \in Batches |->
                      [c \in {max_len - 1} \cup DOMAIN old.b_loc[b] |->
                         IF c = max_len - 1 THEN index[b] ELSE old.b_loc[b][c]]],
         !.mem_index = index,
         !.decode_is_contiguous = \A b \in Batches : index[b] = index[0] + b,
         !.other_kv_index = index[0],
         !.position = [b \in Batches |-> lens[b] - 1],
         !.token = [b \in Batches |-> <<b, lens[b] - 1>>]]

-----------------------------------------------------------------------------
(* The launches of a forward: _get_qkv, _post_cache_kv and the attention.  *)

GetQkv == <<"mm_q", "rotary_q", "mm_k", "rotary_k", "mm_v">>

PostCacheKv(st) == IF st.decode_is_contiguous THEN <<>> ELSE <<"copy_k", "copy_v">>

ContextAttention == <<"context">>

TokenAttention(version) ==
  IF version = "2.0.0" THEN <<"att1", "softmax", "att2">> ELSE <<"att1", "reducev">>

Grid(name) ==
  CASE name \in {"mm_q", "mm_k", "mm_v"} -> {<<0>>}
    [] name = "rotary_q" -> RotaryGrid(HEADS)
    [] name = "rotary_k" -> RotaryGrid(HEADS \div infer_state.kv_group_num)
    [] name \in {"copy_k", "copy_v"} -> CopyGrid
    [] name = "context" -> ContextGrid
    [] name = "att1" -> Att1Grid
    [] name \in {"softmax", "att2", "reducev"} -> TokenGrid

(* torch.mm writes a row per token and head.                               *)
MmWrites(w) ==
  LET heads == IF w = "q" THEN Heads ELSE KvHeads
      at(i, h) == IF w = "q" THEN <<w, i, h>> ELSE Cached(w, i, h)
      of(a) == CHOOSE x \in (DOMAIN infer_state.token) \X heads : at(x[1], x[2]) = a
  IN  [a \in {at(i, h) : i \in DOMAIN infer_state.token, h \in heads} |->
         LET t == infer_state.token[of(a)[1]] IN <<w, t[1], t[2], a[3], <<>>>>]

ContextWrites(p) ==
  CASE model = <<"llama", "2.0.0">>  -> LlamaFlashViaTmp(p)
    [] model = <<"llama", "2.1.0">>  -> LlamaFlash(p)
    [] model = <<"llama2", "2.0.0">> -> Llama2FlashViaTmp(p)
    [] model = <<"llama2", "2.1.0">> -> Llama2Flash(p)

Writes(name, p) ==
  LET llama == model[1] = "llama"
  IN  CASE name = "mm_q" -> MmWrites("q")
        [] name = "mm_k" -> MmWrites("k")
        [] name = "mm_v" -> MmWrites("v")
        [] name = "rotary_q" -> RotaryWrites(p, "q", HEADS)
        [] name = "rotary_k" -> RotaryWrites(p, "k", HEADS \div infer_state.kv_group_num)
        [] name = "copy_k" -> CopyWrites(p, "k")
        [] name = "copy_v" -> CopyWrites(p, "v")
        [] name = "context" -> ContextWrites(p)
        [] name = "att1" -> IF llama THEN LlamaAtt1(p) ELSE Llama2Att1(p)
        [] name = "softmax" -> IF llama THEN SoftmaxWrites(p) ELSE Llama2Softmax(p)
        [] name = "att2" -> IF llama THEN LlamaAtt2(p) ELSE Llama2Att2(p)
        [] name = "reducev" -> IF llama THEN LlamaReducev(p) ELSE Llama2Reducev(p)

AttentionInit ==
  \E lens \in PromptLens, index \in PrefillCells :
    /\ model \in {"llama", "llama2"} \X {"2.0.0", "2.1.0"}
    /\ infer_state = PrefillState(FromZero(lens), FromZero(index), IF model[1] = "llama" THEN 1 ELSE 2)
    /\ memory = << >>
    /\ launches = GetQkv \o PostCacheKv(infer_state) \o ContextAttention
    /\ grid = Grid("mm_q")
    /\ cells = DecodeCells

(* Nothing runs, for behaviours about something else.                      *)
AttentionIdle == infer_state = << >> /\ model = << >> /\ cells = {}

RunProgram(p) ==
  /\ Run(p, Writes(Head(launches), p))
  /\ UNCHANGED layerVars

NextLaunch ==
  /\ Launch(Grid(launches[2]))
  /\ UNCHANGED layerVars

(* The next forward has buffers of its own; the pool stays.                *)
DecodeForward(index) ==
  /\ Finished
  /\ index \in cells
  /\ infer_state' = DecodeState(infer_state, FromZero(index))
  /\ memory' = [a \in {x \in DOMAIN memory : x[1] \in {"key_buffer", "value_buffer"}} |-> memory[a]]
  /\ launches' = GetQkv \o PostCacheKv(infer_state') \o TokenAttention(model[2])
  /\ grid' = {<<0>>}
  /\ cells' = cells \ {index}
  /\ UNCHANGED model

AttentionNext ==
  \/ \E p \in grid : RunProgram(p)
  \/ NextLaunch
  \/ \E index \in cells : DecodeForward(index)

AttentionSpec == AttentionInit /\ [][AttentionNext]_attentionVars

-----------------------------------------------------------------------------
(* Properties.                                                             *)

(* Attention is softmax attention: when a forward is done, the output of   *)
(* every token and head adds up the values of its own request's tokens up  *)
(* to itself, each once, weighed by the scores of its own rotated query    *)
(* with their rotated keys, over the sum of exactly these; whatever the    *)
(* blocks, the masks, the placement in the pool and the order in which     *)
(* programs ran, and with garbage everywhere nothing was written.          *)
OwnScore(t, h, j) ==
  <<"score", <<"q", t[1], t[2], h, <<t[2]>>>>,
    <<"k", t[1], j, h \div infer_state.kv_group_num, <<j>>>>>>
OwnRow(t, h) ==
  LET norm == [j \in 1 .. t[2] + 1 |-> OwnScore(t, h, j - 1)]
  IN  [j \in 1 .. t[2] + 1 |->
         <<norm[j], <<"v", t[1], j - 1, h \div infer_state.kv_group_num, <<>>>>, norm>>]
AttentionIsOwn ==
  model # << >> /\ Finished =>
    \A i \in DOMAIN infer_state.token, h \in Heads :
      Load(<<"o", i, h>>) = OwnRow(infer_state.token[i], h)

(* No store leaves the tensors of the forward or the cells it was given,   *)
(* and no two programs of a launch write to the same place, so that the    *)
(* order the device runs them in does not matter.                          *)
Allocated ==
  LET n == infer_state.rows
      all == SumTo(infer_state.b_seq_len, infer_state.batch_size)
  IN  ({"q", "o"} \X (0 .. n - 1) \X Heads)
        \cup ({"k", "v"} \X (0 .. n - 1) \X KvHeads)
        \cup ({"key_buffer", "value_buffer"} \X
                {infer_state.mem_index[i] : i \in DOMAIN infer_state.mem_index} \X KvHeads)
        \cup ({"att", "prob"} \X (0 .. all - 1) \X Heads)
        \cup ({"tmp"} \X (Batches \X (0 .. MaxLen + TMP_PAD - 1)) \X Heads)
StoresStayOwn ==
  model # << >> /\ grid = Grid(Head(launches)) =>
    LET writes == [p \in grid |-> DOMAIN Writes(Head(launches), p)]
    IN  \A p, r \in grid : /\ writes[p] \subseteq Allocated
                           /\ p # r => writes[p] \cap writes[r] = {}
=============================================================================
