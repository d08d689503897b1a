----------------------------- MODULE ModelServer -----------------------------
(***************************************************************************)
(* What a model RPC server (ModelRpcServer of model_rpc.py) keeps: the     *)
(* batches of its cache (InferBatch of infer_batch.py), the adapters that  *)
(* are loaded (InferAdapter of infer_adapter.py) and the pool both take    *)
(* their cells from.  One server, unordered batches, no prefetch: the      *)
(* options the server has when none is given.                              *)
(*                                                                         *)
(* The operators are the exposed methods, as parts of actions.             *)
(***************************************************************************)
EXTENDS Workload, MemoryPool, SequencesExt

CONSTANTS
  Running, Mini,   (* the batch_ids of the router's two batches             *)
  Unset            (* an entry of torch.empty that was never written        *)

VARIABLES
  a_loc,   (* idx_map, a_start, a_len and a_loc in one: adapter -> cells    *)
  cache    (* batch_id -> InferBatch                                        *)

serverVars == <<poolVars, a_loc, cache>>

ServerInit ==
  /\ PoolInit
  /\ a_loc = [c \in {} |-> {}]
  /\ cache = [id \in {} |-> {}]

(* The k-th of a selection of indexes, which are in ascending order.       *)
Nth(select_index, k) ==
  CHOOSE c \in select_index : Cardinality({d \in select_index : d <= c}) = k

(* Entries from + 1 to from + len of a selection.                          *)
Part(select_index, from, len) == {Nth(select_index, k) : k \in from + 1 .. from + len}

Orders(S) == SetToSeqs(S)
SumOf(f) == MapThenSumSet(LAMBDA x : f[x], DOMAIN f)

-----------------------------------------------------------------------------
(* InferAdapter.                                                           *)

(* One cell per row of the four A (and B) matrices.                        *)
adapter_len == [c \in Client |-> 4 * lora_rank[c]]

(* Mutation of NewAdapters: idx_map is not consulted.                      *)
AllAdapters(dirs) == dirs

NewAdapters(dirs) == dirs \ DOMAIN a_loc
LoadSize(dirs) == SumOf([c \in NewAdapters(dirs) |-> adapter_len[c]])

(* load_adapters when alloc does not raise.  dirs is a Python set: its     *)
(* members come in any order.                                              *)
LoadAdapters(dirs) ==
  \E order \in Orders(NewAdapters(dirs)) :
    LET new_loc == Lowest(LoadSize(dirs))
        offset(i) == SumOf([j \in 1 .. i - 1 |-> adapter_len[order[j]]])
        loaded(i) == Part(new_loc, offset(i), adapter_len[order[i]])
    IN  /\ Mark(new_loc)
        /\ a_loc' = [c \in DOMAIN a_loc \cup dirs |->
                       IF c \in DOMAIN a_loc THEN a_loc[c]
                       ELSE loaded(CHOOSE i \in DOMAIN order : order[i] = c)]
        /\ UNCHANGED cache

(* offload_adapters: the adapters that stay.  The early return compares    *)
(* the numbers of adapters, not the adapters.                              *)
KeptAdapters(reserve) ==
  IF Cardinality(reserve) = Cardinality(DOMAIN a_loc)
    THEN DOMAIN a_loc
    ELSE DOMAIN a_loc \cap reserve

-----------------------------------------------------------------------------
(* InferBatch.  A row of b_loc is written from the right: b_loc[i] below   *)
(* is the columns before the one the next token goes to (max_len - 1).     *)

Padded(row, n) == [i \in 1 .. n |-> Unset] \o row

(* add_batch and prefill_batch: alloc the prompt's cells, then init_bloc,  *)
(* then the counters advance past the token that was made.  The order of   *)
(* the requests in the batch is the router's.                              *)
PromptSize(reqs) == SumOf([r \in reqs |-> input_len[r]])

PrefillBatch(id, reqs) ==
  \E order \in Orders(reqs) :
    LET len(i) == input_len[order[i]]
        m == Max({len(i) : i \in DOMAIN order})
        loc == Lowest(PromptSize(reqs))
        from(i) == SumOf([j \in 1 .. i - 1 |-> len(j)])
        row(i) == [k \in 1 .. len(i) |-> Nth(loc, from(i) + k)]
        batch == [requests  |-> order,
                  b_loc     |-> [i \in DOMAIN order |-> Padded(row(i), m - len(i))],
                  b_seq_len |-> [i \in DOMAIN order |-> len(i) + 1],
                  max_len   |-> m + 1]
    IN  /\ Mark(loc)
        /\ cache' = [k \in DOMAIN cache \cup {id} |-> IF k = id THEN batch ELSE cache[k]]
        /\ UNCHANGED a_loc

(* decode_batch: a cell per request, adjacent ones if there are.           *)
DecodeBatch(id) ==
  LET batch == cache[id]
      n == Len(batch.requests)
      loc == IF FreeStarts(n) # {} THEN FirstWindow(n) ELSE Lowest(n)
  IN  /\ Mark(loc)
      /\ cache' = [cache EXCEPT ![id] =
           [requests  |-> batch.requests,
            b_loc     |-> [i \in 1 .. n |-> Append(batch.b_loc[i], Nth(loc, i))],
            b_seq_len |-> [i \in 1 .. n |-> batch.b_seq_len[i] + 1],
            max_len   |-> batch.max_len + 1]]
      /\ UNCHANGED a_loc

(* Mutation of RowSlice: one column short.                                 *)
ShortSlice(batch, i) ==
  SubSeq(batch.b_loc[i], batch.max_len - batch.b_seq_len[i] + 2, batch.max_len - 1)

(* Mutation of RowSlice: nothing is given back.                            *)
EmptySlice(batch, i) == <<>>

(* The slice of row i that filter and free_self give back.                 *)
RowSlice(batch, i) ==
  SubSeq(batch.b_loc[i], batch.max_len - batch.b_seq_len[i] + 1, batch.max_len - 1)

(* Mutation of FilteredRow: the columns keep their places.                 *)
SameColumns(batch, i, m) == SubSeq(batch.b_loc[i], 1, m - 1)

(* The last m - 1 columns, where m is the longest of the rows that stay.   *)
FilteredRow(batch, i, m) ==
  SubSeq(batch.b_loc[i], batch.max_len - m + 1, batch.max_len - 1)

Filtered(batch, left) ==
  LET stay == {i \in DOMAIN batch.requests : batch.requests[i] \in left}
      indices == [k \in 1 .. Cardinality(stay) |-> Nth(stay, k)]
      pick(f) == [k \in DOMAIN indices |-> f[indices[k]]]
      m == Max(Range(pick(batch.b_seq_len)))
  IN  [requests  |-> pick(batch.requests),
       b_loc     |-> [k \in DOMAIN indices |-> FilteredRow(batch, indices[k], m)],
       b_seq_len |-> pick(batch.b_seq_len),
       max_len   |-> m]

(* filter_batch, or remove_batch when nothing is left, and then            *)
(* offload_adapters (the other way round after a decode: both only free).  *)
Release(id, left, kept) ==
  LET batch == cache[id]
      gone  == {i \in DOMAIN batch.requests : batch.requests[i] \notin left}
      dirs  == DOMAIN a_loc \ kept
      rows  == UNION {Range(RowSlice(batch, i)) : i \in gone}
      cells == UNION {a_loc[c] : c \in dirs}
  IN  /\ Free(rows \cup cells,
              SumOf([i \in gone |-> Len(RowSlice(batch, i))])
                + SumOf([c \in dirs |-> adapter_len[c]]))
      /\ a_loc' = [c \in DOMAIN a_loc \cap kept |-> a_loc[c]]
      /\ cache' = IF left = {}
                    THEN [k \in DOMAIN cache \ {id} |-> cache[k]]
                    ELSE [cache EXCEPT ![id] = Filtered(batch, left)]

(* merge_batch.                                                            *)
MergeBatch(id1, id2) ==
  LET b1 == cache[id1]
      b2 == cache[id2]
      m  == Max({b1.max_len, b2.max_len})
      rows(b) == [i \in DOMAIN b.b_loc |-> Padded(b.b_loc[i], m - b.max_len)]
  IN  /\ cache' = [k \in DOMAIN cache \ {id2} |->
           IF k # id1 THEN cache[k]
           ELSE [requests  |-> b1.requests \o b2.requests,
                 b_loc     |-> rows(b1) \o rows(b2),
                 b_seq_len |-> b1.b_seq_len \o b2.b_seq_len,
                 max_len   |-> m]]
      /\ UNCHANGED <<poolVars, a_loc>>
=============================================================================
