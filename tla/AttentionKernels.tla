-------------------------- MODULE AttentionKernels --------------------------
(***************************************************************************)
(* The Triton kernels of the attention layers, one operator per kernel:    *)
(* what one program of a launch writes, given its program id.  A number is *)
(* kept as what it was computed from, so that a wrong row, a wrong mask or *)
(* a missing rescaling shows: a row of q, k or v as its token, head and    *)
(* rotations, a score as its two rows, an entry of the output as the       *)
(* scores and rows it adds up and the scores each is normalised by.        *)
(* Addresses are <<tensor, row, head>>; the embedding dimension, whose     *)
(* entries all fare alike, is left out, and strides are what they index.   *)
(***************************************************************************)
EXTENDS Launches

CONSTANTS
  HEADS,                (* query heads                                      *)
  BLOCK,                (* of context_attention_fwd, 128 in the code        *)
  BLOCK_ATT1,           (* of token_att_fwd, 32                             *)
  BLOCK_REDUCEV,        (* of token_att_fwd2 and token_softmax_reducev, 64  *)
  BLOCK_SEQ, BLOCK_HEAD,(* of rotary_emb_fwd, 32 and 4                      *)
  TMP_PAD               (* columns of the scratchpad beyond the input, 256  *)

ASSUME BlockAssumption ==
  /\ HEADS \in Nat /\ TMP_PAD \in Nat
  /\ {BLOCK, BLOCK_ATT1, BLOCK_REDUCEV, BLOCK_SEQ, BLOCK_HEAD} \subseteq Nat \ {0}
  /\ BLOCK <= TMP_PAD

VARIABLE infer_state  (* the record of this forward (InferStateInfo)        *)

NegInf == <<"-inf">>
NaN == <<Junk, Junk, <<>>>>

Batches == 0 .. infer_state.batch_size - 1
Heads == 0 .. HEADS - 1
KvHeads == 0 .. HEADS \div infer_state.kv_group_num - 1
Start(b) == infer_state.b_start_loc[b]
SeqLen(b) == infer_state.b_seq_len[b]
MaxLen == infer_state.max_len_in_batch

(* cache_k and cache_v: buffers of their own, or a window of the pool.     *)
Cached(w, row, h) ==
  IF infer_state.decode_is_contiguous
    THEN <<IF w = "k" THEN "key_buffer" ELSE "value_buffer",
           infer_state.mem_index[0] + row, h>>
    ELSE <<w, row, h>>
Pooled(w, cell, h) == <<IF w = "k" THEN "key_buffer" ELSE "value_buffer", cell, h>>

(* A column of B_Loc; its rows are not initialised.                        *)
BLoc(b, col) ==
  IF col \in DOMAIN infer_state.b_loc[b] THEN infer_state.b_loc[b][col] ELSE Junk

-----------------------------------------------------------------------------
(* rotary_emb_fwd: rotates rows in place by the cos and sin of their       *)
(* positions.                                                              *)
Rotated(x, position) ==
  IF x = Junk THEN Junk ELSE <<x[1], x[2], x[3], x[4], Append(x[5], position)>>

RotaryGrid(heads) ==
  (0 .. CDiv(heads, BLOCK_HEAD) - 1) \X (0 .. CDiv(infer_state.rows, BLOCK_SEQ) - 1)

(* Mutation of InTensor: the rows of the last block are not masked.        *)
AnyRow(row, h, heads) == h < heads
InTensor(row, h, heads) == row < infer_state.rows /\ h < heads

RotaryWrites(p, w, heads) ==
  LET at(row, h) == IF w = "q" THEN <<"q", row, h>> ELSE Cached(w, row, h)
      cells == {x \in Rows(p[2], BLOCK_SEQ) \X Rows(p[1], BLOCK_HEAD) :
                  InTensor(x[1], x[2], heads)}
      position(row) == IF row \in DOMAIN infer_state.position
                         THEN infer_state.position[row] ELSE 0
  IN  [a \in {at(x[1], x[2]) : x \in cells} |->
         LET x == CHOOSE x \in cells : at(x[1], x[2]) = a
         IN  Rotated(Load(a), position(x[1]))]

(* destindex_copy_kv: row by row into the cells of the pool.               *)
CopyGrid == {<<i>> : i \in DOMAIN infer_state.mem_index}

CopyWrites(p, w) ==
  [a \in {Pooled(w, infer_state.mem_index[p[1]], h) : h \in KvHeads} |->
     Load(Cached(w, p[1], a[3]))]

-----------------------------------------------------------------------------
(* Softmax over blocks: acc holds terms <<score, value, norm>>, each value *)
(* weighed by the exponential of its score over those of norm.  A new      *)
(* block rescales the terms that are normalised by what came before.  A    *)
(* column with score -inf weighs nothing, but not-a-number times nothing   *)
(* is not a number.                                                        *)

Score(q, k) == IF Junk \in {q, k} THEN Junk ELSE <<"score", q, k>>
Weighing(scores) ==
  LET upto[c \in 0 .. Len(scores)] ==
        IF c = 0 THEN <<>>
        ELSE IF scores[c] = NegInf THEN upto[c - 1] ELSE Append(upto[c - 1], c)
  IN  upto[Len(scores)]
Finite(scores) == [i \in DOMAIN Weighing(scores) |-> scores[Weighing(scores)[i]]]

(* Mutation of Rescaled: acc stays as it is.                               *)
NotRescaled(acc, from, to) == acc
Rescaled(acc, from, to) ==
  [i \in DOMAIN acc |-> IF acc[i][3] = from THEN <<acc[i][1], acc[i][2], to>> ELSE acc[i]]

AddBlock(old, scores, values) ==
  LET norm == old.norm \o Finite(scores)
      columns == Weighing(scores)
      terms == [i \in DOMAIN columns |-> <<scores[columns[i]], values[columns[i]], norm>>]
      broken == \/ columns = <<>>
                \/ \E c \in DOMAIN scores : Junk \in {scores[c], values[c]}
  IN  [norm |-> norm,
       acc  |-> IF broken THEN <<NaN>> ELSE Rescaled(old.acc, old.norm, norm) \o terms]

(* The loop over the blocks, given the score and value of each column.     *)
OverBlocks(blocks, block, score, value) ==
  LET columns(n, f) == [c \in 1..block |-> f[n * block + c - 1]]
      state[n \in 0..blocks] ==
        IF n = 0 THEN [norm |-> <<>>, acc |-> <<>>]
        ELSE AddBlock(state[n - 1], columns(n - 1, score), columns(n - 1, value))
  IN  state[blocks].acc

(* context_attention_fwd.                                                  *)
ContextGrid == Batches \X Heads \X (0 .. CDiv(MaxLen, BLOCK) - 1)

Causal(i, j) == i >= j

FlashRow(p, i, group) ==
  LET b == p[1]
      columns == 0 .. (p[3] + 1) * BLOCK - 1
      own(a, j) == IF j < SeqLen(b) THEN Load(a) ELSE Zero
      q == own(<<"q", Start(b) + i, p[2]>>, i)
      k(j) == own(Cached("k", Start(b) + j, p[2] \div group), j)
      v(j) == own(Cached("v", Start(b) + j, p[2] \div group), j)
      score == [j \in columns |-> IF Causal(i, j) THEN Score(q, k(j)) ELSE NegInf]
  IN  OverBlocks(p[3] + 1, BLOCK, score, [j \in columns |-> v(j)])

FlashWrites(p, group) ==
  [a \in {<<"o", Start(p[1]) + i, p[2]>> : i \in {j \in Rows(p[3], BLOCK) : j < SeqLen(p[1])}} |->
     FlashRow(p, a[2] - Start(p[1]), group)]

(* Triton 2.0.0 passes the factor of the rescaling through a scratchpad,   *)
(* whose row is written for the whole block, past the end of the input.    *)
FlashViaTmp(p, group) ==
  LET scratch == IF p[3] * BLOCK < SeqLen(p[1])
                   THEN {<<"tmp", <<p[1], i>>, p[2]>> : i \in Rows(p[3], BLOCK)} ELSE {}
      flash == FlashWrites(p, group)
  IN  [a \in scratch \cup DOMAIN flash |-> IF a \in scratch THEN Zero ELSE flash[a]]

LlamaFlash(p) == FlashWrites(p, 1)
LlamaFlashViaTmp(p) == FlashViaTmp(p, 1)
Llama2Flash(p) == FlashWrites(p, infer_state.kv_group_num)
Llama2FlashViaTmp(p) == FlashViaTmp(p, infer_state.kv_group_num)

-----------------------------------------------------------------------------
(* token_att_fwd: the scores of the new token with every token before it.  *)
(* The rows of B_Loc end at column MaxLen - 1.                             *)
Att1Grid == Batches \X Heads \X (0 .. CDiv(MaxLen, BLOCK_ATT1) - 1)

Att1Writes(p, group) ==
  LET b == p[1]
      key(n) == Pooled("k", BLoc(b, MaxLen - SeqLen(b) + n), p[2] \div group)
      columns == IF p[3] * BLOCK_ATT1 < SeqLen(b)
                   THEN {n \in Rows(p[3], BLOCK_ATT1) : n < SeqLen(b)} ELSE {}
  IN  [a \in {<<"att", Start(b) + n, p[2]>> : n \in columns} |->
         Score(Load(<<"q", b, p[2]>>), Load(key(a[2] - Start(b))))]

LlamaAtt1(p) == Att1Writes(p, 1)
Llama2Att1(p) == Att1Writes(p, infer_state.kv_group_num)

TokenGrid == Batches \X Heads

Logic(p, n) ==
  IF n < SeqLen(p[1]) THEN Load(<<"att", Start(p[1]) + n, p[2]>>) ELSE NegInf

(* token_softmax_fwd, over a row padded to a power of two.                 *)
SoftmaxWrites(p) ==
  LET row == [c \in 1 .. 2 * MaxLen |-> Logic(p, c - 1)]
      norm == Finite(row)
  IN  [a \in {<<"prob", Start(p[1]) + n, p[2]>> : n \in 0 .. SeqLen(p[1]) - 1} |->
         IF Junk \in {norm[i] : i \in DOMAIN norm} THEN Junk
         ELSE <<row[a[2] - Start(p[1]) + 1], norm>>]
Llama2Softmax(p) == SoftmaxWrites(p)

(* token_att_fwd2: probabilities times values.                             *)
Att2Writes(p, group) ==
  LET b == p[1]
      term(n) ==
        LET x == Load(<<"prob", Start(b) + n, p[2]>>)
            v == Load(Pooled("v", BLoc(b, MaxLen - SeqLen(b) + n), p[2] \div group))
        IN  IF Junk \in {x, v} THEN NaN ELSE <<x[1], v, x[2]>>
  IN  [a \in {<<"o", b, p[2]>>} |-> [n \in 1 .. SeqLen(b) |-> term(n - 1)]]

LlamaAtt2(p) == Att2Writes(p, 1)
Llama2Att2(p) == Att2Writes(p, infer_state.kv_group_num)

(* token_softmax_reducev_fwd: both in one.  The columns past the end of    *)
(* the last block read the row other_kv_index, which somebody has written. *)
ReducevWrites(p, group) ==
  LET b == p[1]
      blocks == CDiv(SeqLen(b), BLOCK_REDUCEV)
      columns == 0 .. blocks * BLOCK_REDUCEV - 1
      index(n) == IF n < SeqLen(b) THEN BLoc(b, MaxLen - SeqLen(b) + n)
                  ELSE infer_state.other_kv_index
  IN  [a \in {<<"o", b, p[2]>>} |->
         OverBlocks(blocks, BLOCK_REDUCEV, [n \in columns |-> Logic(p, n)],
                    [n \in columns |-> Load(Pooled("v", index(n), p[2] \div group))])]

LlamaReducev(p) == ReducevWrites(p, 1)
Llama2Reducev(p) == ReducevWrites(p, infer_state.kv_group_num)
=============================================================================
