--------------------------- MODULE Attention_proofs ---------------------------
(***************************************************************************)
(* Proofs about the attention kernels (AttentionKernels, AttentionLayer):  *)
(* where they store, and what they compute, for any prompts, cells, heads  *)
(* and tiles.                                                              *)
(***************************************************************************)
EXTENDS SequentialParts_proofs

-----------------------------------------------------------------------------
(* Attention.                                                              *)

(* The record of a forward: the requests' tokens follow one another in the *)
(* scores, and in the rows of a prefill; no cell is given twice, and those *)
(* of a contiguous decode follow one another.                              *)
GivenCells(st) == {st.mem_index[i] : i \in DOMAIN st.mem_index}

InferOK(st) ==
  /\ st.batch_size \in Nat \ {0} /\ st.rows \in Nat /\ st.kv_group_num \in Nat \ {0}
  /\ st.b_seq_len \in [0 .. st.batch_size - 1 -> Nat]
  /\ \A b \in 0 .. st.batch_size - 1 :
       st.b_start_loc[b] = SumTo(st.b_seq_len, b) /\ st.b_seq_len[b] <= st.max_len_in_batch
  /\ st.max_len_in_batch \in Nat
  /\ \A i, j \in DOMAIN st.mem_index : st.mem_index[i] = st.mem_index[j] => i = j
  /\ DOMAIN st.token = 0 .. st.rows - 1
  /\ st.rows = IF st.is_prefill THEN SumTo(st.b_seq_len, st.batch_size) ELSE st.batch_size
  /\ st.decode_is_contiguous =>
       /\ st.mem_index[0] \in Nat
       /\ \A i \in 0 .. st.rows - 1 : st.mem_index[0] + i \in GivenCells(st)

Total == SumTo(infer_state.b_seq_len, infer_state.batch_size)
RowsOf == 0 .. infer_state.rows - 1

LEMMA AllocatedIs ==
  /\ {"q", "o"} \X RowsOf \X Heads \subseteq Allocated
  /\ {"k", "v"} \X RowsOf \X KvHeads \subseteq Allocated
  /\ {"key_buffer", "value_buffer"} \X GivenCells(infer_state) \X KvHeads \subseteq Allocated
  /\ {"att", "prob"} \X (0 .. Total - 1) \X Heads \subseteq Allocated
  /\ {"tmp"} \X (Batches \X (0 .. MaxLen + TMP_PAD - 1)) \X Heads \subseteq Allocated
BY DEF Allocated, RowsOf, GivenCells, Total

(* The rows of k and v, in buffers of their own or in the pool.            *)
LEMMA CachedOwn ==
  ASSUME InferOK(infer_state), NEW w \in {"k", "v"}, NEW i \in RowsOf, NEW j \in RowsOf, NEW h, NEW g
  PROVE  /\ h \in KvHeads => Cached(w, i, h) \in Allocated
         /\ Cached(w, i, h) = Cached(w, j, g) => i = j /\ h = g
<1> DEFINE buffer == IF w = "k" THEN "key_buffer" ELSE "value_buffer"
           first == infer_state.mem_index[0]
<1>1. CASE infer_state.decode_is_contiguous
  <2>1. Cached(w, i, h) = <<buffer, first + i, h>> /\ Cached(w, j, g) = <<buffer, first + j, g>>
    BY <1>1 DEF Cached
  <2>2. first \in Nat /\ first + i \in GivenCells(infer_state) /\ i \in Nat /\ j \in Nat
    BY <1>1 DEF InferOK, RowsOf
  <2>3. buffer \in {"key_buffer", "value_buffer"}
    OBVIOUS
  <2> HIDE DEF buffer, first
  <2>4. h \in KvHeads => Cached(w, i, h) \in Allocated
    BY <2>1, <2>2, <2>3, AllocatedIs
  <2>5. QED
    BY <2>1, <2>2, <2>4
<1>2. CASE ~infer_state.decode_is_contiguous
  <2>1. Cached(w, i, h) = <<w, i, h>> /\ Cached(w, j, g) = <<w, j, g>>
    BY <1>2 DEF Cached
  <2>2. QED
    BY <2>1, AllocatedIs
<1>3. QED
  BY <1>1, <1>2

(* A row of q or of the cache, as the projections and the rotation see it. *)
RowAt(w, i, h) == IF w = "q" THEN <<"q", i, h>> ELSE Cached(w, i, h)
HeadsOf(w) == IF w = "q" THEN Heads ELSE KvHeads

LEMMA RowAtOwn ==
  ASSUME InferOK(infer_state), NEW w \in {"q", "k", "v"},
         NEW i \in RowsOf, NEW j \in RowsOf, NEW h, NEW g
  PROVE  /\ h \in HeadsOf(w) => RowAt(w, i, h) \in Allocated
         /\ RowAt(w, i, h) = RowAt(w, j, g) => i = j /\ h = g
<1>1. CASE w = "q"
  <2>1. RowAt(w, i, h) = <<"q", i, h>> /\ RowAt(w, j, g) = <<"q", j, g>> /\ HeadsOf(w) = Heads
    BY <1>1 DEF RowAt, HeadsOf
  <2>2. QED
    BY <2>1, AllocatedIs
<1>2. CASE w # "q"
  <2>1. RowAt(w, i, h) = Cached(w, i, h) /\ RowAt(w, j, g) = Cached(w, j, g) /\ HeadsOf(w) = KvHeads
    BY <1>2 DEF RowAt, HeadsOf
  <2>2. w \in {"k", "v"}
    BY <1>2
  <2>3. QED
    BY <2>1, <2>2, CachedOwn
<1>3. QED
  BY <1>1, <1>2

LEMMA MmOwn ==
  ASSUME InferOK(infer_state), NEW w \in {"q", "k", "v"}
  PROVE  DOMAIN MmWrites(w) \subseteq Allocated
<1> DEFINE R == RowsOf
           H == HeadsOf(w)
<1>1. DOMAIN infer_state.token = R
  BY DEF InferOK, RowsOf
<1>2. DOMAIN MmWrites(w) = {RowAt(w, i, h) : i \in DOMAIN infer_state.token, h \in H}
  BY DEF MmWrites, RowAt, HeadsOf
<1> HIDE DEF R, H
<1>3. DOMAIN MmWrites(w) = {RowAt(w, i, h) : i \in R, h \in H}
  BY <1>1, <1>2
<1>4. ASSUME NEW i \in R, NEW h \in H PROVE RowAt(w, i, h) \in Allocated
  BY RowAtOwn DEF R, H
<1>5. QED
  BY <1>3, <1>4

LEMMA RotaryOwn ==
  ASSUME InferOK(infer_state), NEW w \in {"q", "k", "v"}, NEW heads \in Int, HeadsOf(w) = 0 .. heads - 1,
         NEW p \in RotaryGrid(heads), NEW r \in RotaryGrid(heads)
  PROVE  /\ DOMAIN RotaryWrites(p, w, heads) \subseteq Allocated
         /\ p # r => DOMAIN RotaryWrites(p, w, heads) \cap DOMAIN RotaryWrites(r, w, heads) = {}
<1> DEFINE Block(q) == {x \in Rows(q[2], BLOCK_SEQ) \X Rows(q[1], BLOCK_HEAD) :
                          InTensor(x[1], x[2], heads)}
           At(q) == {RowAt(w, x[1], x[2]) : x \in Block(q)}
<1>1. \A q : DOMAIN RotaryWrites(q, w, heads) = At(q)
  BY DEF RotaryWrites, RowAt
<1>2. BLOCK_SEQ \in Nat \ {0} /\ BLOCK_HEAD \in Nat \ {0}
  BY BlockAssumption DEF BlockAssumption
<1>3. /\ p[1] \in Nat /\ p[2] \in Nat /\ p = <<p[1], p[2]>>
      /\ r[1] \in Nat /\ r[2] \in Nat /\ r = <<r[1], r[2]>>
  BY DEF RotaryGrid
<1>4. ASSUME NEW q \in {p, r}, NEW x \in Block(q)
      PROVE  /\ x[1] \in RowsOf /\ x[2] \in HeadsOf(w)
             /\ x[1] \in Rows(q[2], BLOCK_SEQ) /\ x[2] \in Rows(q[1], BLOCK_HEAD)
  <2>1. q[1] \in Nat /\ q[2] \in Nat
    BY <1>3
  <2>2. Rows(q[2], BLOCK_SEQ) \subseteq Nat /\ Rows(q[1], BLOCK_HEAD) \subseteq Nat
    BY <1>2, <2>1, RowsIn
  <2>3. /\ x[1] \in Rows(q[2], BLOCK_SEQ) /\ x[2] \in Rows(q[1], BLOCK_HEAD)
        /\ x[1] < infer_state.rows /\ x[2] < heads
    BY DEF InTensor
  <2>4. infer_state.rows \in Nat
    BY DEF InferOK
  <2>5. QED
    BY <2>2, <2>3, <2>4 DEF RowsOf
<1> HIDE DEF Block
<1>5. ASSUME NEW x \in Block(p) PROVE RowAt(w, x[1], x[2]) \in Allocated
  BY <1>4, RowAtOwn
<1>6. ASSUME NEW x \in Block(p), NEW y \in Block(r), RowAt(w, x[1], x[2]) = RowAt(w, y[1], y[2])
      PROVE  p = r
  <2>1. x[1] = y[1] /\ x[2] = y[2]
    BY <1>4, <1>6, RowAtOwn
  <2>2. p[2] = r[2]
    BY <1>2, <1>3, <1>4, <2>1, RowsApart
  <2>3. p[1] = r[1]
    BY <1>2, <1>3, <1>4, <2>1, RowsApart
  <2>4. QED
    BY <1>3, <2>2, <2>3
<1>7. /\ At(p) \subseteq Allocated
      /\ p # r => At(p) \cap At(r) = {}
  <2> HIDE <1>1
  <2>1. QED
    BY <1>5, <1>6
<1> HIDE DEF At
<1>8. QED
  BY <1>1, <1>7

LEMMA CopyOwn ==
  ASSUME InferOK(infer_state), NEW w \in {"k", "v"}, NEW p \in CopyGrid, NEW r \in CopyGrid
  PROVE  /\ DOMAIN CopyWrites(p, w) \subseteq Allocated
         /\ p # r => DOMAIN CopyWrites(p, w) \cap DOMAIN CopyWrites(r, w) = {}
<1> DEFINE buffer == IF w = "k" THEN "key_buffer" ELSE "value_buffer"
           cell(q) == infer_state.mem_index[q[1]]
           At(q) == {<<buffer, cell(q), h>> : h \in KvHeads}
<1>1. \A q : DOMAIN CopyWrites(q, w) = At(q)
  BY DEF CopyWrites, Pooled
<1>2. /\ p[1] \in DOMAIN infer_state.mem_index /\ p = <<p[1]>>
      /\ r[1] \in DOMAIN infer_state.mem_index /\ r = <<r[1]>>
  BY DEF CopyGrid
<1>3. cell(p) \in GivenCells(infer_state)
  BY <1>2 DEF GivenCells
<1>4. buffer \in {"key_buffer", "value_buffer"}
  OBVIOUS
<1>5. p # r => cell(p) # cell(r)
  BY <1>2 DEF InferOK
<1> HIDE DEF buffer, cell
<1>6. At(p) \subseteq Allocated
  BY <1>3, <1>4, AllocatedIs
<1>7. p # r => At(p) \cap At(r) = {}
  BY <1>5
<1>8. QED
  BY <1>1, <1>6, <1>7

(* What a program stores of its request: some of the request's places.     *)
Part(name, q, S) == {<<name, Start(q[1]) + i, q[2]>> : i \in S}
Places(q) == {i \in Nat : i < SeqLen(q[1])}

LEMMA SamePlace ==
  ASSUME NEW len, NEW n, Packed(len, n), NEW b \in 0 .. n - 1, NEW c \in 0 .. n - 1,
         NEW i \in Nat, NEW j \in Nat, i < len[b], j < len[c], SumTo(len, b) + i = SumTo(len, c) + j
  PROVE  b = c /\ i = j
BY DEF Packed

LEMMA PartsOwn ==
  ASSUME InferOK(infer_state), NEW name,
         NEW p, p[1] \in Batches, p[2] \in Heads, NEW P \in SUBSET Places(p),
         NEW r, r[1] \in Batches, r[2] \in Heads, NEW R \in SUBSET Places(r),
         p[1] = r[1] /\ p[2] = r[2] => P \cap R = {}
  PROVE  /\ Part(name, p, P) \subseteq {name} \X (0 .. Total - 1) \X Heads
         /\ Part(name, p, P) \cap Part(name, r, R) = {}
<1> DEFINE len == infer_state.b_seq_len
           n == infer_state.batch_size
           T == 0 .. Total - 1
<1>1. /\ n \in Nat /\ len \in [0 .. n - 1 -> Nat]
      /\ p[1] \in 0 .. n - 1 /\ r[1] \in 0 .. n - 1
      /\ Start(p[1]) = SumTo(len, p[1]) /\ Start(r[1]) = SumTo(len, r[1])
      /\ SeqLen(p[1]) = len[p[1]] /\ SeqLen(r[1]) = len[r[1]]
      /\ T = 0 .. SumTo(len, n) - 1
  BY DEF InferOK, Batches, Start, SeqLen, Total
<1> HIDE DEF len, n, T
<1>2. Packed(len, n)
  BY <1>1, PartsPacked
<1>3. \A i \in P : i \in Nat /\ i < len[p[1]]
  BY <1>1 DEF Places
<1>4. \A i \in R : i \in Nat /\ i < len[r[1]]
  BY <1>1 DEF Places
<1>5. ASSUME NEW i \in P PROVE Start(p[1]) + i \in T
  <2>1. i \in Nat /\ i < len[p[1]]
    BY <1>3
  <2>2. SumTo(len, p[1]) + i \in T
    BY <1>1, <1>2, <2>1 DEF Packed
  <2>3. QED
    BY <1>1, <2>2
<1>6. ASSUME NEW i \in P, NEW j \in R, Start(p[1]) + i = Start(r[1]) + j, p[2] = r[2] PROVE FALSE
  <2>1. i \in Nat /\ i < len[p[1]] /\ j \in Nat /\ j < len[r[1]]
    BY <1>3, <1>4
  <2>2. SumTo(len, p[1]) + i = SumTo(len, r[1]) + j
    BY <1>1, <1>6
  <2>3. p[1] = r[1] /\ i = j
    <3>1. p[1] \in 0 .. n - 1 /\ r[1] \in 0 .. n - 1
      BY <1>1
    <3>2. QED
      BY <1>2, <2>1, <2>2, <3>1, SamePlace
  <2>4. QED
    BY <1>6, <2>3
<1>7. Part(name, p, P) \subseteq {name} \X T \X Heads
  BY <1>5 DEF Part
<1>8. Part(name, p, P) \cap Part(name, r, R) = {}
  BY <1>6 DEF Part
<1>9. QED
  BY <1>7, <1>8 DEF T

(* A program per request, head and block of the request's places.          *)
Tile(q, block) == {i \in Rows(q[3], block) : i < SeqLen(q[1])}

LEMMA TilesOwn ==
  ASSUME InferOK(infer_state), NEW name, NEW block \in Nat \ {0}, NEW blocks,
         NEW p \in Batches \X Heads \X (0 .. blocks), NEW r \in Batches \X Heads \X (0 .. blocks),
         NEW P \in SUBSET Tile(p, block), NEW R \in SUBSET Tile(r, block)
  PROVE  /\ Part(name, p, P) \subseteq {name} \X (0 .. Total - 1) \X Heads
         /\ p # r => Part(name, p, P) \cap Part(name, r, R) = {}
<1>1. /\ p[1] \in Batches /\ p[2] \in Heads /\ p[3] \in Nat /\ p = <<p[1], p[2], p[3]>>
      /\ r[1] \in Batches /\ r[2] \in Heads /\ r[3] \in Nat /\ r = <<r[1], r[2], r[3]>>
  OBVIOUS
<1>2. Rows(p[3], block) \subseteq Nat /\ Rows(r[3], block) \subseteq Nat
  BY <1>1, RowsIn
<1>3. P \in SUBSET Places(p) /\ R \in SUBSET Places(r) /\ {} \in SUBSET Places(p)
  BY <1>2 DEF Tile, Places
<1>4. Part(name, p, P) \subseteq {name} \X (0 .. Total - 1) \X Heads
  <2>1. p[1] = p[1] /\ p[2] = p[2] => P \cap {} = {}
    OBVIOUS
  <2>2. QED
    BY <1>1, <1>3, <2>1, PartsOwn
<1>5. ASSUME p # r PROVE Part(name, p, P) \cap Part(name, r, R) = {}
  <2>1. ASSUME p[1] = r[1] /\ p[2] = r[2], NEW i \in P, i \in R PROVE FALSE
    <3>1. i \in Rows(p[3], block) /\ i \in Rows(r[3], block)
      BY <2>1 DEF Tile
    <3>2. p[3] = r[3]
      BY <1>1, <3>1, RowsApart
    <3>3. QED
      BY <1>1, <1>5, <2>1, <3>2
  <2>2. p[1] = r[1] /\ p[2] = r[2] => P \cap R = {}
    BY <2>1
  <2>3. QED
    BY <1>1, <1>3, <2>2, PartsOwn
<1>6. QED
  BY <1>4, <1>5

LEMMA FlashOwn ==
  ASSUME InferOK(infer_state), infer_state.is_prefill, NEW group,
         NEW p \in ContextGrid, NEW r \in ContextGrid
  PROVE  /\ DOMAIN FlashWrites(p, group) \subseteq {"o"} \X RowsOf \X Heads
         /\ p # r => DOMAIN FlashWrites(p, group) \cap DOMAIN FlashWrites(r, group) = {}
<1>1. \A q : DOMAIN FlashWrites(q, group) = Part("o", q, Tile(q, BLOCK))
  BY DEF FlashWrites, Part, Tile
<1>2. BLOCK \in Nat \ {0}
  BY BlockAssumption DEF BlockAssumption
<1> DEFINE blocks == CDiv(MaxLen, BLOCK) - 1
<1>3. p \in Batches \X Heads \X (0 .. blocks) /\ r \in Batches \X Heads \X (0 .. blocks)
  BY DEF ContextGrid
<1> HIDE DEF blocks
<1>4. /\ Part("o", p, Tile(p, BLOCK)) \subseteq {"o"} \X (0 .. Total - 1) \X Heads
      /\ p # r => Part("o", p, Tile(p, BLOCK)) \cap Part("o", r, Tile(r, BLOCK)) = {}
  BY <1>2, <1>3, TilesOwn
<1>5. RowsOf = 0 .. Total - 1
  BY DEF RowsOf, Total, InferOK
<1>6. QED
  BY <1>1, <1>4, <1>5

(* The scratchpad is wide enough for a block past the end of the input.    *)
LEMMA FlashViaTmpOwn ==
  ASSUME InferOK(infer_state), infer_state.is_prefill, NEW group,
         NEW p \in ContextGrid, NEW r \in ContextGrid
  PROVE  /\ DOMAIN FlashViaTmp(p, group) \subseteq Allocated
         /\ p # r => DOMAIN FlashViaTmp(p, group) \cap DOMAIN FlashViaTmp(r, group) = {}
<1> DEFINE Scratch(q) == {<<"tmp", <<q[1], i>>, q[2]>> : i \in Rows(q[3], BLOCK)}
           W == 0 .. MaxLen + TMP_PAD - 1
           blocks == CDiv(MaxLen, BLOCK)
           flash(q) == DOMAIN FlashWrites(q, group)
           tmp(q) == IF q[3] * BLOCK < SeqLen(q[1]) THEN Scratch(q) ELSE {}
<1>1. \A q : DOMAIN FlashViaTmp(q, group) = tmp(q) \cup flash(q)
  BY DEF FlashViaTmp
<1>2. \A q : tmp(q) \subseteq Scratch(q)
  OBVIOUS
<1> HIDE DEF tmp
<1>3. BLOCK \in Nat \ {0} /\ TMP_PAD \in Nat /\ BLOCK <= TMP_PAD /\ MaxLen \in Nat
  BY BlockAssumption DEF BlockAssumption, InferOK, MaxLen
<1>4. blocks \in Nat /\ blocks * BLOCK <= MaxLen + BLOCK - 1
  BY <1>3, TilesEnd
<1>5. /\ p[1] \in Batches /\ p[2] \in Heads /\ p[3] \in 0 .. blocks - 1 /\ p = <<p[1], p[2], p[3]>>
      /\ r[1] \in Batches /\ r[2] \in Heads /\ r[3] \in 0 .. blocks - 1 /\ r = <<r[1], r[2], r[3]>>
  BY DEF ContextGrid
<1> HIDE DEF blocks
<1>6. p[3] \in Nat /\ r[3] \in Nat /\ p[3] < blocks
  BY <1>4, <1>5
<1>7. ASSUME NEW i \in Rows(p[3], BLOCK) PROVE i \in W
  <2>1. i \in Nat /\ i < blocks * BLOCK
    BY <1>3, <1>4, <1>6, RowsIn
  <2>2. blocks * BLOCK \in Nat
    BY <1>3, <1>4, ProductNat
  <2>3. QED
    BY <1>3, <1>4, <2>1, <2>2
<1> HIDE DEF W
<1>8. Scratch(p) \subseteq {"tmp"} \X (Batches \X W) \X Heads
  BY <1>5, <1>7
<1>9. ASSUME NEW i \in Rows(p[3], BLOCK), i \in Rows(r[3], BLOCK) PROVE p[3] = r[3]
  BY <1>3, <1>6, <1>9, RowsApart
<1>10. p # r => Scratch(p) \cap Scratch(r) = {}
  BY <1>5, <1>9
<1>11. /\ flash(p) \subseteq {"o"} \X RowsOf \X Heads
       /\ flash(r) \subseteq {"o"} \X RowsOf \X Heads
       /\ p # r => flash(p) \cap flash(r) = {}
  BY FlashOwn
<1>12. flash(p) \cap Scratch(r) = {} /\ flash(r) \cap Scratch(p) = {}
  BY <1>11
<1> HIDE DEF Scratch, flash
<1>13. Scratch(p) \cup flash(p) \subseteq Allocated
  BY <1>8, <1>11, AllocatedIs DEF W
<1>14. QED
  BY <1>1, <1>2, <1>10, <1>11, <1>12, <1>13

LEMMA Att1Own ==
  ASSUME InferOK(infer_state), NEW group, NEW p \in Att1Grid, NEW r \in Att1Grid
  PROVE  /\ DOMAIN Att1Writes(p, group) \subseteq Allocated
         /\ p # r => DOMAIN Att1Writes(p, group) \cap DOMAIN Att1Writes(r, group) = {}
<1> DEFINE columns(q) == IF q[3] * BLOCK_ATT1 < SeqLen(q[1]) THEN Tile(q, BLOCK_ATT1) ELSE {}
           blocks == CDiv(MaxLen, BLOCK_ATT1) - 1
<1>1. \A q : DOMAIN Att1Writes(q, group) = Part("att", q, columns(q))
  BY DEF Att1Writes, Part, Tile
<1>2. BLOCK_ATT1 \in Nat \ {0}
  BY BlockAssumption DEF BlockAssumption
<1>3. p \in Batches \X Heads \X (0 .. blocks) /\ r \in Batches \X Heads \X (0 .. blocks)
  BY DEF Att1Grid
<1>4. columns(p) \in SUBSET Tile(p, BLOCK_ATT1) /\ columns(r) \in SUBSET Tile(r, BLOCK_ATT1)
  OBVIOUS
<1> HIDE DEF blocks, columns
<1>5. /\ Part("att", p, columns(p)) \subseteq {"att"} \X (0 .. Total - 1) \X Heads
      /\ p # r => Part("att", p, columns(p)) \cap Part("att", r, columns(r)) = {}
  BY <1>2, <1>3, <1>4, TilesOwn
<1>6. QED
  BY <1>1, <1>5, AllocatedIs

(* A program per request and head.                                         *)
LEMMA SoftmaxOwn ==
  ASSUME InferOK(infer_state), NEW p \in TokenGrid, NEW r \in TokenGrid
  PROVE  /\ DOMAIN SoftmaxWrites(p) \subseteq Allocated
         /\ p # r => DOMAIN SoftmaxWrites(p) \cap DOMAIN SoftmaxWrites(r) = {}
<1> DEFINE all(q) == 0 .. SeqLen(q[1]) - 1
<1>1. \A q : DOMAIN SoftmaxWrites(q) = Part("prob", q, all(q))
  BY DEF SoftmaxWrites, Part
<1>2. /\ p[1] \in Batches /\ p[2] \in Heads /\ p = <<p[1], p[2]>>
      /\ r[1] \in Batches /\ r[2] \in Heads /\ r = <<r[1], r[2]>>
  BY DEF TokenGrid
<1>3. SeqLen(p[1]) \in Nat /\ SeqLen(r[1]) \in Nat
  BY <1>2 DEF InferOK, SeqLen, Batches
<1>4. all(p) \in SUBSET Places(p) /\ all(r) \in SUBSET Places(r) /\ {} \in SUBSET Places(p)
  BY <1>3 DEF Places
<1> HIDE DEF all
<1>5. Part("prob", p, all(p)) \subseteq {"prob"} \X (0 .. Total - 1) \X Heads
  <2>1. p[1] = p[1] /\ p[2] = p[2] => all(p) \cap {} = {}
    OBVIOUS
  <2>2. QED
    BY <1>2, <1>4, <2>1, PartsOwn
<1>6. ASSUME p # r PROVE Part("prob", p, all(p)) \cap Part("prob", r, all(r)) = {}
  <2>1. p[1] = r[1] /\ p[2] = r[2] => all(p) \cap all(r) = {}
    BY <1>2, <1>6
  <2>2. QED
    BY <1>2, <1>4, <2>1, PartsOwn
<1>7. QED
  BY <1>1, <1>5, <1>6, AllocatedIs

LEMMA TokenOwn ==
  ASSUME InferOK(infer_state), ~infer_state.is_prefill, NEW group,
         NEW p \in TokenGrid, NEW r \in TokenGrid
  PROVE  /\ DOMAIN Att2Writes(p, group) \subseteq Allocated
         /\ p # r => DOMAIN Att2Writes(p, group) \cap DOMAIN Att2Writes(r, group) = {}
         /\ DOMAIN ReducevWrites(p, group) \subseteq Allocated
         /\ p # r => DOMAIN ReducevWrites(p, group) \cap DOMAIN ReducevWrites(r, group) = {}
<1> DEFINE place(q) == <<"o", q[1], q[2]>>
<1>1. \A q : DOMAIN Att2Writes(q, group) = {place(q)}
  BY DEF Att2Writes
<1>2. \A q : DOMAIN ReducevWrites(q, group) = {place(q)}
  BY DEF ReducevWrites
<1>3. /\ p[1] \in Batches /\ p[2] \in Heads /\ p = <<p[1], p[2]>>
      /\ r[1] \in Batches /\ r[2] \in Heads /\ r = <<r[1], r[2]>>
  BY DEF TokenGrid
<1>4. Batches = RowsOf
  BY DEF InferOK, Batches, RowsOf
<1>5. place(p) \in Allocated
  BY <1>3, <1>4, AllocatedIs
<1>6. p # r => place(p) # place(r)
  BY <1>3
<1> HIDE DEF place
<1>7. QED
  BY <1>1, <1>2, <1>5, <1>6

(* The launches of a prefill, and those of a decode.                       *)
NamesOf(prefill) ==
  {"mm_q", "mm_k", "mm_v", "rotary_q", "rotary_k", "copy_k", "copy_v"} \cup
    (IF prefill THEN {"context"} ELSE {"att1", "softmax", "att2", "reducev"})

AttentionInv ==
  /\ InferOK(infer_state)
  /\ infer_state.is_prefill \in BOOLEAN
  /\ \E lens \in PromptLens : infer_state.batch_size = Len(lens)
  /\ model \in {"llama", "llama2"} \X {"2.0.0", "2.1.0"}
  /\ cells \subseteq DecodeCells
  /\ launches \in Seq(NamesOf(infer_state.is_prefill)) /\ launches # <<>>

LEMMA HeadsAre ==
  ASSUME InferOK(infer_state)
  PROVE  /\ HEADS \in Int /\ HeadsOf("q") = 0 .. HEADS - 1
         /\ HEADS \div infer_state.kv_group_num \in Int
         /\ HeadsOf("k") = 0 .. HEADS \div infer_state.kv_group_num - 1
<1>1. HEADS \in Nat
  BY BlockAssumption DEF BlockAssumption
<1>2. infer_state.kv_group_num \in Nat \ {0}
  BY DEF InferOK
<1>3. HEADS \div infer_state.kv_group_num \in Int
  BY <1>1, <1>2, SMTT(30)
<1>4. QED
  BY <1>1, <1>3 DEF HeadsOf, Heads, KvHeads

LEMMA ContextOwn ==
  ASSUME AttentionInv, infer_state.is_prefill, NEW p \in ContextGrid, NEW r \in ContextGrid
  PROVE  /\ DOMAIN ContextWrites(p) \subseteq Allocated
         /\ p # r => DOMAIN ContextWrites(p) \cap DOMAIN ContextWrites(r) = {}
<1> DEFINE group == infer_state.kv_group_num
<1>1. \A g : /\ DOMAIN FlashWrites(p, g) \subseteq Allocated
             /\ p # r => DOMAIN FlashWrites(p, g) \cap DOMAIN FlashWrites(r, g) = {}
  <2>1. {"o"} \X RowsOf \X Heads \subseteq Allocated
    BY AllocatedIs
  <2>2. QED
    BY <2>1, FlashOwn DEF AttentionInv
<1>2. \A g : /\ DOMAIN FlashViaTmp(p, g) \subseteq Allocated
             /\ p # r => DOMAIN FlashViaTmp(p, g) \cap DOMAIN FlashViaTmp(r, g) = {}
  BY FlashViaTmpOwn DEF AttentionInv
<1>3. \/ \A q : ContextWrites(q) = FlashWrites(q, 1)
      \/ \A q : ContextWrites(q) = FlashViaTmp(q, 1)
      \/ \A q : ContextWrites(q) = FlashWrites(q, group)
      \/ \A q : ContextWrites(q) = FlashViaTmp(q, group)
  <2>1. \/ model = <<"llama", "2.0.0">> \/ model = <<"llama", "2.1.0">>
        \/ model = <<"llama2", "2.0.0">> \/ model = <<"llama2", "2.1.0">>
    BY DEF AttentionInv
  <2>2. CASE model = <<"llama", "2.0.0">>
    BY <2>2 DEF ContextWrites, LlamaFlashViaTmp
  <2>3. CASE model = <<"llama", "2.1.0">>
    BY <2>3 DEF ContextWrites, LlamaFlash
  <2>4. CASE model = <<"llama2", "2.0.0">>
    BY <2>4 DEF ContextWrites, Llama2FlashViaTmp
  <2>5. CASE model = <<"llama2", "2.1.0">>
    BY <2>5 DEF ContextWrites, Llama2Flash
  <2>6. QED
    BY <2>1, <2>2, <2>3, <2>4, <2>5
<1>4. QED
  BY <1>1, <1>2, <1>3

LEMMA TokenLaunchesOwn ==
  ASSUME AttentionInv, ~infer_state.is_prefill,
         NEW name \in {"att1", "softmax", "att2", "reducev"},
         NEW p \in Grid(name), NEW r \in Grid(name)
  PROVE  /\ DOMAIN Writes(name, p) \subseteq Allocated
         /\ p # r => DOMAIN Writes(name, p) \cap DOMAIN Writes(name, r) = {}
<1> DEFINE group == infer_state.kv_group_num
<1>0. InferOK(infer_state)
  BY DEF AttentionInv
<1>1. CASE name = "att1"
  <2>1. Grid(name) = Att1Grid
    BY <1>1 DEF Grid
  <2>2. \/ \A q : Writes(name, q) = Att1Writes(q, 1)
        \/ \A q : Writes(name, q) = Att1Writes(q, group)
    BY <1>1 DEF Writes, LlamaAtt1, Llama2Att1
  <2>3. \A g : /\ DOMAIN Att1Writes(p, g) \subseteq Allocated
               /\ p # r => DOMAIN Att1Writes(p, g) \cap DOMAIN Att1Writes(r, g) = {}
    BY <1>0, <2>1, Att1Own
  <2>4. QED
    BY <2>2, <2>3
<1>2. CASE name # "att1"
  <2>1. Grid(name) = TokenGrid
    BY <1>2 DEF Grid
  <2>2. \/ \A q : Writes(name, q) = SoftmaxWrites(q)
        \/ \E g : \A q : Writes(name, q) = Att2Writes(q, g)
        \/ \E g : \A q : Writes(name, q) = ReducevWrites(q, g)
    <3>1. CASE name = "softmax"
      BY <3>1 DEF Writes, Llama2Softmax
    <3>2. CASE name = "att2"
      BY <3>2 DEF Writes, LlamaAtt2, Llama2Att2
    <3>3. CASE name = "reducev"
      BY <3>3 DEF Writes, LlamaReducev, Llama2Reducev
    <3>4. QED
      BY <1>2, <3>1, <3>2, <3>3
  <2>3. /\ DOMAIN SoftmaxWrites(p) \subseteq Allocated
        /\ p # r => DOMAIN SoftmaxWrites(p) \cap DOMAIN SoftmaxWrites(r) = {}
    BY <1>0, <2>1, SoftmaxOwn
  <2>4. \A g : /\ DOMAIN Att2Writes(p, g) \subseteq Allocated
               /\ p # r => DOMAIN Att2Writes(p, g) \cap DOMAIN Att2Writes(r, g) = {}
               /\ DOMAIN ReducevWrites(p, g) \subseteq Allocated
               /\ p # r => DOMAIN ReducevWrites(p, g) \cap DOMAIN ReducevWrites(r, g) = {}
    BY <1>0, <2>1, TokenOwn
  <2>5. QED
    BY <2>2, <2>3, <2>4
<1>3. QED
  BY <1>1, <1>2

LEMMA WritesApart ==
  ASSUME AttentionInv, NEW name \in NamesOf(infer_state.is_prefill),
         NEW p \in Grid(name), NEW r \in Grid(name)
  PROVE  /\ DOMAIN Writes(name, p) \subseteq Allocated
         /\ p # r => DOMAIN Writes(name, p) \cap DOMAIN Writes(name, r) = {}
<1>3. InferOK(infer_state)
  BY DEF AttentionInv
<1>4. CASE name \in {"mm_q", "mm_k", "mm_v"}
  <2>1. p = r
    BY <1>4 DEF Grid
  <2>2. \E w \in {"q", "k", "v"} : Writes(name, p) = MmWrites(w)
    BY <1>4 DEF Writes
  <2>3. QED
    BY <1>3, <2>1, <2>2, MmOwn
<1>5. CASE name = "rotary_q"
  <2>1. Grid(name) = RotaryGrid(HEADS) /\ \A q : Writes(name, q) = RotaryWrites(q, "q", HEADS)
    BY <1>5 DEF Grid, Writes
  <2>2. /\ DOMAIN RotaryWrites(p, "q", HEADS) \subseteq Allocated
        /\ p # r => DOMAIN RotaryWrites(p, "q", HEADS) \cap DOMAIN RotaryWrites(r, "q", HEADS) = {}
    BY <1>3, <2>1, HeadsAre, RotaryOwn
  <2>3. QED
    BY <2>1, <2>2
<1>6. CASE name = "rotary_k"
  <2> DEFINE heads == HEADS \div infer_state.kv_group_num
  <2>1. Grid(name) = RotaryGrid(heads) /\ \A q : Writes(name, q) = RotaryWrites(q, "k", heads)
    BY <1>6 DEF Grid, Writes
  <2>2. heads \in Int /\ HeadsOf("k") = 0 .. heads - 1
    BY <1>3, HeadsAre
  <2> HIDE DEF heads
  <2>3. /\ DOMAIN RotaryWrites(p, "k", heads) \subseteq Allocated
        /\ p # r => DOMAIN RotaryWrites(p, "k", heads) \cap DOMAIN RotaryWrites(r, "k", heads) = {}
    BY <1>3, <2>1, <2>2, RotaryOwn
  <2>4. QED
    BY <2>1, <2>3
<1>7. CASE name \in {"copy_k", "copy_v"}
  <2>1. Grid(name) = CopyGrid
    BY <1>7 DEF Grid
  <2>2. \E w \in {"k", "v"} : \A q : Writes(name, q) = CopyWrites(q, w)
    BY <1>7 DEF Writes
  <2>3. \A w \in {"k", "v"} :
          /\ DOMAIN CopyWrites(p, w) \subseteq Allocated
          /\ p # r => DOMAIN CopyWrites(p, w) \cap DOMAIN CopyWrites(r, w) = {}
    BY <1>3, <2>1, CopyOwn
  <2>4. QED
    BY <2>2, <2>3
<1>8. CASE name = "context"
  <2>1. infer_state.is_prefill
    BY <1>8 DEF NamesOf
  <2>2. Grid(name) = ContextGrid /\ \A q : Writes(name, q) = ContextWrites(q)
    BY <1>8 DEF Grid, Writes
  <2>3. /\ DOMAIN ContextWrites(p) \subseteq Allocated
        /\ p # r => DOMAIN ContextWrites(p) \cap DOMAIN ContextWrites(r) = {}
    BY <2>1, <2>2, ContextOwn
  <2>4. QED
    BY <2>2, <2>3
<1>9. CASE name \in {"att1", "softmax", "att2", "reducev"}
  <2>1. ~infer_state.is_prefill
    BY <1>9 DEF NamesOf
  <2>2. QED
    BY <1>9, <2>1, TokenLaunchesOwn
<1>10. QED
  BY <1>4, <1>5, <1>6, <1>7, <1>8, <1>9 DEF NamesOf

LEMMA AttentionInvOwn == AttentionInv => StoresStayOwn
<1> SUFFICES ASSUME AttentionInv, grid = Grid(Head(launches))
             PROVE  LET writes == [p \in grid |-> DOMAIN Writes(Head(launches), p)]
                    IN  \A p, r \in grid : /\ writes[p] \subseteq Allocated
                                           /\ p # r => writes[p] \cap writes[r] = {}
  BY DEF StoresStayOwn
<1>1. \A p, r \in grid :
        /\ DOMAIN Writes(Head(launches), p) \subseteq Allocated
        /\ p # r => DOMAIN Writes(Head(launches), p) \cap DOMAIN Writes(Head(launches), r) = {}
  <2> DEFINE S == NamesOf(infer_state.is_prefill)
  <2>1. launches \in Seq(S) /\ launches # <<>>
    BY DEF AttentionInv
  <2> HIDE DEF S
  <2>2. Head(launches) \in S
    BY <2>1
  <2>3. QED
    BY <2>2, WritesApart DEF S
<1>2. QED
  BY <1>1

LEMMA FromZeroIs ==
  ASSUME NEW S, NEW s \in Seq(S)
  PROVE  /\ FromZero(s) \in [0 .. Len(s) - 1 -> S]
         /\ \A i \in 0 .. Len(s) - 1 : i + 1 \in 1 .. Len(s) /\ FromZero(s)[i] = s[i + 1]
BY DEF FromZero

LEMMA CellsGiven ==
  ASSUME NEW index \in PrefillCells \cup DecodeCells
  PROVE  /\ Len(index) \in Nat
         /\ FromZero(index) \in [0 .. Len(index) - 1 -> Nat]
         /\ \A i, j \in 0 .. Len(index) - 1 :
              FromZero(index)[i] = FromZero(index)[j] => i = j
<1>1. index \in Seq(Nat) /\ \A i, j \in DOMAIN index : index[i] = index[j] => i = j
  BY CellAssumption DEF CellAssumption
<1>2. /\ FromZero(index) \in [0 .. Len(index) - 1 -> Nat]
      /\ \A i \in 0 .. Len(index) - 1 : i + 1 \in 1 .. Len(index) /\ FromZero(index)[i] = index[i + 1]
  BY <1>1, FromZeroIs
<1>3. Len(index) \in Nat /\ DOMAIN index = 1 .. Len(index)
  BY <1>1
<1>4. ASSUME NEW i \in 0 .. Len(index) - 1, NEW j \in 0 .. Len(index) - 1,
             FromZero(index)[i] = FromZero(index)[j]
      PROVE  i = j
  <2>1. index[i + 1] = index[j + 1] /\ i + 1 \in DOMAIN index /\ j + 1 \in DOMAIN index
    BY <1>2, <1>3, <1>4
  <2>2. i + 1 = j + 1
    BY <1>1, <2>1
  <2>3. QED
    BY <2>2
<1>5. QED
  BY <1>2, <1>3, <1>4

LEMMA PrefillOK ==
  ASSUME NEW s \in PromptLens, NEW c \in PrefillCells, NEW group \in Nat \ {0}
  PROVE  /\ InferOK(PrefillState(FromZero(s), FromZero(c), group))
         /\ PrefillState(FromZero(s), FromZero(c), group).is_prefill = TRUE
         /\ PrefillState(FromZero(s), FromZero(c), group).batch_size = Len(s)
<1> DEFINE lens == FromZero(s)
           index == FromZero(c)
           st == PrefillState(lens, index, group)
           n == Len(s)
           N == 0 .. n - 1
           total == SumTo(lens, n)
           longest(m) == m \in {lens[b] : b \in DOMAIN lens} /\ \A b \in DOMAIN lens : lens[b] <= m
<1>1. s \in Seq(Nat \ {0}) /\ s # <<>> /\ Len(c) >= total
  BY CellAssumption DEF CellAssumption
<1>2. n \in Nat \ {0}
  BY <1>1
<1>3. lens \in [N -> Nat \ {0}] /\ \A i \in N : i + 1 \in 1 .. n /\ lens[i] = s[i + 1]
  BY <1>1, FromZeroIs
<1>4. DOMAIN lens = N
  BY DEF FromZero
<1>5. Cardinality(N) = n
  <2>1. 0 \in Int /\ n - 1 \in Int
    BY <1>2
  <2>2. Cardinality(N) = IF 0 > n - 1 THEN 0 ELSE (n - 1) - 0 + 1
    BY <2>1, FS_Interval
  <2>3. QED
    BY <1>2, <2>2
<1>6. \E m : longest(m)
  <2> DEFINE f == [b \in 1 .. n |-> s[b]]
  <2>1. f \in [1 .. n -> Nat]
    BY <1>1
  <2>2. PICK d \in 1 .. n : \A b \in 1 .. n : f[b] <= f[d]
    <3> HIDE DEF f, n
    <3>1. QED
      BY <1>2, <2>1, LargestOf
  <2>3. d - 1 \in N /\ (d - 1) + 1 = d
    BY <1>2
  <2>4. lens[d - 1] = f[d]
    BY <1>3, <2>3
  <2>5. \A b \in N : lens[b] <= lens[d - 1]
    BY <1>3, <2>2, <2>4
  <2> HIDE DEF lens, N, f
  <2>6. QED
    BY <1>4, <2>3, <2>5
<1>7. st.max_len_in_batch = CHOOSE m : longest(m)
  <2>1. st.max_len_in_batch =
          CHOOSE m \in {lens[b] : b \in DOMAIN lens} : \A b \in DOMAIN lens : lens[b] <= m
    BY DEF PrefillState
  <2>2. QED
    BY <2>1
<1>8. longest(st.max_len_in_batch)
  <2> HIDE DEF longest, st
  <2>1. QED
    BY <1>6, <1>7
<1>9. st.max_len_in_batch \in Nat /\ \A b \in N : lens[b] <= st.max_len_in_batch
  BY <1>3, <1>4, <1>8
<1>10. total \in Nat
  <2>1. lens \in [0 .. n - 1 -> Nat]
    BY <1>3
  <2> HIDE DEF lens, n
  <2>2. n \in 0 .. n
    BY <1>2
  <2>3. QED
    BY <1>2, <2>1, <2>2, RunningSum
<1>11. /\ st.batch_size = n /\ st.rows = total /\ st.kv_group_num = group
       /\ st.b_seq_len = lens /\ st.b_start_loc = [b \in N |-> SumTo(lens, b)]
       /\ st.mem_index = [i \in 0 .. total - 1 |-> index[i]]
       /\ DOMAIN st.token = 0 .. total - 1
       /\ st.is_prefill = TRUE /\ st.decode_is_contiguous = FALSE
  <2> HIDE DEF lens, N, n
  <2>1. QED
    BY <1>4, <1>5 DEF PrefillState
<1>12. \A i, j \in DOMAIN st.mem_index : st.mem_index[i] = st.mem_index[j] => i = j
  <2>1. /\ Len(c) \in Nat
        /\ \A i, j \in 0 .. Len(c) - 1 : index[i] = index[j] => i = j
    BY CellsGiven
  <2> HIDE DEF index, total, st
  <2>2. 0 .. total - 1 \subseteq 0 .. Len(c) - 1
    BY <1>1, <1>10, <2>1
  <2>3. QED
    BY <1>11, <2>1, <2>2
<1> HIDE DEF st, lens, index, total, n
<1>13. lens \in [0 .. n - 1 -> Nat]
  BY <1>3
<1>14. InferOK(st)
  BY <1>2, <1>9, <1>10, <1>11, <1>12, <1>13 DEF InferOK, total
<1>15. QED
  BY <1>11, <1>14 DEF st, lens, index, n

(* A decode step gives each request a token and its cell.                  *)
LEMMA DecodeOK ==
  ASSUME InferOK(infer_state), NEW s \in PromptLens, infer_state.batch_size = Len(s),
         NEW c \in DecodeCells
  PROVE  /\ InferOK(DecodeState(infer_state, FromZero(c)))
         /\ DecodeState(infer_state, FromZero(c)).is_prefill = FALSE
         /\ DecodeState(infer_state, FromZero(c)).batch_size = Len(s)
<1> DEFINE old == infer_state
           index == FromZero(c)
           st == DecodeState(old, index)
           n == old.batch_size
           N == 0 .. n - 1
           lens == [b \in N |-> old.b_seq_len[b] + 1]
<1>1. /\ n \in Nat \ {0} /\ old.kv_group_num \in Nat \ {0} /\ old.max_len_in_batch \in Nat
      /\ old.b_seq_len \in [N -> Nat]
      /\ \A b \in N : old.b_start_loc[b] = SumTo(old.b_seq_len, b)
                        /\ old.b_seq_len[b] <= old.max_len_in_batch
  BY DEF InferOK
<1>2. Batches = N
  BY DEF Batches
<1>3. /\ st.batch_size = n /\ st.rows = n /\ st.kv_group_num = old.kv_group_num
      /\ st.b_seq_len = lens /\ st.b_start_loc = [b \in N |-> old.b_start_loc[b] + b]
      /\ st.mem_index = index /\ st.max_len_in_batch = old.max_len_in_batch + 1
      /\ DOMAIN st.token = N /\ st.is_prefill = FALSE
      /\ st.decode_is_contiguous = (\A b \in N : index[b] = index[0] + b)
  BY <1>2 DEF DecodeState
<1> HIDE DEF st
<1>4. Len(c) >= n
  BY CellAssumption DEF CellAssumption
<1>5. /\ Len(c) \in Nat /\ index \in [0 .. Len(c) - 1 -> Nat]
      /\ \A i, j \in 0 .. Len(c) - 1 : index[i] = index[j] => i = j
  BY CellsGiven
<1> HIDE DEF index, old
<1>6. lens \in [N -> Nat] /\ \A b \in N : lens[b] = old.b_seq_len[b] + 1
  BY <1>1
<1> HIDE DEF lens
<1>7. ASSUME NEW b \in N
      PROVE  st.b_start_loc[b] = SumTo(lens, b) /\ lens[b] <= st.max_len_in_batch
  <2>1. b \in 0 .. n
    BY <1>1
  <2>2. SumTo(lens, b) = SumTo(old.b_seq_len, b) + b
    <3> HIDE DEF n
    <3>1. QED
      BY <1>1, <1>6, <2>1, PartsGrow
  <2>3. st.b_start_loc[b] = SumTo(old.b_seq_len, b) + b
    BY <1>1, <1>3
  <2>4. old.b_seq_len[b] \in Nat
    BY <1>1
  <2>5. QED
    BY <1>1, <1>3, <1>6, <2>2, <2>3, <2>4
<1>8. DOMAIN st.mem_index = 0 .. Len(c) - 1
  BY <1>3, <1>5
<1>9. ASSUME st.decode_is_contiguous
      PROVE  /\ index[0] \in Nat
             /\ \A i \in N : index[0] + i \in {index[j] : j \in DOMAIN index}
  <2>1. \A b \in N : index[b] = index[0] + b
    BY <1>3, <1>9
  <2>2. N \subseteq DOMAIN index /\ 0 \in DOMAIN index
    BY <1>1, <1>4, <1>5
  <2> HIDE DEF N
  <2>3. QED
    BY <1>5, <2>1, <2>2
<1>10. InferOK(st)
  <2>1. st.mem_index = index /\ st.b_seq_len = lens /\ st.rows = n /\ st.batch_size = n
    BY <1>3
  <2>2. \A i, j \in DOMAIN st.mem_index : st.mem_index[i] = st.mem_index[j] => i = j
    BY <1>5, <1>8, <2>1
  <2>3. st.max_len_in_batch \in Nat /\ st.kv_group_num \in Nat \ {0}
    BY <1>1, <1>3
  <2>4. st.decode_is_contiguous =>
          /\ st.mem_index[0] \in Nat
          /\ \A i \in N : st.mem_index[0] + i \in GivenCells(st)
    BY <1>9, <2>1 DEF GivenCells
  <2>5. DOMAIN st.token = N /\ st.is_prefill = FALSE
    BY <1>3
  <2>6. st.b_seq_len \in [N -> Nat] /\ n \in Nat \ {0}
    BY <1>1, <1>6, <2>1
  <2>7. \A b \in N : st.b_start_loc[b] = SumTo(st.b_seq_len, b) /\ st.b_seq_len[b] <= st.max_len_in_batch
    BY <1>7, <2>1
  <2> HIDE DEF n
  <2>8. QED
    BY <2>1, <2>2, <2>3, <2>4, <2>5, <2>6, <2>7 DEF InferOK
<1>11. QED
  BY <1>3, <1>10 DEF st, old, index

LEMMA SharedLaunches ==
  ASSUME NEW st, NEW L, {"mm_q", "mm_k", "mm_v", "rotary_q", "rotary_k", "copy_k", "copy_v"} \subseteq L
  PROVE  /\ GetQkv \in Seq(L) /\ Len(GetQkv) = 5
         /\ PostCacheKv(st) \in Seq(L)
<1>1. /\ "mm_q" \in L /\ "mm_k" \in L /\ "mm_v" \in L /\ "rotary_q" \in L /\ "rotary_k" \in L
      /\ "copy_k" \in L /\ "copy_v" \in L
  OBVIOUS
<1>2. GetQkv \in Seq(L)
  BY ONLY <1>1, SMTT(30) DEF GetQkv
<1>3. Len(GetQkv) = 5
  BY ONLY DEF GetQkv
<1>4. PostCacheKv(st) \in Seq(L)
  <2>1. <<>> \in Seq(L)
    BY ONLY TRUE
  <2>2. <<"copy_k", "copy_v">> \in Seq(L)
    BY ONLY <1>1
  <2>3. QED
    BY ONLY <2>1, <2>2 DEF PostCacheKv
<1>5. QED
  BY <1>2, <1>3, <1>4

(* A list of five names and more is not empty.                             *)
LEMMA LaunchesOf ==
  ASSUME NEW L, NEW s \in Seq(L), NEW t \in Seq(L), NEW u \in Seq(L), Len(s) = 5
  PROVE  s \o t \o u \in Seq(L) /\ s \o t \o u # <<>>
<1>1. \A x, y \in Seq(L) : x \o y \in Seq(L) /\ Len(x \o y) = Len(x) + Len(y)
  OBVIOUS
<1>2. \A x \in Seq(L) : Len(x) \in Nat /\ (Len(x) > 0 => x # <<>>)
  OBVIOUS
<1> DEFINE r == s \o t
<1>3. r \in Seq(L) /\ Len(r) = Len(s) + Len(t)
  BY ONLY <1>1, s \in Seq(L), t \in Seq(L)
<1> HIDE DEF r
<1>4. r \o u \in Seq(L) /\ Len(r \o u) = Len(r) + Len(u)
  BY <1>1, <1>3
<1>5. Len(r \o u) > 0
  BY <1>2, <1>3, <1>4
<1>6. QED
  BY <1>2, <1>4, <1>5 DEF r

LEMMA PrefillLaunches ==
  ASSUME NEW st
  PROVE  /\ GetQkv \o PostCacheKv(st) \o ContextAttention \in Seq(NamesOf(TRUE))
         /\ GetQkv \o PostCacheKv(st) \o ContextAttention # <<>>
<1> DEFINE L == NamesOf(TRUE)
<1>1. {"mm_q", "mm_k", "mm_v", "rotary_q", "rotary_k", "copy_k", "copy_v"} \subseteq L /\ "context" \in L
  BY DEF NamesOf
<1> HIDE DEF L
<1>2. ContextAttention \in Seq(L)
  BY <1>1 DEF ContextAttention
<1>3. GetQkv \in Seq(L) /\ Len(GetQkv) = 5 /\ PostCacheKv(st) \in Seq(L)
  BY <1>1, SharedLaunches
<1>4. /\ GetQkv \o PostCacheKv(st) \o ContextAttention \in Seq(L)
      /\ GetQkv \o PostCacheKv(st) \o ContextAttention # <<>>
  BY <1>2, <1>3, LaunchesOf
<1>5. QED
  BY <1>4 DEF L

LEMMA DecodeLaunches ==
  ASSUME NEW st, NEW version
  PROVE  /\ GetQkv \o PostCacheKv(st) \o TokenAttention(version) \in Seq(NamesOf(FALSE))
         /\ GetQkv \o PostCacheKv(st) \o TokenAttention(version) # <<>>
<1> DEFINE L == NamesOf(FALSE)
           u == TokenAttention(version)
<1>1. /\ {"mm_q", "mm_k", "mm_v", "rotary_q", "rotary_k", "copy_k", "copy_v"} \subseteq L
      /\ "att1" \in L /\ "softmax" \in L /\ "att2" \in L /\ "reducev" \in L
  BY DEF NamesOf
<1> HIDE DEF L
<1>2. u \in Seq(L)
  <2>1. <<"att1", "softmax", "att2">> \in Seq(L) /\ <<"att1", "reducev">> \in Seq(L)
    BY ONLY <1>1, SMTT(30)
  <2>2. QED
    BY ONLY <2>1 DEF TokenAttention
<1> HIDE DEF u
<1>3. GetQkv \in Seq(L) /\ Len(GetQkv) = 5 /\ PostCacheKv(st) \in Seq(L)
  BY <1>1, SharedLaunches
<1>4. /\ GetQkv \o PostCacheKv(st) \o u \in Seq(L)
      /\ GetQkv \o PostCacheKv(st) \o u # <<>>
  BY <1>2, <1>3, LaunchesOf
<1>5. QED
  BY <1>4 DEF L, u

LEMMA AttentionBegins == AttentionInit => AttentionInv
<1> SUFFICES ASSUME AttentionInit PROVE AttentionInv
  OBVIOUS
<1>1. PICK lens \in PromptLens, index \in PrefillCells :
        /\ model \in {"llama", "llama2"} \X {"2.0.0", "2.1.0"}
        /\ infer_state = PrefillState(FromZero(lens), FromZero(index), IF model[1] = "llama" THEN 1 ELSE 2)
        /\ launches = GetQkv \o PostCacheKv(infer_state) \o ContextAttention
        /\ cells = DecodeCells
  BY DEF AttentionInit
<1> DEFINE group == IF model[1] = "llama" THEN 1 ELSE 2
<1>2. group \in Nat \ {0}
  OBVIOUS
<1> HIDE DEF group
<1>3. InferOK(infer_state) /\ infer_state.is_prefill = TRUE /\ infer_state.batch_size = Len(lens)
  BY <1>1, <1>2, PrefillOK DEF group
<1>4. ~infer_state.decode_is_contiguous
  BY <1>1 DEF PrefillState
<1>5. launches \in Seq(NamesOf(TRUE)) /\ launches # <<>>
  BY <1>1, <1>4, PrefillLaunches
<1>6. QED
  BY <1>1, <1>3, <1>5 DEF AttentionInv

LEMMA AttentionStep == AttentionInv /\ [AttentionNext]_attentionVars => AttentionInv'
<1> SUFFICES ASSUME AttentionInv, [AttentionNext]_attentionVars PROVE AttentionInv'
  OBVIOUS
<1>1. ASSUME UNCHANGED <<infer_state, model, cells>>,
             launches' \in Seq(NamesOf(infer_state.is_prefill)) /\ launches' # <<>>
      PROVE  AttentionInv'
  BY <1>1 DEF AttentionInv, InferOK, GivenCells
<1>2. CASE \E p \in grid : RunProgram(p)
  BY <1>1, <1>2 DEF RunProgram, Run, layerVars, AttentionInv
<1>3. CASE NextLaunch
  <2>1. UNCHANGED <<infer_state, model, cells>> /\ Len(launches) > 1 /\ launches' = Tail(launches)
    BY <1>3 DEF NextLaunch, Launch, layerVars
  <2>2. launches' \in Seq(NamesOf(infer_state.is_prefill)) /\ launches' # <<>>
    <3> DEFINE L == NamesOf(infer_state.is_prefill)
    <3>1. launches \in Seq(L)
      BY DEF AttentionInv
    <3> HIDE DEF L
    <3>2. Tail(launches) \in Seq(L) /\ Len(Tail(launches)) = Len(launches) - 1
      BY <2>1, <3>1
    <3>3. Len(Tail(launches)) > 0
      BY <2>1, <3>1, <3>2
    <3>4. \A s \in Seq(L) : Len(s) > 0 => s # <<>>
      OBVIOUS
    <3>5. QED
      BY <2>1, <3>2, <3>3, <3>4 DEF L
  <2>3. QED
    BY <1>1, <2>1, <2>2
<1>4. CASE \E index \in cells : DecodeForward(index)
  <2>1. PICK index \in cells :
          /\ infer_state' = DecodeState(infer_state, FromZero(index))
          /\ launches' = GetQkv \o PostCacheKv(infer_state') \o TokenAttention(model[2])
          /\ cells' = cells \ {index} /\ model' = model
    BY <1>4 DEF DecodeForward
  <2>2. PICK lens \in PromptLens : infer_state.batch_size = Len(lens)
    BY DEF AttentionInv
  <2>3. index \in DecodeCells /\ InferOK(infer_state)
    BY DEF AttentionInv
  <2> DEFINE next == DecodeState(infer_state, FromZero(index))
  <2>4. InferOK(next) /\ next.is_prefill = FALSE /\ next.batch_size = Len(lens)
    BY <2>2, <2>3, DecodeOK
  <2> HIDE DEF next
  <2>5. infer_state' = next
    BY <2>1 DEF next
  <2>6. InferOK(infer_state') /\ infer_state'.is_prefill = FALSE /\ infer_state'.batch_size = Len(lens)
    BY <2>4, <2>5
  <2>7. launches' \in Seq(NamesOf(FALSE)) /\ launches' # <<>>
    BY <2>1, DecodeLaunches
  <2>8. cells' \subseteq DecodeCells /\ model' \in {"llama", "llama2"} \X {"2.0.0", "2.1.0"}
    BY <2>1 DEF AttentionInv
  <2>9. QED
    BY <2>6, <2>7, <2>8 DEF AttentionInv
<1>5. CASE UNCHANGED attentionVars
  BY <1>1, <1>5 DEF attentionVars, layerVars, launchVars, AttentionInv
<1>6. QED
  BY <1>2, <1>3, <1>4, <1>5 DEF AttentionNext

(* No program of a launch of attention stores outside what the forward     *)
(* allocated, or where another one of the launch stores.                   *)
THEOREM AttentionStoresAreOwn == AttentionSpec => []StoresStayOwn
<1>1. AttentionSpec => []AttentionInv
  BY AttentionBegins, AttentionStep, PTL DEF AttentionSpec
<1>2. QED
  BY <1>1, AttentionInvOwn, PTL

-----------------------------------------------------------------------------
(* What the attention kernels compute (AttentionLayer): softmax attention.  *)

(* Of n columns, those from m + 1 on are masked.                           *)
MaskedFrom(s, n, m) ==
  /\ DOMAIN s = 1 .. n /\ Len(s) = n
  /\ \A c \in 1 .. m : s[c] # NegInf
  /\ \A c \in m + 1 .. n : s[c] = NegInf
WeighFirst(s, m) == Weighing(s) = [i \in 1 .. m |-> i]
KeepFirst(s, m) == Finite(s) = [i \in 1 .. m |-> s[i]]

LEMMA WeighingIs ==
  ASSUME NEW n \in Nat, NEW m \in 0 .. n, NEW s, MaskedFrom(s, n, m)
  PROVE  WeighFirst(s, m) /\ KeepFirst(s, m)
<1> USE DEF MaskedFrom
<1> DEFINE N == 0 .. n
           f == CHOOSE f : f = [c \in N |-> IF c = 0 THEN <<>>
                                            ELSE IF s[c] = NegInf THEN f[c - 1] ELSE Append(f[c - 1], c)]
           low(c) == IF c <= m THEN c ELSE m
           h == [c \in N |-> [i \in 1 .. low(c) |-> i]]
<1>1. Weighing(s) = f[n]
  BY Zenon DEF Weighing
<1>2. ASSUME NEW c \in N
      PROVE  h[c] = IF c = 0 THEN <<>> ELSE IF s[c] = NegInf THEN h[c - 1] ELSE Append(h[c - 1], c)
  <2>0. h[c] = [i \in 1 .. low(c) |-> i]
    OBVIOUS
  <2>1. CASE c = 0
    <3>1. 1 .. low(c) = {}
      BY <2>1
    <3>2. \A i \in 1 .. low(c) : FALSE
      BY <3>1
    <3>3. h[c] = <<>>
      BY <2>0, <3>1
    <3>4. QED
      BY <2>1, <3>3
  <2>2. CASE c # 0 /\ c <= m
    <3>1. c \in 1 .. m /\ c - 1 \in N /\ low(c) = c /\ low(c - 1) = c - 1 /\ s[c] # NegInf
      BY <2>2
    <3>2. h[c - 1] = [i \in 1 .. c - 1 |-> i] /\ h[c] = [i \in 1 .. c |-> i]
      BY <3>1
    <3>3. Append([i \in 1 .. c - 1 |-> i], c) = [i \in 1 .. c |-> i]
      <4>1. c - 1 \in Nat /\ c \in Nat /\ (c - 1) + 1 = c
        BY <3>1
      <4> DEFINE u == [i \in 1 .. c - 1 |-> i]
                 v == Append(u, c)
                 w == [i \in 1 .. c |-> i]
      <4>2. u \in Seq(Nat) /\ Len(u) = c - 1
        BY <4>1
      <4>3. v \in Seq(Nat) /\ Len(v) = c /\ v[c] = c /\ \A i \in 1 .. c - 1 : v[i] = u[i]
        BY <4>1, <4>2
      <4>4. w \in Seq(Nat) /\ Len(w) = c /\ \A i \in 1 .. c : w[i] = i
        BY <4>1
      <4>5. \A i \in 1 .. c - 1 : u[i] = i
        BY <4>1
      <4>6. \A i \in 1 .. c : i = c \/ i \in 1 .. c - 1
        BY <4>1
      <4> HIDE DEF u, v, w
      <4>7. \A i \in 1 .. c : v[i] = w[i]
        BY <4>3, <4>4, <4>5, <4>6
      <4>8. v = w
        BY <4>3, <4>4, <4>7
      <4>9. QED
        BY <4>8 DEF u, v, w
    <3> HIDE DEF h
    <3>4. QED
      BY <2>2, <3>1, <3>2, <3>3
  <2>3. CASE ~(c <= m)
    <3>1. c \in m + 1 .. n /\ c # 0 /\ c - 1 \in N /\ low(c) = m /\ low(c - 1) = m
      BY <2>3
    <3>2. s[c] = NegInf
      BY <3>1
    <3>3. h[c - 1] = h[c]
      BY <3>1
    <3> HIDE DEF h
    <3>4. QED
      BY <3>1, <3>2, <3>3
  <2>4. QED
    BY <2>1, <2>2, <2>3
<1>3. h = [c \in N |-> h[c]]
  OBVIOUS
<1>4. n \in N /\ h[n] = [i \in 1 .. m |-> i]
  OBVIOUS
<1> HIDE DEF h
<1>5. h = [c \in N |-> IF c = 0 THEN <<>> ELSE IF s[c] = NegInf THEN h[c - 1] ELSE Append(h[c - 1], c)]
  <2> HIDE DEF N
  <2>1. QED
    BY <1>2, <1>3
<1>6. f = [c \in N |-> IF c = 0 THEN <<>> ELSE IF s[c] = NegInf THEN f[c - 1] ELSE Append(f[c - 1], c)]
  <2> HIDE DEF N
  <2>1. \E u : u = [c \in N |-> IF c = 0 THEN <<>> ELSE IF s[c] = NegInf THEN u[c - 1] ELSE Append(u[c - 1], c)]
    BY <1>5, Zenon
  <2>2. QED
    BY <2>1, Zenon
<1> HIDE DEF f
<1>7. \A c \in N : f[c] = IF c = 0 THEN <<>> ELSE IF s[c] = NegInf THEN f[c - 1] ELSE Append(f[c - 1], c)
  BY <1>6, Zenon
<1> DEFINE Bad == {c \in N : f[c] # h[c]}
<1>8. Bad = {}
  <2>1. SUFFICES ASSUME Bad # {} PROVE FALSE
    OBVIOUS
  <2>2. PICK c \in Bad : \A x \in Bad : c <= x
    <3>1. Bad \in SUBSET Nat /\ Bad # {}
      BY <2>1
    <3> HIDE DEF Bad
    <3>2. \E c \in Bad : \A x \in Bad : c <= x
      BY ONLY <3>1, LeastNumber
    <3>3. QED
      BY <3>2
  <2>3. c \in N /\ f[c] # h[c]
    BY <2>2
  <2>4. c # 0
    BY <1>2, <1>7, <2>3
  <2>5. c - 1 \in N /\ ~(c <= c - 1)
    BY <2>3, <2>4
  <2>6. f[c - 1] = h[c - 1]
    BY <2>2, <2>5
  <2>7. QED
    BY <1>2, <1>7, <2>3, <2>4, <2>6
<1>9. f[n] = h[n]
  BY <1>4, <1>8
<1>10. Weighing(s) = [i \in 1 .. m |-> i]
  BY <1>1, <1>4, <1>9
<1> HIDE DEF N
<1>11. Finite(s) = [i \in 1 .. m |-> s[i]]
  <2>1. DOMAIN Weighing(s) = 1 .. m /\ \A i \in 1 .. m : Weighing(s)[i] = i
    BY <1>10
  <2>2. Finite(s) = [i \in DOMAIN Weighing(s) |-> s[Weighing(s)[i]]]
    BY DEF Finite
  <2>3. QED
    BY <2>1, <2>2
<1>12. QED
  BY <1>10, <1>11 DEF WeighFirst, KeepFirst

(* The first x scores, and the terms of the first x columns over them.     *)
ScoresTo(score, x) == [k \in 1 .. x |-> score[k - 1]]
TermsOver(score, value, x, norm) == [i \in 1 .. x |-> <<score[i - 1], value[i - 1], norm>>]
SoftmaxTo(score, value, x) ==
  [norm |-> ScoresTo(score, x), acc |-> TermsOver(score, value, x, ScoresTo(score, x))]

LEMMA ScoresJoin ==
  ASSUME NEW x \in Nat, NEW m \in Nat, NEW score, NEW t, DOMAIN t = 1 .. m,
         t = [i \in 1 .. m |-> t[i]], \A i \in 1 .. m : t[i] = score[x + i - 1]
  PROVE  ScoresTo(score, x) \o t = ScoresTo(score, x + m)
<1> DEFINE S == {t[i] : i \in 1 .. m}
           at == [k \in Nat |-> score[k - 1]]
<1>1. t \in Seq(S) /\ Len(t) = m
  <2>1. t \in [1 .. m -> S]
    OBVIOUS
  <2> HIDE DEF S
  <2>2. QED
    BY <2>1
<1>2. GoesOn(at, x, t)
  <2>1. \A j \in 1 .. m : at[x + j] = score[x + j - 1]
    OBVIOUS
  <2> HIDE DEF at
  <2>2. QED
    BY <1>1, <2>1 DEF GoesOn
<1>3. ASSUME NEW y \in Nat PROVE [p \in 1 .. y |-> at[p]] = ScoresTo(score, y)
  <2>1. \A p \in 1 .. y : at[p] = score[p - 1]
    OBVIOUS
  <2> HIDE DEF at
  <2>2. QED
    BY <2>1 DEF ScoresTo
<1> HIDE DEF S, at
<1>4. ExtendedBy(at, x, t)
  BY ONLY <1>1, <1>2, x \in Nat, JoinAt
<1>5. [p \in 1 .. x |-> at[p]] \o t = [p \in 1 .. x + m |-> at[p]]
  BY ONLY <1>1, <1>4 DEF ExtendedBy
<1>6. [p \in 1 .. x |-> at[p]] = ScoresTo(score, x) /\ [p \in 1 .. x + m |-> at[p]] = ScoresTo(score, x + m)
  BY <1>3, x \in Nat, x + m \in Nat
<1>7. QED
  BY ONLY <1>5, <1>6

TermsFrom(t, m, score, value, x, norm) ==
  /\ DOMAIN t = 1 .. m /\ t = [i \in 1 .. m |-> t[i]]
  /\ \A i \in 1 .. m : t[i] = <<score[x + i - 1], value[x + i - 1], norm>>

LEMMA TermsJoin ==
  ASSUME NEW x \in Nat, NEW m \in Nat, NEW score, NEW value, NEW norm, NEW t,
         TermsFrom(t, m, score, value, x, norm)
  PROVE  TermsOver(score, value, x, norm) \o t = TermsOver(score, value, x + m, norm)
<1> USE DEF TermsFrom
<1> DEFINE S == {t[i] : i \in 1 .. m}
           at == [k \in Nat |-> <<score[k - 1], value[k - 1], norm>>]
<1>1. t \in Seq(S) /\ Len(t) = m
  <2>1. t \in [1 .. m -> S]
    OBVIOUS
  <2> HIDE DEF S
  <2>2. QED
    BY <2>1
<1>2. GoesOn(at, x, t)
  <2>1. \A j \in 1 .. m : at[x + j] = <<score[x + j - 1], value[x + j - 1], norm>>
    OBVIOUS
  <2> HIDE DEF at
  <2>2. QED
    BY <1>1, <2>1 DEF GoesOn
<1>3. ASSUME NEW y \in Nat PROVE [p \in 1 .. y |-> at[p]] = TermsOver(score, value, y, norm)
  <2>1. \A p \in 1 .. y : at[p] = <<score[p - 1], value[p - 1], norm>>
    OBVIOUS
  <2> HIDE DEF at
  <2>2. QED
    BY <2>1 DEF TermsOver
<1> HIDE DEF S, at
<1>4. ExtendedBy(at, x, t)
  BY ONLY <1>1, <1>2, x \in Nat, JoinAt
<1>5. [p \in 1 .. x |-> at[p]] \o t = [p \in 1 .. x + m |-> at[p]]
  BY ONLY <1>1, <1>4 DEF ExtendedBy
<1>6. [p \in 1 .. x |-> at[p]] = TermsOver(score, value, x, norm) /\ [p \in 1 .. x + m |-> at[p]] = TermsOver(score, value, x + m, norm)
  BY <1>3, x \in Nat, x + m \in Nat
<1>7. QED
  BY ONLY <1>5, <1>6

(* A block adds the terms of its columns and rescales those before.        *)
AddsTo(score, value, x, m, s, v) ==
  AddBlock(SoftmaxTo(score, value, x), s, v) = SoftmaxTo(score, value, x + m)
BlockAt(f, x, block, t) == t = [c \in 1 .. block |-> f[x + c - 1]]
NoJunk(f, n) == \A c \in 1 .. n : f[c] # Junk

LEMMA AddBlockIs ==
  ASSUME NEW x \in Nat, NEW block \in Nat \ {0}, NEW m \in 1 .. block, NEW score, NEW value,
         NEW s, BlockAt(score, x, block, s), NEW v, BlockAt(value, x, block, v),
         MaskedFrom(s, block, m), NoJunk(s, block), NoJunk(v, block)
  PROVE  AddsTo(score, value, x, m, s, v)
<1> DEFINE old == SoftmaxTo(score, value, x)
           norm == old.norm \o Finite(s)
           columns == Weighing(s)
           terms == [i \in DOMAIN columns |-> <<s[columns[i]], v[columns[i]], norm>>]
           broken == \/ columns = <<>>
                     \/ \E c \in DOMAIN s : Junk \in {s[c], v[c]}
           full == ScoresTo(score, x + m)
<1>1. /\ m \in Nat /\ m \in 0 .. block /\ block \in Nat /\ 1 .. m \subseteq 1 .. block
      /\ x + m \in Nat /\ m # 0
  OBVIOUS
<1>2. WeighFirst(s, m) /\ KeepFirst(s, m)
  BY <1>1, WeighingIs
<1>3. columns = [i \in 1 .. m |-> i] /\ Finite(s) = [i \in 1 .. m |-> s[i]]
  BY <1>2 DEF WeighFirst, KeepFirst
<1>4. AddBlock(old, s, v) =
        [norm |-> norm, acc |-> IF broken THEN <<NaN>> ELSE Rescaled(old.acc, old.norm, norm) \o terms]
  BY DEF AddBlock
<1>5. /\ \A i \in 1 .. block : s[i] = score[x + i - 1] /\ v[i] = value[x + i - 1]
      /\ DOMAIN s = 1 .. block /\ DOMAIN v = 1 .. block
  BY DEF BlockAt
<1>6. ~broken
  <2>1. columns # <<>>
    <3>1. 1 \in DOMAIN columns
      BY <1>1, <1>3
    <3>2. QED
      BY <3>1
  <2>2. ASSUME NEW c \in DOMAIN s PROVE Junk \notin {s[c], v[c]}
    BY <1>5 DEF NoJunk
  <2>3. QED
    BY <2>1, <2>2
<1>7. old.norm = ScoresTo(score, x) /\ old.acc = TermsOver(score, value, x, ScoresTo(score, x))
  BY DEF SoftmaxTo
<1> HIDE DEF old
<1>8. norm = full
  <2> DEFINE t == Finite(s)
  <2>1. DOMAIN t = 1 .. m /\ t = [i \in 1 .. m |-> t[i]] /\ \A i \in 1 .. m : t[i] = score[x + i - 1]
    BY <1>1, <1>3, <1>5
  <2> HIDE DEF t
  <2>2. ScoresTo(score, x) \o t = ScoresTo(score, x + m)
    BY <1>1, <2>1, ScoresJoin
  <2>3. QED
    BY <1>7, <2>2 DEF t
<1> HIDE DEF norm, full
<1>9. DOMAIN terms = 1 .. m /\ \A i \in 1 .. m : terms[i] = <<score[x + i - 1], value[x + i - 1], full>>
  BY <1>1, <1>3, <1>5, <1>8
<1>10. terms = [i \in 1 .. m |-> terms[i]]
  <2>1. DOMAIN columns = 1 .. m
    BY <1>3
  <2> HIDE DEF columns
  <2>2. QED
    BY <2>1
<1> HIDE DEF columns, terms, broken
<1>11. Rescaled(old.acc, old.norm, norm) = TermsOver(score, value, x, full)
  <2> DEFINE acc == TermsOver(score, value, x, ScoresTo(score, x))
             u == Rescaled(acc, ScoresTo(score, x), full)
             w == TermsOver(score, value, x, full)
  <2>1. DOMAIN acc = 1 .. x /\ \A i \in 1 .. x : acc[i] = <<score[i - 1], value[i - 1], ScoresTo(score, x)>>
    BY DEF TermsOver
  <2>2. u = [i \in DOMAIN acc |-> IF acc[i][3] = ScoresTo(score, x)
                                    THEN <<acc[i][1], acc[i][2], full>> ELSE acc[i]]
    BY Zenon DEF Rescaled
  <2>3. w = [i \in 1 .. x |-> <<score[i - 1], value[i - 1], full>>]
    BY DEF TermsOver
  <2> HIDE DEF acc, u, w
  <2>4. \A i \in 1 .. x : u[i] = w[i]
    BY <2>1, <2>2, <2>3
  <2>5. u = [i \in 1 .. x |-> u[i]] /\ w = [i \in 1 .. x |-> w[i]]
    BY <2>1, <2>2, <2>3
  <2>6. u = w
    BY <2>4, <2>5
  <2>7. old.acc = acc /\ old.norm = ScoresTo(score, x) /\ norm = full
    BY <1>7, <1>8 DEF acc
  <2>8. Rescaled(old.acc, old.norm, norm) = u
    BY ONLY <2>7 DEF u
  <2>9. QED
    BY ONLY <2>6, <2>8 DEF w
<1>12. Rescaled(old.acc, old.norm, norm) \o terms = TermsOver(score, value, x + m, full)
  <2>1. TermsOver(score, value, x, full) \o terms = TermsOver(score, value, x + m, full)
    <3>1. TermsFrom(terms, m, score, value, x, full)
      BY <1>9, <1>10 DEF TermsFrom
    <3>2. QED
      BY ONLY <1>1, <3>1, x \in Nat, TermsJoin
  <2>2. QED
    BY <1>11, <2>1
<1>13. AddBlock(old, s, v) = [norm |-> full, acc |-> TermsOver(score, value, x + m, full)]
  BY <1>4, <1>6, <1>8, <1>12
<1>14. QED
  BY <1>13 DEF AddsTo, SoftmaxTo, old, full

(* Block by block: the columns before c weigh, those from c on do not, and *)
(* every block has one that does.                                          *)
Weighted(score, value, n, c) ==
  /\ \A j \in 0 .. c - 1 : score[j] # NegInf
  /\ \A j \in c .. n - 1 : score[j] = NegInf
  /\ \A j \in 0 .. n - 1 : score[j] # Junk /\ value[j] # Junk
SoftmaxOf(acc, score, value, c) == acc = TermsOver(score, value, c, ScoresTo(score, c))

LEMMA BlocksAre ==
  ASSUME NEW blocks \in Nat \ {0}, NEW block \in Nat \ {0}, NEW c \in Nat,
         (blocks - 1) * block < c, c <= blocks * block,
         NEW score, NEW value, Weighted(score, value, blocks * block, c)
  PROVE  SoftmaxOf(OverBlocks(blocks, block, score, value), score, value, c)
<1> DEFINE N == 0 .. blocks
           Cut(n, f) == [k \in 1 .. block |-> f[n * block + k - 1]]
           empty == [norm |-> <<>>, acc |-> <<>>]
           f == CHOOSE f : f = [n \in N |-> IF n = 0 THEN empty
                                            ELSE AddBlock(f[n - 1], Cut(n - 1, score), Cut(n - 1, value))]
           low(n) == IF n = blocks THEN c ELSE n * block
           h == [n \in N |-> SoftmaxTo(score, value, low(n))]
<1>1. OverBlocks(blocks, block, score, value) = f[blocks].acc
  BY Zenon DEF OverBlocks
<1>2. \A n \in N : h[n] = SoftmaxTo(score, value, low(n))
  OBVIOUS
<1>3. h[0] = empty
  <2>1. low(0) = 0 /\ 0 \in N
    OBVIOUS
  <2>2. h[0] = SoftmaxTo(score, value, 0)
    BY <1>2, <2>1
  <2>3. ScoresTo(score, 0) = <<>> /\ \A norm : TermsOver(score, value, 0, norm) = <<>>
    <3>1. 1 .. 0 = {}
      OBVIOUS
    <3>2. ScoresTo(score, 0) = [k \in {} |-> score[k - 1]]
      BY <3>1 DEF ScoresTo
    <3>3. \A norm : TermsOver(score, value, 0, norm) = [i \in {} |-> <<score[i - 1], value[i - 1], norm>>]
      BY <3>1 DEF TermsOver
    <3>4. QED
      BY <3>2, <3>3
  <2>4. QED
    BY <2>2, <2>3 DEF SoftmaxTo
<1>4. ASSUME NEW n \in N, n # 0
      PROVE  h[n] = AddBlock(h[n - 1], Cut(n - 1, score), Cut(n - 1, value))
  <2> DEFINE x == (n - 1) * block
             m == low(n) - x
             s == Cut(n - 1, score)
             v == Cut(n - 1, value)
  <2>1. n \in Nat /\ n - 1 \in N /\ n - 1 \in Nat /\ n - 1 # blocks /\ n <= blocks
    BY <1>4
  <2>2. x \in Nat /\ n * block = x + block /\ low(n - 1) = x
    BY <2>1
  <2>3. m \in 1 .. block /\ low(n) = x + m /\ low(n) <= c
    <3>1. CASE n = blocks
      BY <2>1, <2>2, <3>1
    <3>2. CASE n # blocks
      <4>1. n <= blocks - 1 /\ n * block \in Nat /\ (blocks - 1) * block \in Nat
        BY <2>1, <3>2
      <4>2. n * block <= (blocks - 1) * block
        BY <2>1, <4>1
      <4>3. low(n) = x + block
        BY <2>2, <3>2
      <4>4. QED
        BY <2>2, <4>1, <4>2, <4>3
    <3>3. QED
      BY <3>1, <3>2
  <2>4. n * block <= blocks * block /\ blocks * block \in Nat
    BY <2>1
  <2>5. /\ n = blocks => low(n) = c
        /\ n # blocks => low(n) = x + block
    BY <2>2
  <2> HIDE DEF x, low, h
  <2>6. \A k \in 1 .. block : s[k] = score[x + k - 1] /\ v[k] = value[x + k - 1]
    BY DEF x
  <2>7. \A k \in 1 .. block : x + k - 1 \in 0 .. blocks * block - 1
    BY <2>2, <2>4
  <2>8. BlockAt(score, x, block, s) /\ BlockAt(value, x, block, v)
    BY DEF BlockAt, x
  <2>9. NoJunk(s, block) /\ NoJunk(v, block)
    BY <2>6, <2>7 DEF NoJunk, Weighted
  <2>10. MaskedFrom(s, block, m)
    <3>1. DOMAIN s = 1 .. block /\ Len(s) = block
      OBVIOUS
    <3>2. ASSUME NEW k \in 1 .. m PROVE s[k] # NegInf
      <4>1. k \in 1 .. block /\ x + k - 1 \in 0 .. c - 1
        BY <2>2, <2>3
      <4>2. QED
        BY <2>6, <4>1 DEF Weighted
    <3>3. ASSUME NEW k \in m + 1 .. block PROVE s[k] = NegInf
      <4>1. k \in 1 .. block /\ x + k - 1 \in Nat
        BY <2>2, <2>3
      <4>2. x + k - 1 \in c .. blocks * block - 1
        BY <2>2, <2>3, <2>5, <2>7, <4>1
      <4>3. QED
        BY <2>6, <4>1, <4>2 DEF Weighted
    <3>4. QED
      BY <3>1, <3>2, <3>3 DEF MaskedFrom
  <2> HIDE DEF s, v, m
  <2>11. AddsTo(score, value, x, m, s, v)
    BY <2>2, <2>3, <2>8, <2>9, <2>10, AddBlockIs
  <2>12. h[n - 1] = SoftmaxTo(score, value, x) /\ h[n] = SoftmaxTo(score, value, x + m)
    BY <1>2, <2>1, <2>2, <2>3
  <2>13. QED
    BY <2>11, <2>12 DEF AddsTo, s, v
<1>5. h = [n \in N |-> h[n]] /\ 0 \in N /\ blocks \in N
  OBVIOUS
<1>6. h[blocks].acc = TermsOver(score, value, c, ScoresTo(score, c))
  BY <1>2, <1>5 DEF SoftmaxTo
<1> HIDE DEF h, empty, Cut
<1>7. h = [n \in N |-> IF n = 0 THEN empty ELSE AddBlock(h[n - 1], Cut(n - 1, score), Cut(n - 1, value))]
  <2> HIDE DEF N
  <2>1. \A n \in N : h[n] = IF n = 0 THEN empty ELSE AddBlock(h[n - 1], Cut(n - 1, score), Cut(n - 1, value))
    BY <1>3, <1>4
  <2>2. QED
    BY <1>5, <2>1
<1>8. f = [n \in N |-> IF n = 0 THEN empty ELSE AddBlock(f[n - 1], Cut(n - 1, score), Cut(n - 1, value))]
  <2> HIDE DEF N
  <2>1. \E u : u = [n \in N |-> IF n = 0 THEN empty ELSE AddBlock(u[n - 1], Cut(n - 1, score), Cut(n - 1, value))]
    BY <1>7, Zenon
  <2>2. QED
    BY <2>1, Zenon
<1> HIDE DEF f
<1>9. \A n \in N : f[n] = IF n = 0 THEN empty ELSE AddBlock(f[n - 1], Cut(n - 1, score), Cut(n - 1, value))
  BY <1>8, Zenon
<1> DEFINE Bad == {n \in N : f[n] # h[n]}
<1>10. Bad = {}
  <2>1. SUFFICES ASSUME Bad # {} PROVE FALSE
    OBVIOUS
  <2>2. PICK n \in Bad : \A y \in Bad : n <= y
    <3>1. Bad \in SUBSET Nat /\ Bad # {}
      BY <2>1
    <3> HIDE DEF Bad
    <3>2. \E n \in Bad : \A y \in Bad : n <= y
      BY ONLY <3>1, LeastNumber
    <3>3. QED
      BY <3>2
  <2>3. n \in N /\ f[n] # h[n]
    BY <2>2
  <2>4. n # 0
    <3>1. f[0] = empty
      BY ONLY <1>5, <1>9, Zenon
    <3>2. QED
      BY ONLY <1>3, <2>3, <3>1
  <2>5. n - 1 \in N /\ ~(n <= n - 1)
    <3>1. n \in N
      BY <2>3
    <3>2. QED
      BY ONLY <2>4, <3>1, blocks \in Nat \ {0}
  <2>6. f[n - 1] = h[n - 1]
    BY <2>2, <2>5
  <2>7. f[n] = AddBlock(h[n - 1], Cut(n - 1, score), Cut(n - 1, value))
    <3>1. f[n] = AddBlock(f[n - 1], Cut(n - 1, score), Cut(n - 1, value))
      BY <1>9, <2>3, <2>4
    <3>2. QED
      BY ONLY <2>6, <3>1
  <2>8. h[n] = AddBlock(h[n - 1], Cut(n - 1, score), Cut(n - 1, value))
    BY <1>4, <2>3, <2>4
  <2>9. QED
    BY ONLY <2>3, <2>7, <2>8
<1>11. f[blocks] = h[blocks]
  BY <1>5, <1>10
<1>12. QED
  BY <1>1, <1>6, <1>11 DEF SoftmaxOf

(* The launches of a forward, in their order.                              *)
Nth(name) ==
  CASE name = "mm_q" -> 1 [] name = "rotary_q" -> 2 [] name = "mm_k" -> 3 [] name = "rotary_k" -> 4
    [] name = "mm_v" -> 5 [] name = "copy_k" -> 6 [] name = "copy_v" -> 7
    [] name \in {"context", "att1"} -> 8 [] name = "softmax" -> 9 [] name \in {"att2", "reducev"} -> 10
CopiesOf(contiguous) == IF contiguous THEN {} ELSE {"copy_k", "copy_v"}
ScoringOf(prefill, version) ==
  IF prefill THEN {"context"}
  ELSE IF version = "2.0.0" THEN {"att1", "softmax", "att2"} ELSE {"att1", "reducev"}
ForwardOf(st, version) ==
  {"mm_q", "rotary_q", "mm_k", "rotary_k", "mm_v"}
    \cup CopiesOf(st.decode_is_contiguous) \cup ScoringOf(st.is_prefill, version)
Forward == ForwardOf(infer_state, model[2])

NamesIn(s) == {s[i] : i \in DOMAIN s}
Climbs(s, lo, hi) ==
  /\ \A i \in DOMAIN s : Nth(s[i]) \in lo .. hi
  /\ \A i, j \in DOMAIN s : i < j => Nth(s[i]) < Nth(s[j])

LEMMA Nths ==
  /\ Nth("mm_q") = 1 /\ Nth("rotary_q") = 2 /\ Nth("mm_k") = 3 /\ Nth("rotary_k") = 4
  /\ Nth("mm_v") = 5 /\ Nth("copy_k") = 6 /\ Nth("copy_v") = 7
  /\ Nth("context") = 8 /\ Nth("att1") = 8 /\ Nth("softmax") = 9
  /\ Nth("att2") = 10 /\ Nth("reducev") = 10
BY DEF Nth

(* One list after another.                                                 *)
JoinClimb(s, t, lo, hi) == Climbs(s \o t, lo, hi) /\ NamesIn(s \o t) = NamesIn(s) \cup NamesIn(t)

LEMMA ClimbsJoin ==
  ASSUME NEW L, NEW s \in Seq(L), NEW t \in Seq(L),
         NEW lo \in Nat, NEW mid \in Nat, NEW from \in Nat, NEW hi \in Nat,
         Climbs(s, lo, mid), Climbs(t, from, hi), lo <= from, mid < from, mid <= hi
  PROVE  JoinClimb(s, t, lo, hi)
<1> DEFINE u == s \o t
           m == Len(s)
           k == Len(t)
<1>1. /\ u \in Seq(L) /\ Len(u) = m + k /\ m \in Nat /\ k \in Nat
      /\ DOMAIN s = 1 .. m /\ DOMAIN t = 1 .. k /\ DOMAIN u = 1 .. m + k
      /\ \A i \in 1 .. m : u[i] = s[i]
      /\ \A i \in 1 .. k : u[m + i] = t[i]
  OBVIOUS
<1>2. /\ \A i \in DOMAIN s : Nth(s[i]) \in lo .. mid
      /\ \A i, j \in DOMAIN s : i < j => Nth(s[i]) < Nth(s[j])
      /\ \A i \in DOMAIN t : Nth(t[i]) \in from .. hi
      /\ \A i, j \in DOMAIN t : i < j => Nth(t[i]) < Nth(t[j])
  BY DEF Climbs
<1> HIDE DEF u, m, k
<1>3. ASSUME NEW i \in DOMAIN u
      PROVE  \/ i \in DOMAIN s /\ u[i] = s[i] /\ i <= m
             \/ i - m \in DOMAIN t /\ u[i] = t[i - m] /\ i > m
  <2>1. CASE i <= m
    BY <1>1, <2>1
  <2>2. CASE i > m
    <3>1. i - m \in 1 .. k /\ m + (i - m) = i
      BY <1>1, <2>2
    <3>2. QED
      BY <1>1, <2>2, <3>1
  <2>3. QED
    BY <1>1, <2>1, <2>2
<1>4. ASSUME NEW i \in DOMAIN u PROVE Nth(u[i]) \in lo .. hi
  <2>1. CASE i \in DOMAIN s /\ u[i] = s[i]
    BY <1>2, <2>1
  <2>2. CASE i - m \in DOMAIN t /\ u[i] = t[i - m]
    BY <1>2, <2>2
  <2>3. QED
    BY <1>3, <2>1, <2>2
<1>5. ASSUME NEW i \in DOMAIN u, NEW j \in DOMAIN u, i < j
      PROVE  Nth(u[i]) < Nth(u[j])
  <2>0. i \in Nat /\ j \in Nat
    BY <1>1
  <2>1. CASE i <= m /\ j <= m
    <3>1. i \in DOMAIN s /\ j \in DOMAIN s /\ u[i] = s[i] /\ u[j] = s[j]
      BY <1>1, <1>3, <2>0, <2>1
    <3>2. QED
      BY <1>2, <1>5, <3>1
  <2>2. CASE i > m /\ j > m
    <3>1. i - m \in DOMAIN t /\ j - m \in DOMAIN t /\ u[i] = t[i - m] /\ u[j] = t[j - m]
      BY <1>1, <1>3, <2>0, <2>2
    <3>2. i - m < j - m
      BY <1>1, <1>5, <2>0
    <3>3. QED
      BY <1>2, <3>1, <3>2
  <2>3. CASE i <= m /\ j > m
    <3>1. i \in DOMAIN s /\ j - m \in DOMAIN t /\ u[i] = s[i] /\ u[j] = t[j - m]
      BY <1>1, <1>3, <2>0, <2>3
    <3>2. Nth(s[i]) \in lo .. mid /\ Nth(t[j - m]) \in from .. hi
      BY <1>2, <3>1
    <3>3. QED
      BY <3>1, <3>2
  <2>4. QED
    BY <1>1, <1>5, <2>0, <2>1, <2>2, <2>3
<1>6. Climbs(u, lo, hi)
  BY <1>4, <1>5 DEF Climbs
<1>7. NamesIn(u) \subseteq NamesIn(s) \cup NamesIn(t)
  BY <1>3 DEF NamesIn
<1>8. ASSUME NEW x \in NamesIn(s) \cup NamesIn(t) PROVE x \in NamesIn(u)
  <2>1. CASE x \in NamesIn(s)
    <3>1. PICK i \in DOMAIN s : s[i] = x
      BY <2>1 DEF NamesIn
    <3>2. i \in DOMAIN u /\ u[i] = x
      BY <1>1, <3>1
    <3>3. QED
      BY <3>2 DEF NamesIn
  <2>2. CASE x \in NamesIn(t)
    <3>1. PICK i \in DOMAIN t : t[i] = x
      BY <2>2 DEF NamesIn
    <3>2. m + i \in DOMAIN u /\ u[m + i] = x
      BY <1>1, <3>1
    <3>3. QED
      BY <3>2 DEF NamesIn
  <2>3. QED
    BY <2>1, <2>2
<1>9. QED
  BY <1>6, <1>7, <1>8 DEF JoinClimb, u

(* A forward launches its kernels, in this order.                          *)
Launching(s, st, version) ==
  /\ Climbs(s, 1, 10) /\ NamesIn(s) = ForwardOf(st, version) /\ s # <<>>
  /\ s \in Seq(ForwardOf(st, version)) /\ Head(s) = "mm_q"

LEMMA ForwardClimbs ==
  ASSUME NEW st, NEW version, NEW last, NEW L,
         L = {"mm_q", "rotary_q", "mm_k", "rotary_k", "mm_v", "copy_k", "copy_v",
              "context", "att1", "softmax", "att2", "reducev"},
         last \in Seq(L), Climbs(last, 8, 10), NamesIn(last) = ScoringOf(st.is_prefill, version)
  PROVE  Launching(GetQkv \o PostCacheKv(st) \o last, st, version)
<1> DEFINE s == GetQkv
           t == PostCacheKv(st)
<1>1. /\ "mm_q" \in L /\ "mm_k" \in L /\ "mm_v" \in L /\ "rotary_q" \in L /\ "rotary_k" \in L
      /\ "copy_k" \in L /\ "copy_v" \in L
  OBVIOUS
<1>2. /\ s \in Seq(L) /\ Len(s) = 5 /\ DOMAIN s = 1 .. 5 /\ s[1] = "mm_q" /\ s[2] = "rotary_q"
      /\ s[3] = "mm_k" /\ s[4] = "rotary_k" /\ s[5] = "mm_v"
  BY ONLY <1>1, SMTT(30) DEF GetQkv
<1>3. Climbs(s, 1, 5)
  <2> HIDE DEF s
  <2>1. \A i \in 1 .. 5 : Nth(s[i]) = i
    BY ONLY <1>2, Nths
  <2>2. QED
    BY ONLY <1>2, <2>1 DEF Climbs
<1>4. NamesIn(s) = {"mm_q", "rotary_q", "mm_k", "rotary_k", "mm_v"}
  <2> HIDE DEF s
  <2>1. \A i : i \in 1 .. 5 <=> i = 1 \/ i = 2 \/ i = 3 \/ i = 4 \/ i = 5
    OBVIOUS
  <2>2. QED
    BY ONLY <1>2, <2>1 DEF NamesIn
<1>5. /\ t \in Seq(L) /\ Climbs(t, 6, 7) /\ NamesIn(t) = CopiesOf(st.decode_is_contiguous)
  <2>1. CASE st.decode_is_contiguous
    <3>1. t = <<>>
      BY <2>1 DEF PostCacheKv
    <3>2. QED
      BY <2>1, <3>1 DEF Climbs, NamesIn, CopiesOf
  <2>2. CASE ~st.decode_is_contiguous
    <3> DEFINE c == <<"copy_k", "copy_v">>
    <3>1. t = c
      BY <2>2 DEF PostCacheKv
    <3>2. c \in Seq(L) /\ DOMAIN c = 1 .. 2 /\ c[1] = "copy_k" /\ c[2] = "copy_v"
      BY ONLY <1>1
    <3> HIDE DEF c
    <3>3. Climbs(c, 6, 7)
      BY ONLY <3>2, Nths DEF Climbs
    <3>4. NamesIn(c) = {"copy_k", "copy_v"}
      BY ONLY <3>2 DEF NamesIn
    <3>5. QED
      BY <2>2, <3>1, <3>2, <3>3, <3>4 DEF CopiesOf
  <2>3. QED
    BY <2>1, <2>2
<1> HIDE DEF s, t
<1> DEFINE st1 == s \o t
           u == st1 \o last
<1>6. JoinClimb(s, t, 1, 7)
  BY <1>2, <1>3, <1>5, ClimbsJoin
<1>7. st1 \in Seq(L) /\ Len(st1) >= 5 /\ st1[1] = "mm_q"
  <2>0. s \in Seq(L) /\ t \in Seq(L)
    BY ONLY <1>2, <1>5
  <2>1. Len(t) \in Nat /\ Len(st1) = Len(s) + Len(t) /\ st1 \in Seq(L)
    BY ONLY <2>0
  <2>2. \A i \in 1 .. Len(s) : st1[i] = s[i]
    BY ONLY <2>0
  <2> HIDE DEF st1
  <2>3. QED
    BY <1>2, <2>1, <2>2
<1>8. Climbs(st1, 1, 7) /\ NamesIn(st1) = NamesIn(s) \cup NamesIn(t)
  BY <1>6 DEF JoinClimb
<1> HIDE DEF st1
<1>9. JoinClimb(st1, last, 1, 10)
  BY <1>7, <1>8, ClimbsJoin
<1>10. Climbs(u, 1, 10) /\ NamesIn(u) = NamesIn(st1) \cup NamesIn(last)
  BY <1>9 DEF JoinClimb
<1>11. u \in Seq(L) /\ Len(u) >= 5 /\ u[1] = "mm_q"
  <2>1. Len(last) \in Nat /\ Len(u) = Len(st1) + Len(last) /\ u \in Seq(L)
    BY <1>7
  <2>2. \A i \in 1 .. Len(st1) : u[i] = st1[i]
    BY <1>7
  <2> HIDE DEF u
  <2>3. QED
    BY <1>7, <2>1, <2>2
<1> HIDE DEF u
<1>12. NamesIn(u) = ForwardOf(st, version)
  BY <1>4, <1>5, <1>8, <1>10 DEF ForwardOf
<1>13. u # <<>> /\ Head(u) = "mm_q" /\ u \in Seq(NamesIn(u))
  <2>1. DOMAIN u = 1 .. Len(u) /\ Len(u) \in Nat /\ u = [i \in 1 .. Len(u) |-> u[i]]
    BY <1>11
  <2>2. \A i \in 1 .. Len(u) : u[i] \in NamesIn(u)
    BY <2>1 DEF NamesIn
  <2>3. u \in Seq(NamesIn(u))
    BY <2>1, <2>2
  <2>4. QED
    BY <1>11, <2>3
<1>14. Launching(u, st, version)
  BY <1>10, <1>12, <1>13 DEF Launching
<1>15. QED
  BY <1>14 DEF u, st1, s, t

(* Program p of a launch of this forward has run.                          *)
Did(name, p) == name \notin NamesIn(launches) \/ (name = Head(launches) /\ p \notin grid)

LEMMA LaunchNames ==
  ASSUME NEW L, launches \in Seq(L), launches # <<>>, NEW lo, NEW hi, Climbs(launches, lo, hi),
         \A name \in L : Nth(name) \in Nat
  PROVE  /\ Head(launches) \in NamesIn(launches) /\ Head(launches) = launches[1]
         /\ NamesIn(launches) \subseteq L
         /\ \A name \in NamesIn(launches) : name = Head(launches) \/ Nth(Head(launches)) < Nth(name)
         /\ \A name : Nth(name) < Nth(Head(launches)) => name \notin NamesIn(launches)
         /\ Len(launches) = 1 => NamesIn(launches) = {Head(launches)}
<1>1. /\ Len(launches) \in Nat \ {0} /\ DOMAIN launches = 1 .. Len(launches) /\ Head(launches) = launches[1]
      /\ \A i \in DOMAIN launches : launches[i] \in L
  OBVIOUS
<1>2. 1 \in DOMAIN launches /\ \A i \in DOMAIN launches : i = 1 \/ 1 < i
  BY <1>1
<1>3. \A i \in DOMAIN launches : i = 1 \/ Nth(launches[1]) < Nth(launches[i])
  BY <1>2 DEF Climbs
<1>4. \A i \in DOMAIN launches : Nth(launches[i]) \in Nat
  BY <1>1
<1>5. \A name \in NamesIn(launches) : name = launches[1] \/ Nth(launches[1]) < Nth(name)
  BY <1>3 DEF NamesIn
<1>6. launches[1] \in NamesIn(launches) /\ NamesIn(launches) \subseteq L
  BY <1>1, <1>2 DEF NamesIn
<1>7. \A name : Nth(name) < Nth(launches[1]) => name \notin NamesIn(launches)
  <2>1. SUFFICES ASSUME NEW name \in NamesIn(launches), Nth(name) < Nth(launches[1]) PROVE FALSE
    OBVIOUS
  <2>2. Nth(name) \in Nat /\ Nth(launches[1]) \in Nat
    BY <1>2, <1>4 DEF NamesIn
  <2>3. QED
    BY <1>5, <2>1, <2>2
<1>8. Len(launches) = 1 => NamesIn(launches) = {launches[1]}
  <2>1. Len(launches) = 1 => \A i : i \in DOMAIN launches <=> i = 1
    BY <1>1
  <2>2. QED
    BY <2>1 DEF NamesIn
<1>9. QED
  BY <1>1, <1>5, <1>6, <1>7, <1>8

LEMMA TailClimbs ==
  ASSUME NEW L, launches \in Seq(L), Len(launches) > 1, NEW lo, NEW hi, Climbs(launches, lo, hi),
         \A name \in L : Nth(name) \in Nat
  PROVE  /\ Tail(launches) \in Seq(L) /\ Tail(launches) # <<>> /\ Climbs(Tail(launches), lo, hi)
         /\ Head(Tail(launches)) = launches[2]
         /\ \A name : name \in NamesIn(Tail(launches)) <=>
              name \in NamesIn(launches) /\ name # Head(launches)
<1> DEFINE s == launches
           t == Tail(s)
<1>1. /\ t \in Seq(L) /\ Len(t) = Len(s) - 1 /\ Len(t) > 0 /\ Head(s) = s[1] /\ Len(s) \in Nat
      /\ DOMAIN t = 1 .. Len(t) /\ DOMAIN s = 1 .. Len(s)
      /\ \A i \in DOMAIN t : t[i] = s[i + 1]
      /\ Head(t) = s[2]
      /\ \A i \in DOMAIN s : s[i] \in L
  OBVIOUS
<1> HIDE DEF t, s
<1>2. \A i \in DOMAIN t : i + 1 \in DOMAIN s
  BY <1>1
<1>3. t # <<>>
  BY <1>1
<1>4. Climbs(t, lo, hi)
  <2>1. \A i \in DOMAIN t : Nth(t[i]) \in lo .. hi
    BY <1>1, <1>2 DEF Climbs, s
  <2>2. ASSUME NEW i \in DOMAIN t, NEW j \in DOMAIN t, i < j PROVE Nth(t[i]) < Nth(t[j])
    <3>1. i + 1 \in DOMAIN s /\ j + 1 \in DOMAIN s /\ i + 1 < j + 1
      BY <1>1, <1>2, <2>2
    <3>2. Nth(s[i + 1]) < Nth(s[j + 1])
      BY <3>1 DEF Climbs, s
    <3>3. QED
      BY <1>1, <3>2
  <2>3. QED
    BY <2>1, <2>2 DEF Climbs
<1>5. ASSUME NEW name \in NamesIn(t) PROVE name \in NamesIn(s) /\ name # s[1]
  <2>1. PICK i \in DOMAIN t : t[i] = name
    BY DEF NamesIn
  <2>2. i + 1 \in DOMAIN s /\ s[i + 1] = name /\ 1 \in DOMAIN s /\ 1 < i + 1
    BY <1>1, <1>2, <2>1
  <2>3. Nth(s[1]) < Nth(s[i + 1])
    BY <2>2 DEF Climbs, s
  <2>4. Nth(s[1]) \in Nat
    BY <1>1, <2>2
  <2>5. QED
    BY <2>2, <2>3, <2>4 DEF NamesIn
<1>6. ASSUME NEW name \in NamesIn(s), name # s[1] PROVE name \in NamesIn(t)
  <2>1. PICK i \in DOMAIN s : s[i] = name
    BY DEF NamesIn
  <2>2. i # 1
    BY <1>6, <2>1
  <2>3. i - 1 \in DOMAIN t /\ (i - 1) + 1 = i
    BY <1>1, <2>1, <2>2
  <2>4. t[i - 1] = name
    BY <1>1, <2>1, <2>3
  <2>5. QED
    BY <2>3, <2>4 DEF NamesIn
<1>7. QED
  BY <1>1, <1>3, <1>4, <1>5, <1>6 DEF s, t

(* What is left of a forward.                                              *)
AttentionReady ==
  /\ AttentionInv
  /\ Climbs(launches, 1, 10) /\ launches \in Seq(Forward) /\ launches # <<>>
  /\ grid \subseteq Grid(Head(launches))
  /\ \A name \in Forward : name \in NamesIn(launches) \/ Nth(name) < Nth(Head(launches))

LEMMA ForwardNames ==
  ASSUME AttentionInv
  PROVE  /\ Forward \subseteq NamesOf(infer_state.is_prefill)
         /\ \A name \in Forward : Nth(name) \in 1 .. 10
         /\ {"mm_q", "rotary_q", "mm_k", "rotary_k", "mm_v"} \subseteq Forward
<1>1. infer_state.is_prefill \in BOOLEAN
  BY DEF AttentionInv
<1>2. Forward \subseteq NamesOf(infer_state.is_prefill)
  BY <1>1 DEF Forward, ForwardOf, NamesOf, CopiesOf, ScoringOf
<1>3. \A name \in NamesOf(infer_state.is_prefill) : Nth(name) \in 1 .. 10
  BY <1>1, Nths DEF NamesOf
<1>4. QED
  BY <1>2, <1>3 DEF Forward, ForwardOf

(* The launches before the current one are over.                           *)
LEMMA ReadyNames ==
  ASSUME AttentionReady
  PROVE  /\ Head(launches) \in Forward /\ Head(launches) \in NamesIn(launches)
         /\ Head(launches) \in NamesOf(infer_state.is_prefill)
         /\ \A name \in NamesIn(launches) : name = Head(launches) \/ Nth(Head(launches)) < Nth(name)
         /\ \A name : Nth(name) < Nth(Head(launches)) => \A p : Did(name, p)
         /\ \A name \in Forward : \A p : Did(name, p) =>
              Nth(name) < Nth(Head(launches)) \/ (name = Head(launches) /\ p \notin grid)
         /\ Finished => \A name, p : Did(name, p)
<1>1. AttentionInv /\ launches \in Seq(Forward) /\ launches # <<>> /\ Climbs(launches, 1, 10)
  BY DEF AttentionReady
<1>2. \A name \in Forward : Nth(name) \in Nat
  BY <1>1, ForwardNames
<1>3. /\ Head(launches) \in NamesIn(launches) /\ Head(launches) = launches[1]
      /\ NamesIn(launches) \subseteq Forward
      /\ \A name \in NamesIn(launches) : name = Head(launches) \/ Nth(Head(launches)) < Nth(name)
      /\ \A name : Nth(name) < Nth(Head(launches)) => name \notin NamesIn(launches)
      /\ Len(launches) = 1 => NamesIn(launches) = {Head(launches)}
  BY <1>1, <1>2, LaunchNames
<1>4. Finished => \A name, p : Did(name, p)
  BY <1>3 DEF Finished, Did
<1>5. \A name \in Forward : \A p : Did(name, p) =>
        Nth(name) < Nth(Head(launches)) \/ (name = Head(launches) /\ p \notin grid)
  BY DEF Did, AttentionReady
<1>6. QED
  BY <1>1, <1>3, <1>4, <1>5, ForwardNames DEF Did

(* The tensors that the programs of a launch store to.                     *)
KeyTensor == IF infer_state.decode_is_contiguous THEN "key_buffer" ELSE "k"
ValueTensor == IF infer_state.decode_is_contiguous THEN "value_buffer" ELSE "v"
TensorsOf(name) ==
  CASE name \in {"mm_q", "rotary_q"} -> {"q"} [] name \in {"mm_k", "rotary_k"} -> {KeyTensor}
    [] name = "mm_v" -> {ValueTensor} [] name = "copy_k" -> {"key_buffer"} [] name = "copy_v" -> {"value_buffer"}
    [] name = "context" -> {"o", "tmp"} [] name = "att1" -> {"att"} [] name = "softmax" -> {"prob"}
    [] name \in {"att2", "reducev"} -> {"o"}

LEMMA TensorNames ==
  /\ TensorsOf("mm_q") = {"q"} /\ TensorsOf("rotary_q") = {"q"}
  /\ TensorsOf("mm_k") = {KeyTensor} /\ TensorsOf("rotary_k") = {KeyTensor}
  /\ TensorsOf("mm_v") = {ValueTensor}
  /\ TensorsOf("copy_k") = {"key_buffer"} /\ TensorsOf("copy_v") = {"value_buffer"}
  /\ TensorsOf("context") = {"o", "tmp"} /\ TensorsOf("att1") = {"att"} /\ TensorsOf("softmax") = {"prob"}
  /\ TensorsOf("att2") = {"o"} /\ TensorsOf("reducev") = {"o"}
BY DEF TensorsOf

LEMMA RowTensor ==
  /\ \A i, h : RowAt("q", i, h)[1] = "q" /\ RowAt("k", i, h)[1] = KeyTensor /\ RowAt("v", i, h)[1] = ValueTensor
  /\ \A i, h : Pooled("k", i, h)[1] = "key_buffer" /\ Pooled("v", i, h)[1] = "value_buffer"
BY DEF RowAt, Cached, Pooled, KeyTensor, ValueTensor

LEMMA StoresIn ==
  ASSUME NEW name \in NamesOf(TRUE) \cup NamesOf(FALSE), NEW p, NEW a \in DOMAIN Writes(name, p),
         model \in {"llama", "llama2"} \X {"2.0.0", "2.1.0"}
  PROVE  a[1] \in TensorsOf(name)
<1>1. ASSUME NEW w \in {"q", "k", "v"}, a \in DOMAIN MmWrites(w) PROVE \E i, h : a = RowAt(w, i, h)
  BY <1>1 DEF MmWrites, RowAt
<1>2. ASSUME NEW w \in {"q", "k"}, NEW heads, a \in DOMAIN RotaryWrites(p, w, heads)
      PROVE  \E i, h : a = RowAt(w, i, h)
  BY <1>2 DEF RotaryWrites, RowAt
<1>3. ASSUME NEW w \in {"k", "v"}, a \in DOMAIN CopyWrites(p, w) PROVE \E i, h : a = Pooled(w, i, h)
  BY <1>3 DEF CopyWrites
<1>4. CASE name = "mm_q"
  BY <1>1, <1>4, RowTensor, TensorNames DEF Writes
<1>5. CASE name = "mm_k"
  BY <1>1, <1>5, RowTensor, TensorNames DEF Writes
<1>6. CASE name = "mm_v"
  BY <1>1, <1>6, RowTensor, TensorNames DEF Writes
<1>7. CASE name = "rotary_q"
  BY <1>2, <1>7, RowTensor, TensorNames DEF Writes
<1>8. CASE name = "rotary_k"
  BY <1>2, <1>8, RowTensor, TensorNames DEF Writes
<1>9. CASE name = "copy_k"
  BY <1>3, <1>9, RowTensor, TensorNames DEF Writes
<1>10. CASE name = "copy_v"
  BY <1>3, <1>10, RowTensor, TensorNames DEF Writes
<1>11. CASE name = "context"
  <2>1. ASSUME NEW group, a \in DOMAIN FlashWrites(p, group) PROVE a[1] = "o"
    BY <2>1 DEF FlashWrites
  <2>2. ASSUME NEW group, a \in DOMAIN FlashViaTmp(p, group)
        PROVE  a[1] \in {"o", "tmp"}
    <3> DEFINE scratch == IF p[3] * BLOCK < SeqLen(p[1])
                            THEN {<<"tmp", <<p[1], i>>, p[2]>> : i \in Rows(p[3], BLOCK)} ELSE {}
    <3>1. a \in scratch \cup DOMAIN FlashWrites(p, group)
      BY <2>2 DEF FlashViaTmp
    <3>2. a \in scratch => a[1] = "tmp"
      OBVIOUS
    <3>3. QED
      BY <2>1, <3>1, <3>2
  <2>3. a \in DOMAIN ContextWrites(p)
    BY <1>11 DEF Writes
  <2>4. \/ model = <<"llama", "2.0.0">> \/ model = <<"llama", "2.1.0">>
        \/ model = <<"llama2", "2.0.0">> \/ model = <<"llama2", "2.1.0">>
    OBVIOUS
  <2>5. \/ \E g : ContextWrites(p) = FlashWrites(p, g)
        \/ \E g : ContextWrites(p) = FlashViaTmp(p, g)
    <3>1. CASE model = <<"llama", "2.0.0">>
      BY <3>1 DEF ContextWrites, LlamaFlashViaTmp
    <3>2. CASE model = <<"llama", "2.1.0">>
      BY <3>2 DEF ContextWrites, LlamaFlash
    <3>3. CASE model = <<"llama2", "2.0.0">>
      BY <3>3 DEF ContextWrites, Llama2FlashViaTmp
    <3>4. CASE model = <<"llama2", "2.1.0">>
      BY <3>4 DEF ContextWrites, Llama2Flash
    <3>5. QED
      BY <2>4, <3>1, <3>2, <3>3, <3>4
  <2>6. QED
    BY <1>11, <2>1, <2>2, <2>3, <2>5, TensorNames
<1>12. CASE name = "att1"
  <2>1. \E g : Writes(name, p) = Att1Writes(p, g)
    BY <1>12 DEF Writes, LlamaAtt1, Llama2Att1
  <2>2. \A g : a \in DOMAIN Att1Writes(p, g) => a[1] = "att"
    BY DEF Att1Writes
  <2>3. QED
    BY <1>12, <2>1, <2>2, TensorNames
<1>13. CASE name = "softmax"
  <2>1. Writes(name, p) = SoftmaxWrites(p)
    BY <1>13 DEF Writes, Llama2Softmax
  <2>2. a \in DOMAIN SoftmaxWrites(p) => a[1] = "prob"
    BY DEF SoftmaxWrites
  <2>3. QED
    BY <1>13, <2>1, <2>2, TensorNames
<1>14. CASE name = "att2"
  <2>1. \E g : Writes(name, p) = Att2Writes(p, g)
    BY <1>14 DEF Writes, LlamaAtt2, Llama2Att2
  <2>2. \A g : a \in DOMAIN Att2Writes(p, g) => a[1] = "o"
    BY DEF Att2Writes
  <2>3. QED
    BY <1>14, <2>1, <2>2, TensorNames
<1>15. CASE name = "reducev"
  <2>1. \E g : Writes(name, p) = ReducevWrites(p, g)
    BY <1>15 DEF Writes, LlamaReducev, Llama2Reducev
  <2>2. \A g : a \in DOMAIN ReducevWrites(p, g) => a[1] = "o"
    BY DEF ReducevWrites
  <2>3. QED
    BY <1>15, <2>1, <2>2, TensorNames
<1>16. QED
  BY <1>4, <1>5, <1>6, <1>7, <1>8, <1>9, <1>10, <1>11, <1>12, <1>13, <1>14, <1>15 DEF NamesOf

(* A tensor that a launch of this forward stores to.                       *)
StoredBy(name, x) ==
  \/ name \in {"mm_q", "rotary_q"} /\ x = "q"
  \/ name \in {"mm_k", "rotary_k"} /\ x = KeyTensor
  \/ name = "mm_v" /\ x = ValueTensor
  \/ ~infer_state.decode_is_contiguous /\ ((name = "copy_k" /\ x = "key_buffer") \/ (name = "copy_v" /\ x = "value_buffer"))
  \/ infer_state.is_prefill /\ name = "context" /\ x \in {"o", "tmp"}
  \/ ~infer_state.is_prefill /\
       \/ name = "att1" /\ x = "att"
       \/ model[2] = "2.0.0" /\ ((name = "softmax" /\ x = "prob") \/ (name = "att2" /\ x = "o"))
       \/ model[2] # "2.0.0" /\ name = "reducev" /\ x = "o"

LEMMA StoredByIs ==
  ASSUME NEW name \in Forward, NEW x \in TensorsOf(name) PROVE StoredBy(name, x)
<1>1. \/ name = "mm_q" \/ name = "rotary_q" \/ name = "mm_k" \/ name = "rotary_k" \/ name = "mm_v"
      \/ name \in CopiesOf(infer_state.decode_is_contiguous)
      \/ name \in ScoringOf(infer_state.is_prefill, model[2])
  BY DEF Forward, ForwardOf
<1>2. CASE name = "mm_q" \/ name = "rotary_q"
  BY <1>2, TensorNames DEF StoredBy
<1>3. CASE name = "mm_k" \/ name = "rotary_k"
  BY <1>3, TensorNames DEF StoredBy
<1>4. CASE name = "mm_v"
  BY <1>4, TensorNames DEF StoredBy
<1>5. CASE name \in CopiesOf(infer_state.decode_is_contiguous)
  <2>1. ~infer_state.decode_is_contiguous /\ (name = "copy_k" \/ name = "copy_v")
    BY <1>5 DEF CopiesOf
  <2>2. (name = "copy_k" => x = "key_buffer") /\ (name = "copy_v" => x = "value_buffer")
    BY TensorNames
  <2>3. QED
    BY ONLY <2>1, <2>2 DEF StoredBy
<1>6. CASE name \in ScoringOf(infer_state.is_prefill, model[2])
  <2>1. CASE infer_state.is_prefill
    <3>1. name = "context"
      BY <1>6, <2>1 DEF ScoringOf
    <3>2. x \in {"o", "tmp"}
      BY <3>1, TensorNames
    <3>3. QED
      BY ONLY <2>1, <3>1, <3>2 DEF StoredBy
  <2>2. CASE ~infer_state.is_prefill /\ model[2] = "2.0.0"
    <3>1. name = "att1" \/ name = "softmax" \/ name = "att2"
      BY <1>6, <2>2 DEF ScoringOf
    <3>2. /\ name = "att1" => x = "att"
          /\ name = "softmax" => x = "prob"
          /\ name = "att2" => x = "o"
      BY TensorNames
    <3>3. QED
      BY ONLY <2>2, <3>1, <3>2 DEF StoredBy
  <2>3. CASE ~infer_state.is_prefill /\ model[2] # "2.0.0"
    <3>1. name = "att1" \/ name = "reducev"
      BY <1>6, <2>3 DEF ScoringOf
    <3>2. QED
      BY <2>3, <3>1, TensorNames DEF StoredBy
  <2>4. QED
    BY <2>1, <2>2, <2>3
<1>7. QED
  BY <1>1, <1>2, <1>3, <1>4, <1>5, <1>6

LEMMA TensorsApart ==
  ASSUME NEW name \in Forward, NEW m \in Forward, name # m,
         NEW x \in TensorsOf(name), x \in TensorsOf(m)
  PROVE  {name, m} = {"mm_q", "rotary_q"} \/ {name, m} = {"mm_k", "rotary_k"}
<1>1. StoredBy(name, x) /\ StoredBy(m, x)
  BY StoredByIs
<1>2. /\ KeyTensor = IF infer_state.decode_is_contiguous THEN "key_buffer" ELSE "k"
      /\ ValueTensor = IF infer_state.decode_is_contiguous THEN "value_buffer" ELSE "v"
  BY DEF KeyTensor, ValueTensor
<1>3. \/ (name = "mm_q" /\ m = "rotary_q") \/ (name = "rotary_q" /\ m = "mm_q")
      \/ (name = "mm_k" /\ m = "rotary_k") \/ (name = "rotary_k" /\ m = "mm_k")
  <2>1. CASE infer_state.decode_is_contiguous
    <3>1. KeyTensor = "key_buffer" /\ ValueTensor = "value_buffer"
      BY <1>2, <2>1
    <3>2. QED
      BY ONLY <1>1, <2>1, <3>1, name # m DEF StoredBy
  <2>2. CASE ~infer_state.decode_is_contiguous
    <3>1. KeyTensor = "k" /\ ValueTensor = "v"
      BY <1>2, <2>2
    <3>2. QED
      BY ONLY <1>1, <2>2, <3>1, name # m DEF StoredBy
  <2>3. QED
    BY <2>1, <2>2
<1>4. QED
  BY <1>3

(* The record of a forward serves its requests: a row is a token of one of *)
(* them, and the row of B_Loc leads from every token to its cell.          *)
PlaceOf(st, b, j) == st.b_loc[b][st.max_len_in_batch - st.b_seq_len[b] + j]
TokenRow(st, i) ==
  /\ st.token[i] = <<st.token[i][1], st.token[i][2]>>
  /\ st.token[i][1] \in 0 .. st.batch_size - 1
  /\ st.token[i][2] \in 0 .. st.b_seq_len[st.token[i][1]] - 1
  /\ i \in DOMAIN st.position /\ st.position[i] = st.token[i][2]
  /\ i \in DOMAIN st.mem_index /\ PlaceOf(st, st.token[i][1], st.token[i][2]) = st.mem_index[i]
  /\ st.is_prefill => st.b_start_loc[st.token[i][1]] + st.token[i][2] = i
PlacedRow(st, b) ==
  /\ st.b_seq_len[b] # 0
  /\ \A j \in 0 .. st.b_seq_len[b] - 1 :
       /\ st.max_len_in_batch - st.b_seq_len[b] + j \in DOMAIN st.b_loc[b]
       /\ st.is_prefill => /\ st.b_start_loc[b] + j \in 0 .. st.rows - 1
                           /\ st.token[st.b_start_loc[b] + j] = <<b, j>>
       /\ ~st.is_prefill /\ j < st.b_seq_len[b] - 1 => PlaceOf(st, b, j) \notin GivenCells(st)
  /\ ~st.is_prefill => st.token[b] = <<b, st.b_seq_len[b] - 1>>
InferServes(st) ==
  /\ \A i \in 0 .. st.rows - 1 : TokenRow(st, i)
  /\ \A b \in 0 .. st.batch_size - 1 : PlacedRow(st, b)
  /\ st.decode_is_contiguous => \A i \in 0 .. st.rows - 1 : st.mem_index[i] = st.mem_index[0] + i
  /\ st.is_prefill => ~st.decode_is_contiguous
  /\ ~st.is_prefill => st.other_kv_index = st.mem_index[0]

(* The tokens of an earlier forward stay where they are.                   *)
OldPlaces(st, old) ==
  /\ st.batch_size = old.batch_size
  /\ \A b \in 0 .. st.batch_size - 1 : \A j \in 0 .. st.b_seq_len[b] - 1 :
       j < st.b_seq_len[b] - 1 =>
         j \in 0 .. old.b_seq_len[b] - 1 /\ PlaceOf(st, b, j) = PlaceOf(old, b, j)

(* No cell still to be given holds a token.                                *)
CellsApart(st, given) ==
  \A index \in given : \A i \in DOMAIN index :
    \A b \in 0 .. st.batch_size - 1 : \A j \in 0 .. st.b_seq_len[b] - 1 : index[i] # PlaceOf(st, b, j)

LEMMA PrefillServes ==
  ASSUME NEW s \in PromptLens, NEW c \in PrefillCells, NEW group \in Nat \ {0}
  PROVE  /\ InferServes(PrefillState(FromZero(s), FromZero(c), group))
         /\ CellsApart(PrefillState(FromZero(s), FromZero(c), group), DecodeCells)
<1> DEFINE lens == FromZero(s)
           index == FromZero(c)
           st == PrefillState(lens, index, group)
           n == Len(s)
           N == 0 .. n - 1
           total == SumTo(lens, n)
           RS == 0 .. total - 1
           at(b) == SumTo(lens, b)
           max == st.max_len_in_batch
<1>1. s \in Seq(Nat \ {0}) /\ s # <<>> /\ Len(c) >= total /\ c \in Seq(Nat)
  BY CellAssumption DEF CellAssumption
<1>2. n \in Nat \ {0}
  BY <1>1
<1>3. lens \in [N -> Nat \ {0}]
  BY <1>1, FromZeroIs
<1>4. DOMAIN lens = N
  BY DEF FromZero
<1>5. Cardinality(N) = n
  <2>1. 0 \in Int /\ n - 1 \in Int
    BY <1>2
  <2>2. Cardinality(N) = IF 0 > n - 1 THEN 0 ELSE (n - 1) - 0 + 1
    BY <2>1, FS_Interval
  <2>3. QED
    BY <1>2, <2>2
<1>6. /\ st.batch_size = n /\ st.rows = total /\ st.b_seq_len = lens
      /\ st.b_start_loc = [b \in N |-> SumTo(lens, b)]
      /\ st.b_loc = InitBloc(lens, max, index)
      /\ st.mem_index = [i \in RS |-> index[i]]
      /\ st.position = [i \in RS |-> i - SumTo(lens, Of(lens, i))]
      /\ st.token = [i \in RS |-> <<Of(lens, i), i - SumTo(lens, Of(lens, i))>>]
      /\ st.is_prefill = TRUE /\ st.decode_is_contiguous = FALSE
  <2> HIDE DEF lens, N, n
  <2>1. QED
    BY <1>4, <1>5 DEF PrefillState
<1>7. InferOK(st)
  BY PrefillOK
<1>8. lens \in [0 .. n - 1 -> Nat] /\ \A b \in N : lens[b] \in Nat \ {0}
  BY <1>3
<1>9. \A i \in RS : Of(lens, i) = RequestOf(lens, n, i)
  BY <1>4 DEF Of, RequestOf
<1>10. index \in [0 .. Len(c) - 1 -> Nat] /\ Len(c) \in Nat
  BY CellsGiven
<1>11. ASSUME NEW i \in 0 .. Len(c) - 1 PROVE index[i] = c[i + 1] /\ i + 1 \in DOMAIN c
  <2>1. DOMAIN c = 1 .. Len(c)
    BY <1>1
  <2>2. i + 1 \in 1 .. Len(c) /\ FromZero(c)[i] = c[i + 1]
    BY <1>1, FromZeroIs
  <2>3. QED
    BY <2>1, <2>2
<1> HIDE DEF lens, index, n
<1>12. max \in Nat /\ \A b \in N : lens[b] <= max
  BY <1>6, <1>7 DEF InferOK
<1>13. Packed(lens, n)
  BY <1>2, <1>8, PartsPacked
<1>14. /\ \A b \in 0 .. n : at(b) \in Nat
       /\ \A b \in N : at(b + 1) = at(b) + lens[b]
  <2>1. /\ \A i \in 0 .. n : SumTo(lens, i) \in Nat
        /\ \A i \in 0 .. n - 1 : SumTo(lens, i + 1) = SumTo(lens, i) + lens[i]
    BY <1>2, <1>8, RunningSum
  <2>2. QED
    BY <2>1
<1>15. total \in Nat
  BY <1>2, <1>14
<1> HIDE DEF at, st, max, total
<1>16. ASSUME NEW b \in N, NEW j \in 0 .. lens[b] - 1
       PROVE  /\ at(b) + j \in RS /\ Of(lens, at(b) + j) = b
              /\ max - lens[b] + j \in DOMAIN st.b_loc[b]
              /\ PlaceOf(st, b, j) = index[at(b) + j]
              /\ at(b) \in Nat
  <2>1. lens[b] \in Nat \ {0} /\ lens[b] <= max /\ j \in Nat /\ j < lens[b] /\ at(b) \in Nat
    BY <1>2, <1>8, <1>12, <1>14
  <2>2. at(b) + j \in RS
    BY <1>13, <2>1 DEF Packed, at, total
  <2>3. RequestOf(lens, n, at(b) + j) = b
    <3>1. at(b) + j \in 0 .. SumTo(lens, n) - 1
      BY <2>2 DEF total
    <3>2. \A d \in 0 .. n - 1 : \A k \in 0 .. lens[d] - 1 :
            at(b) + j = SumTo(lens, d) + k => RequestOf(lens, n, at(b) + j) = d
      BY <1>2, <1>8, <3>1, RowRequest
    <3>3. QED
      BY <3>2 DEF at
  <2> DEFINE col == max - lens[b] + j
  <2>4. col \in max - lens[b] .. max - 1 /\ at(b) + col - (max - lens[b]) = at(b) + j
    BY <1>12, <2>1
  <2>5. st.b_loc[b] = [x \in max - lens[b] .. max - 1 |-> index[SumTo(lens, b) + x - (max - lens[b])]]
    BY <1>4, <1>6 DEF InitBloc
  <2>6. st.b_loc[b][col] = index[at(b) + j]
    BY <2>4, <2>5 DEF at
  <2>7. PlaceOf(st, b, j) = st.b_loc[b][col]
    BY <1>6 DEF PlaceOf, max
  <2>8. QED
    BY <1>9, <2>1, <2>2, <2>3, <2>4, <2>5, <2>6, <2>7
<1>17. ASSUME NEW i \in RS
       PROVE  \E b \in N : \E j \in 0 .. lens[b] - 1 : i = at(b) + j /\ Of(lens, i) = b
  <2>1. i \in 0 .. SumTo(lens, n) - 1
    BY DEF total
  <2>2. PICK b \in N : \E j \in 0 .. lens[b] - 1 : i = SumTo(lens, b) + j
    BY <1>2, <1>8, <2>1, PartsCover
  <2>3. PICK j \in 0 .. lens[b] - 1 : i = at(b) + j
    BY <2>2 DEF at
  <2>4. QED
    BY <1>16, <2>3
<1>18. ASSUME NEW i \in RS PROVE TokenRow(st, i)
  <2>1. PICK b \in N : \E j \in 0 .. lens[b] - 1 : i = at(b) + j /\ Of(lens, i) = b
    BY <1>17
  <2>2. PICK j \in 0 .. lens[b] - 1 : i = at(b) + j /\ Of(lens, i) = b
    BY <2>1
  <2>3. at(b) \in Nat /\ j \in Nat /\ i - at(b) = j
    BY <1>8, <1>16, <2>2
  <2>4. st.token[i] = <<b, j>> /\ st.position[i] = j /\ i \in DOMAIN st.position
    BY <1>6, <2>2, <2>3 DEF at
  <2>5. PlaceOf(st, b, j) = index[i] /\ st.mem_index[i] = index[i] /\ i \in DOMAIN st.mem_index
    BY <1>6, <1>16, <2>2
  <2>6. st.b_start_loc[b] + j = i
    BY <1>6, <2>2 DEF at
  <2>7. st.token[i][1] = b /\ st.token[i][2] = j
    BY <2>4
  <2>8. QED
    BY <1>6, <2>4, <2>5, <2>6, <2>7 DEF TokenRow
<1>19. ASSUME NEW b \in N PROVE PlacedRow(st, b)
  <2>1. lens[b] # 0
    BY <1>8
  <2>2. ASSUME NEW j \in 0 .. lens[b] - 1
        PROVE  /\ max - lens[b] + j \in DOMAIN st.b_loc[b]
               /\ st.b_start_loc[b] + j \in RS /\ st.token[st.b_start_loc[b] + j] = <<b, j>>
    <3>1. /\ at(b) + j \in RS /\ Of(lens, at(b) + j) = b /\ at(b) \in Nat
          /\ max - lens[b] + j \in DOMAIN st.b_loc[b]
      BY <1>16
    <3>2. st.b_start_loc[b] = at(b)
      BY <1>6 DEF at
    <3>3. lens[b] \in Nat /\ j \in Nat
      BY <1>8
    <3>4. (at(b) + j) - at(b) = j
      BY <3>1, <3>3
    <3>5. st.token[at(b) + j] = <<b, j>>
      BY <1>6, <3>1, <3>4 DEF at
    <3>6. QED
      BY <3>1, <3>2, <3>5
  <2>3. QED
    BY <1>6, <2>1, <2>2 DEF PlacedRow, max
<1>20. InferServes(st)
  BY <1>6, <1>18, <1>19 DEF InferServes
<1>21. ASSUME NEW other \in DecodeCells, NEW i \in DOMAIN other, NEW b \in N, NEW j \in 0 .. lens[b] - 1
       PROVE  other[i] # PlaceOf(st, b, j)
  <2>1. at(b) + j \in RS /\ PlaceOf(st, b, j) = index[at(b) + j]
    BY <1>16
  <2>2. at(b) + j \in 0 .. Len(c) - 1
    BY <1>1, <1>10, <1>15, <2>1 DEF total
  <2>3. index[at(b) + j] = c[at(b) + j + 1] /\ at(b) + j + 1 \in DOMAIN c
    BY <1>11, <2>2
  <2>4. \A x \in DOMAIN c : c[x] # other[i]
    BY CellAssumption DEF CellAssumption
  <2>5. QED
    BY <2>1, <2>3, <2>4
<1>22. CellsApart(st, DecodeCells)
  BY <1>6, <1>21 DEF CellsApart
<1>23. QED
  BY <1>20, <1>22 DEF st, lens, index

LEMMA DecodeServes ==
  ASSUME InferOK(infer_state), InferServes(infer_state), NEW s \in PromptLens, infer_state.batch_size = Len(s),
         NEW given \in SUBSET DecodeCells, CellsApart(infer_state, given), NEW c \in given
  PROVE  /\ InferServes(DecodeState(infer_state, FromZero(c)))
         /\ CellsApart(DecodeState(infer_state, FromZero(c)), given \ {c})
         /\ OldPlaces(DecodeState(infer_state, FromZero(c)), infer_state)
<1> DEFINE old == infer_state
           index == FromZero(c)
           st == DecodeState(old, index)
           n == old.batch_size
           N == 0 .. n - 1
           lens == [b \in N |-> old.b_seq_len[b] + 1]
           max == old.max_len_in_batch
<1>1. /\ n \in Nat \ {0} /\ max \in Nat /\ old.b_seq_len \in [N -> Nat]
      /\ \A b \in N : old.b_seq_len[b] <= max
  BY DEF InferOK
<1>2. Batches = N
  BY DEF Batches
<1>3. /\ st.batch_size = n /\ st.rows = n
      /\ st.b_seq_len = lens /\ st.mem_index = index /\ st.max_len_in_batch = max + 1
      /\ st.b_loc = [b \in N |-> [x \in {max} \cup DOMAIN old.b_loc[b] |->
                                  IF x = max THEN index[b] ELSE old.b_loc[b][x]]]
      /\ st.position = [b \in N |-> lens[b] - 1]
      /\ st.token = [b \in N |-> <<b, lens[b] - 1>>] /\ st.is_prefill = FALSE
      /\ st.decode_is_contiguous = (\A b \in N : index[b] = index[0] + b)
      /\ st.other_kv_index = index[0]
  <2>1. (max + 1) - 1 = max
    BY <1>1
  <2>2. QED
    BY <1>2, <2>1 DEF DecodeState
<1>4. Len(c) >= n /\ c \in Seq(Nat)
  BY CellAssumption DEF CellAssumption
<1>5. Len(c) \in Nat /\ index \in [0 .. Len(c) - 1 -> Nat]
  BY CellsGiven
<1>6. ASSUME NEW i \in 0 .. Len(c) - 1 PROVE index[i] = c[i + 1] /\ i + 1 \in DOMAIN c
  <2>1. DOMAIN c = 1 .. Len(c)
    BY <1>4
  <2>2. i + 1 \in 1 .. Len(c) /\ FromZero(c)[i] = c[i + 1]
    BY <1>4, FromZeroIs
  <2>3. QED
    BY <2>1, <2>2
<1>7. /\ \A b \in N : PlacedRow(old, b)
      /\ CellsApart(old, given)
  BY DEF InferServes
<1> HIDE DEF st, index, old, n
<1>8. lens \in [N -> Nat] /\ \A b \in N : lens[b] = old.b_seq_len[b] + 1 /\ lens[b] # 0 /\ b \in DOMAIN index
                                          /\ old.b_seq_len[b] \in Nat
  <2>1. lens \in [N -> Nat] /\ \A b \in N : lens[b] = old.b_seq_len[b] + 1 /\ old.b_seq_len[b] \in Nat
    BY <1>1
  <2>2. \A b \in N : lens[b] # 0
    BY <2>1
  <2>3. \A b \in N : b \in DOMAIN index
    BY <1>1, <1>4, <1>5
  <2>4. QED
    BY <2>1, <2>2, <2>3
<1> HIDE DEF lens, max
<1>9. ASSUME NEW b \in N
      PROVE  /\ DOMAIN st.b_loc[b] = {max} \cup DOMAIN old.b_loc[b]
             /\ st.b_loc[b][max] = index[b]
             /\ \A x \in DOMAIN old.b_loc[b] : x # max => st.b_loc[b][x] = old.b_loc[b][x]
  BY <1>3
<1>10. ASSUME NEW b \in N, NEW j \in 0 .. lens[b] - 1
       PROVE  /\ max + 1 - lens[b] + j \in DOMAIN st.b_loc[b]
              /\ j = lens[b] - 1 => PlaceOf(st, b, j) = index[b]
              /\ j < lens[b] - 1 => j \in 0 .. old.b_seq_len[b] - 1 /\ PlaceOf(st, b, j) = PlaceOf(old, b, j)
  <2>1. PlaceOf(st, b, j) = st.b_loc[b][max + 1 - lens[b] + j]
    <3>1. PlaceOf(st, b, j) = st.b_loc[b][st.max_len_in_batch - st.b_seq_len[b] + j]
      BY DEF PlaceOf
    <3>2. st.max_len_in_batch = max + 1 /\ st.b_seq_len = lens
      BY <1>3
    <3>3. max \in Nat /\ lens[b] \in Nat /\ j \in Nat
      BY <1>1, <1>8
    <3>4. QED
      BY ONLY <3>1, <3>2, <3>3
  <2>2. CASE j = lens[b] - 1
    <3>1. max + 1 - lens[b] + j = max
      BY <1>1, <1>8, <2>2
    <3>2. QED
      BY <1>9, <2>1, <2>2, <3>1
  <2>3. CASE j # lens[b] - 1
    <3> DEFINE x == max - old.b_seq_len[b] + j
    <3>1. /\ max + 1 - lens[b] + j = x /\ j \in 0 .. old.b_seq_len[b] - 1 /\ x < max
          /\ j < lens[b] - 1
      <4>1. /\ max \in Nat /\ old.b_seq_len[b] \in Nat /\ old.b_seq_len[b] <= max
            /\ lens[b] = old.b_seq_len[b] + 1
        BY <1>1, <1>8
      <4>2. j \in 0 .. lens[b] - 1 /\ j # lens[b] - 1
        BY <2>3
      <4>3. QED
        BY ONLY <4>1, <4>2
    <3>2. x \in DOMAIN old.b_loc[b]
      BY <1>7, <3>1 DEF PlacedRow, max
    <3>3. PlaceOf(old, b, j) = old.b_loc[b][x]
      BY DEF PlaceOf, max
    <3>4. x # max
      BY <1>1, <1>8, <3>1
    <3>5. st.b_loc[b][x] = old.b_loc[b][x] /\ x \in DOMAIN st.b_loc[b]
      BY <1>9, <3>2, <3>4
    <3> HIDE DEF x
    <3>6. QED
      BY <2>1, <2>3, <3>1, <3>3, <3>5
  <2>4. QED
    BY <2>2, <2>3
<1>11. ASSUME NEW b \in N, NEW j \in 0 .. old.b_seq_len[b] - 1, NEW other \in given, NEW i \in DOMAIN other
       PROVE  other[i] # PlaceOf(old, b, j)
  BY <1>7 DEF CellsApart, n
<1>12. ASSUME NEW i \in N PROVE TokenRow(st, i)
  <2>1. /\ st.token[i] = <<i, lens[i] - 1>> /\ st.position[i] = lens[i] - 1 /\ i \in DOMAIN st.position
        /\ st.mem_index[i] = index[i] /\ i \in DOMAIN st.mem_index
    BY <1>3, <1>8
  <2>2. lens[i] - 1 \in 0 .. lens[i] - 1
    BY <1>8
  <2>3. PlaceOf(st, i, lens[i] - 1) = index[i]
    BY <1>10, <2>2
  <2>4. st.token[i][1] = i /\ st.token[i][2] = lens[i] - 1
    BY <2>1
  <2>5. QED
    BY <1>3, <2>1, <2>2, <2>3, <2>4 DEF TokenRow
<1>13. GivenCells(st) = {c[i] : i \in DOMAIN c}
  <2>1. DOMAIN c = 1 .. Len(c) /\ DOMAIN index = 0 .. Len(c) - 1
    BY <1>4, <1>5
  <2>2. \A i \in DOMAIN index : \E k \in DOMAIN c : index[i] = c[k]
    BY <1>6, <2>1
  <2>3. \A k \in DOMAIN c : k - 1 \in 0 .. Len(c) - 1 /\ (k - 1) + 1 = k
    BY <1>5, <2>1
  <2>4. \A k \in DOMAIN c : \E i \in DOMAIN index : index[i] = c[k]
    BY <1>6, <2>1, <2>3
  <2>5. GivenCells(st) = {index[i] : i \in DOMAIN index}
    BY <1>3 DEF GivenCells
  <2>6. QED
    BY <2>2, <2>4, <2>5
<1>14. ASSUME NEW b \in N PROVE PlacedRow(st, b)
  <2>1. ASSUME NEW j \in 0 .. lens[b] - 1, j < lens[b] - 1 PROVE PlaceOf(st, b, j) \notin GivenCells(st)
    <3>1. j \in 0 .. old.b_seq_len[b] - 1 /\ PlaceOf(st, b, j) = PlaceOf(old, b, j)
      BY <1>10, <2>1
    <3>2. QED
      BY <1>11, <1>13, <3>1
  <2>2. st.token[b] = <<b, lens[b] - 1>>
    BY <1>3
  <2>3. lens[b] # 0 /\ \A j \in 0 .. lens[b] - 1 : max + 1 - lens[b] + j \in DOMAIN st.b_loc[b]
    BY <1>8, <1>10
  <2>4. st.max_len_in_batch = max + 1 /\ st.b_seq_len = lens /\ st.is_prefill = FALSE
    BY <1>3
  <2>5. max \in Nat /\ lens[b] \in Nat
    BY <1>1, <1>8
  <2>6. QED
    BY ONLY <2>1, <2>2, <2>3, <2>4, <2>5 DEF PlacedRow
<1>15. InferServes(st)
  BY <1>3, <1>12, <1>14 DEF InferServes
<1>16. ASSUME NEW other \in given \ {c}, NEW i \in DOMAIN other, NEW b \in N, NEW j \in 0 .. lens[b] - 1
       PROVE  other[i] # PlaceOf(st, b, j)
  <2>1. CASE j < lens[b] - 1
    BY <1>10, <1>11, <2>1
  <2>2. CASE ~(j < lens[b] - 1)
    <3>1. PlaceOf(st, b, j) = index[b]
      BY <1>8, <1>10, <2>2
    <3>2. b \in 0 .. Len(c) - 1
      BY <1>1, <1>4, <1>5
    <3>3. index[b] = c[b + 1] /\ b + 1 \in DOMAIN c
      BY <1>6, <3>2
    <3>4. other \in DecodeCells /\ c \in DecodeCells /\ c # other
      OBVIOUS
    <3>5. \A x \in DOMAIN c : c[x] # other[i]
      BY <3>4, CellAssumption DEF CellAssumption
    <3>6. QED
      BY <3>1, <3>3, <3>5
  <2>3. QED
    BY <2>1, <2>2
<1>17. CellsApart(st, given \ {c})
  BY <1>3, <1>16 DEF CellsApart
<1>18. OldPlaces(st, old)
  BY <1>3, <1>10 DEF OldPlaces, n
<1>19. QED
  BY <1>15, <1>17, <1>18 DEF st, index, old

(* What a program leaves, as the promise of address a and value x.         *)
TokenOf(i) == infer_state.token[i]
RawRow(w, i, h) == <<w, TokenOf(i)[1], TokenOf(i)[2], h, <<>>>>
TurnedRow(w, i, h) == <<w, TokenOf(i)[1], TokenOf(i)[2], h, <<TokenOf(i)[2]>>>>
HeldRow(w, b, j, h) == <<w, b, j, h, IF w = "k" THEN <<j>> ELSE <<>>>>
TileAt(i, h) == <<h \div BLOCK_HEAD, i \div BLOCK_SEQ>>
LastScore(b, h, n) == OwnScore(<<b, SeqLen(b) - 1>>, h, n)
LastNorm(b, h) == [n \in 1 .. SeqLen(b) |-> LastScore(b, h, n - 1)]

RawAt(w, p, a, x) ==
  \E i \in RowsOf, h \in HeadsOf(w) : p = <<0>> /\ a = RowAt(w, i, h) /\ x = RawRow(w, i, h)
TurnedAt(w, p, a, x) ==
  \E i \in RowsOf, h \in HeadsOf(w) : p = TileAt(i, h) /\ a = RowAt(w, i, h) /\ x = TurnedRow(w, i, h)
CopiedAt(w, p, a, x) ==
  \E i \in RowsOf, h \in KvHeads :
    /\ p = <<i>> /\ a = Pooled(w, infer_state.mem_index[i], h)
    /\ x = HeldRow(w, TokenOf(i)[1], TokenOf(i)[2], h)
ContextAt(p, a, x) ==
  \E b \in Batches, h \in Heads : \E i \in 0 .. SeqLen(b) - 1 :
    p = <<b, h, i \div BLOCK>> /\ a = <<"o", Start(b) + i, h>> /\ x = OwnRow(<<b, i>>, h)
ScoredAt(p, a, x) ==
  \E b \in Batches, h \in Heads : \E i \in 0 .. SeqLen(b) - 1 :
    p = <<b, h, i \div BLOCK_ATT1>> /\ a = <<"att", Start(b) + i, h>> /\ x = LastScore(b, h, i)
WeighedAt(p, a, x) ==
  \E b \in Batches, h \in Heads : \E i \in 0 .. SeqLen(b) - 1 :
    p = <<b, h>> /\ a = <<"prob", Start(b) + i, h>> /\ x = <<LastScore(b, h, i), LastNorm(b, h)>>
SummedAt(p, a, x) ==
  \E b \in Batches, h \in Heads :
    p = <<b, h>> /\ a = <<"o", b, h>> /\ x = OwnRow(<<b, SeqLen(b) - 1>>, h)

Promised(name, p, a, x) ==
  \/ name = "mm_v" /\ RawAt("v", p, a, x)
  \/ name = "rotary_q" /\ TurnedAt("q", p, a, x)
  \/ name = "rotary_k" /\ TurnedAt("k", p, a, x)
  \/ name = "copy_k" /\ CopiedAt("k", p, a, x)
  \/ name = "copy_v" /\ CopiedAt("v", p, a, x)
  \/ name = "context" /\ ContextAt(p, a, x)
  \/ name = "att1" /\ ScoredAt(p, a, x)
  \/ name = "softmax" /\ WeighedAt(p, a, x)
  \/ name \in {"att2", "reducev"} /\ SummedAt(p, a, x)

(* A function has value x at a.                                            *)
Puts(f, a, x) == a \in DOMAIN f /\ f[a] = x

LEMMA MmIs ==
  ASSUME InferOK(infer_state), NEW w \in {"q", "k", "v"}, NEW i \in RowsOf, NEW h \in HeadsOf(w)
  PROVE  Puts(MmWrites(w), RowAt(w, i, h), RawRow(w, i, h))
<1> DEFINE D == DOMAIN infer_state.token
           H == HeadsOf(w)
           at(x, g) == IF w = "q" THEN <<w, x, g>> ELSE Cached(w, x, g)
           A == {at(x, g) : x \in D, g \in H}
           of(a) == CHOOSE x \in D \X H : at(x[1], x[2]) = a
           val(a) == <<w, infer_state.token[of(a)[1]][1], infer_state.token[of(a)[1]][2], a[3], <<>>>>
           a0 == RowAt(w, i, h)
<1>0. \A x, g : at(x, g) = RowAt(w, x, g)
  BY DEF RowAt
<1>1. MmWrites(w) = [a \in A |-> val(a)]
  BY DEF MmWrites, HeadsOf
<1>2. D = RowsOf
  BY DEF InferOK, RowsOf
<1>3. a0[3] = h
  BY DEF RowAt, Cached
<1>4. of(a0) \in D \X H /\ at(of(a0)[1], of(a0)[2]) = a0
  <2>1. \E x \in D \X H : at(x[1], x[2]) = a0
    <3>1. <<i, h>> \in D \X H
      BY <1>2
    <3> HIDE DEF at, a0
    <3>2. at(<<i, h>>[1], <<i, h>>[2]) = a0
      BY <1>0 DEF a0
    <3>3. QED
      BY <3>1, <3>2
  <2> HIDE DEF D, H, a0, at
  <2>2. QED
    BY <2>1, Zenon
<1>5. of(a0)[1] = i
  <2>1. of(a0)[1] \in RowsOf
    BY <1>2, <1>4
  <2> HIDE DEF of, at
  <2>2. QED
    BY <1>0, <1>4, <2>1, RowAtOwn
<1>6. a0 \in A
  <2>1. a0 = at(i, h)
    BY <1>0
  <2> HIDE DEF at, a0
  <2>2. QED
    BY <1>2, <2>1
<1> HIDE DEF of, A, a0, at
<1>7. MmWrites(w)[a0] = val(a0) /\ a0 \in DOMAIN MmWrites(w)
  BY <1>1, <1>6
<1>8. QED
  BY <1>3, <1>5, <1>7 DEF Puts, RawRow, TokenOf, a0

LEMMA RotaryIs ==
  ASSUME InferOK(infer_state), InferServes(infer_state), NEW w \in {"q", "k"},
         NEW heads \in Int, HeadsOf(w) = 0 .. heads - 1, NEW i \in RowsOf, NEW h \in HeadsOf(w)
  PROVE  /\ TileAt(i, h) \in RotaryGrid(heads)
         /\ Puts(RotaryWrites(TileAt(i, h), w, heads), RowAt(w, i, h),
                 Rotated(Load(RowAt(w, i, h)), TokenOf(i)[2]))
<1> DEFINE p == TileAt(i, h)
           C == {x \in Rows(p[2], BLOCK_SEQ) \X Rows(p[1], BLOCK_HEAD) : InTensor(x[1], x[2], heads)}
           A == {RowAt(w, x[1], x[2]) : x \in C}
           of(a) == CHOOSE x \in C : RowAt(w, x[1], x[2]) = a
           position(row) == IF row \in DOMAIN infer_state.position THEN infer_state.position[row] ELSE 0
           a0 == RowAt(w, i, h)
<1>0. /\ BLOCK_SEQ \in Nat \ {0} /\ BLOCK_HEAD \in Nat \ {0} /\ infer_state.rows \in Nat
  BY BlockAssumption DEF BlockAssumption, InferOK
<1>1. RotaryWrites(p, w, heads) = [a \in A |-> Rotated(Load(a), position(of(a)[1]))]
  BY DEF RotaryWrites, RowAt
<1>2. heads \in Nat /\ h \in 0 .. heads - 1 /\ i \in 0 .. infer_state.rows - 1
  BY DEF RowsOf
<1>3. /\ h \div BLOCK_HEAD \in 0 .. CDiv(heads, BLOCK_HEAD) - 1 /\ h \in Rows(h \div BLOCK_HEAD, BLOCK_HEAD)
      /\ i \div BLOCK_SEQ \in 0 .. CDiv(infer_state.rows, BLOCK_SEQ) - 1 /\ i \in Rows(i \div BLOCK_SEQ, BLOCK_SEQ)
  BY <1>0, <1>2, TileOf
<1>4. p = <<h \div BLOCK_HEAD, i \div BLOCK_SEQ>> /\ p[1] = h \div BLOCK_HEAD /\ p[2] = i \div BLOCK_SEQ
  BY DEF TileAt
<1>5. p \in RotaryGrid(heads)
  BY <1>3, <1>4 DEF RotaryGrid
<1>6. <<i, h>> \in C
  <2>1. InTensor(i, h, heads)
    BY <1>0, <1>2 DEF InTensor
  <2>2. QED
    BY <1>3, <1>4, <2>1
<1>7. \A x \in C : x[1] \in RowsOf
  <2>1. SUFFICES ASSUME NEW x \in C PROVE x[1] \in RowsOf
    OBVIOUS
  <2>2. p[2] \in Nat
    BY <1>3, <1>4
  <2>3. Rows(p[2], BLOCK_SEQ) \subseteq Nat
    BY <1>0, <2>2, RowsIn
  <2>4. x[1] \in Nat /\ x[1] < infer_state.rows
    BY <2>3 DEF InTensor
  <2>5. QED
    BY <1>0, <2>4 DEF RowsOf
<1> HIDE DEF p, C
<1>8. of(a0) \in C /\ RowAt(w, of(a0)[1], of(a0)[2]) = a0
  <2>1. \E x \in C : RowAt(w, x[1], x[2]) = a0
    BY <1>6
  <2> HIDE DEF a0
  <2>2. QED
    BY <2>1, Zenon
<1>9. of(a0)[1] = i
  <2>1. of(a0)[1] \in RowsOf
    BY <1>7, <1>8
  <2> HIDE DEF of
  <2>2. QED
    BY <1>8, <2>1, RowAtOwn
<1>10. a0 \in A
  BY <1>6
<1>11. position(i) = TokenOf(i)[2]
  <2>1. TokenRow(infer_state, i)
    BY DEF InferServes, RowsOf
  <2>2. QED
    BY <2>1 DEF TokenRow, TokenOf
<1> HIDE DEF of, A, a0, position
<1>12. a0 \in DOMAIN RotaryWrites(p, w, heads) /\ RotaryWrites(p, w, heads)[a0] = Rotated(Load(a0), position(of(a0)[1]))
  BY <1>1, <1>10
<1>13. QED
  BY <1>5, <1>9, <1>11, <1>12 DEF Puts, a0, p

LEMMA CopiesAre ==
  ASSUME InferServes(infer_state), NEW w \in {"k", "v"}, NEW i \in RowsOf, NEW h \in KvHeads
  PROVE  /\ <<i>> \in CopyGrid
         /\ Puts(CopyWrites(<<i>>, w), Pooled(w, infer_state.mem_index[i], h), Load(Cached(w, i, h)))
<1> DEFINE p == <<i>>
           A == {Pooled(w, infer_state.mem_index[p[1]], g) : g \in KvHeads}
           a0 == Pooled(w, infer_state.mem_index[i], h)
<1>1. i \in DOMAIN infer_state.mem_index
  <2>1. TokenRow(infer_state, i)
    BY DEF InferServes, RowsOf
  <2>2. QED
    BY <2>1 DEF TokenRow
<1>2. p \in CopyGrid /\ p[1] = i
  BY <1>1 DEF CopyGrid
<1>3. CopyWrites(p, w) = [a \in A |-> Load(Cached(w, p[1], a[3]))]
  BY DEF CopyWrites
<1>4. a0 \in A /\ a0[3] = h
  BY <1>2 DEF Pooled
<1> HIDE DEF p, A, a0
<1>5. a0 \in DOMAIN CopyWrites(p, w) /\ CopyWrites(p, w)[a0] = Load(Cached(w, i, h))
  BY <1>2, <1>3, <1>4
<1>6. QED
  BY <1>2, <1>5 DEF Puts, p, a0

(* Llama has a key head for a query head, llama2 one for two.              *)
GroupIs == infer_state.kv_group_num = IF model[1] = "llama" THEN 1 ELSE 2

LEMMA KvHead ==
  ASSUME GroupIs, NEW h \in Heads
  PROVE  h \div infer_state.kv_group_num \in KvHeads
<1>1. HEADS \in Nat /\ (HEADS % 2) = 0 /\ h \in 0 .. HEADS - 1
  BY BlockAssumption, HeadAssumption DEF BlockAssumption, HeadAssumption, Heads
<1>2. h \div 1 \in 0 .. HEADS \div 1 - 1
  BY ONLY <1>1, SMTT(30)
<1>3. h \div 2 \in 0 .. HEADS \div 2 - 1
  BY ONLY <1>1, SMTT(30)
<1>4. QED
  BY <1>2, <1>3 DEF GroupIs, KvHeads

LEMMA KernelsAre ==
  ASSUME GroupIs, model \in {"llama", "llama2"} \X {"2.0.0", "2.1.0"}, NEW p
  PROVE  /\ Writes("context", p) \in {FlashWrites(p, infer_state.kv_group_num), FlashViaTmp(p, infer_state.kv_group_num)}
         /\ Writes("att1", p) = Att1Writes(p, infer_state.kv_group_num)
         /\ Writes("softmax", p) = SoftmaxWrites(p)
         /\ Writes("att2", p) = Att2Writes(p, infer_state.kv_group_num)
         /\ Writes("reducev", p) = ReducevWrites(p, infer_state.kv_group_num)
<1> DEFINE g == infer_state.kv_group_num
<1>1. Writes("context", p) = ContextWrites(p)
  BY DEF Writes
<1>2. \/ model = <<"llama", "2.0.0">> \/ model = <<"llama", "2.1.0">>
      \/ model = <<"llama2", "2.0.0">> \/ model = <<"llama2", "2.1.0">>
  OBVIOUS
<1>3. CASE model = <<"llama", "2.0.0">>
  <2>1. g = 1 /\ model[1] = "llama"
    BY <1>3 DEF GroupIs
  <2>2. ContextWrites(p) = FlashViaTmp(p, 1)
    BY <1>3 DEF ContextWrites, LlamaFlashViaTmp
  <2>3. QED
    BY <1>1, <2>1, <2>2 DEF Writes, LlamaAtt1, LlamaAtt2, LlamaReducev
<1>4. CASE model = <<"llama", "2.1.0">>
  <2>1. g = 1 /\ model[1] = "llama"
    BY <1>4 DEF GroupIs
  <2>2. ContextWrites(p) = FlashWrites(p, 1)
    BY <1>4 DEF ContextWrites, LlamaFlash
  <2>3. QED
    BY <1>1, <2>1, <2>2 DEF Writes, LlamaAtt1, LlamaAtt2, LlamaReducev
<1>5. CASE model = <<"llama2", "2.0.0">>
  <2>1. model[1] # "llama"
    BY <1>5
  <2>2. ContextWrites(p) = FlashViaTmp(p, g)
    BY <1>5 DEF ContextWrites, Llama2FlashViaTmp
  <2>3. QED
    BY <1>1, <2>1, <2>2 DEF Writes, Llama2Att1, Llama2Softmax, Llama2Att2, Llama2Reducev
<1>6. CASE model = <<"llama2", "2.1.0">>
  <2>1. model[1] # "llama"
    BY <1>6
  <2>2. ContextWrites(p) = FlashWrites(p, g)
    BY <1>6 DEF ContextWrites, Llama2Flash
  <2>3. QED
    BY <1>1, <2>1, <2>2 DEF Writes, Llama2Att1, Llama2Softmax, Llama2Att2, Llama2Reducev
<1>7. QED
  BY <1>2, <1>3, <1>4, <1>5, <1>6

(* The programs and places of the request's tokens.                        *)
LEMMA LengthsAre ==
  ASSUME InferOK(infer_state), NEW b \in Batches
  PROVE  SeqLen(b) \in Nat /\ MaxLen \in Nat /\ SeqLen(b) <= MaxLen
BY DEF InferOK, SeqLen, MaxLen, Batches

LEMMA StartsAre ==
  ASSUME InferOK(infer_state), NEW b \in Batches
  PROVE  Start(b) \in Nat
<1> DEFINE n == infer_state.batch_size
           f == infer_state.b_seq_len
<1>1. n \in Nat /\ f \in [0 .. n - 1 -> Nat] /\ b \in 0 .. n - 1 /\ Start(b) = SumTo(f, b)
  BY DEF InferOK, Start, Batches
<1> HIDE DEF n, f
<1>2. b \in 0 .. n
  BY <1>1
<1>3. QED
  BY <1>1, <1>2, RunningSum

LEMMA FlashIn ==
  ASSUME InferOK(infer_state), NEW group, NEW b \in Batches, NEW h \in Heads, NEW i \in 0 .. SeqLen(b) - 1
  PROVE  /\ <<b, h, i \div BLOCK>> \in ContextGrid
         /\ <<"o", Start(b) + i, h>> \in DOMAIN FlashWrites(<<b, h, i \div BLOCK>>, group)
         /\ <<"o", Start(b) + i, h>> \in DOMAIN FlashViaTmp(<<b, h, i \div BLOCK>>, group)
<1> DEFINE p == <<b, h, i \div BLOCK>>
           S == {j \in Rows(p[3], BLOCK) : j < SeqLen(p[1])}
           A == {<<"o", Start(p[1]) + j, p[2]>> : j \in S}
<1>1. SeqLen(b) \in Nat /\ MaxLen \in Nat /\ SeqLen(b) <= MaxLen /\ BLOCK \in Nat \ {0}
  BY LengthsAre, BlockAssumption DEF BlockAssumption
<1>2. i \in 0 .. MaxLen - 1 /\ i < SeqLen(b)
  BY <1>1
<1>3. i \div BLOCK \in 0 .. CDiv(MaxLen, BLOCK) - 1 /\ i \in Rows(i \div BLOCK, BLOCK)
  BY <1>1, <1>2, TileOf
<1>4. p \in ContextGrid
  BY <1>3 DEF ContextGrid
<1>5. p[1] = b /\ p[2] = h /\ p[3] = i \div BLOCK
  OBVIOUS
<1>6. DOMAIN FlashWrites(p, group) = A
  BY DEF FlashWrites
<1> HIDE DEF p
<1>7. <<"o", Start(b) + i, h>> \in A
  BY <1>2, <1>3, <1>5
<1> HIDE DEF A
<1>8. <<"o", Start(b) + i, h>> \in DOMAIN FlashViaTmp(p, group)
  BY <1>6, <1>7 DEF FlashViaTmp
<1>9. QED
  BY <1>4, <1>6, <1>7, <1>8 DEF p

LEMMA Att1In ==
  ASSUME InferOK(infer_state), NEW group, NEW b \in Batches, NEW h \in Heads, NEW i \in 0 .. SeqLen(b) - 1
  PROVE  /\ <<b, h, i \div BLOCK_ATT1>> \in Att1Grid
         /\ <<"att", Start(b) + i, h>> \in DOMAIN Att1Writes(<<b, h, i \div BLOCK_ATT1>>, group)
<1> DEFINE p == <<b, h, i \div BLOCK_ATT1>>
           S == IF p[3] * BLOCK_ATT1 < SeqLen(p[1])
                  THEN {n \in Rows(p[3], BLOCK_ATT1) : n < SeqLen(p[1])} ELSE {}
           A == {<<"att", Start(p[1]) + n, p[2]>> : n \in S}
<1>1. SeqLen(b) \in Nat /\ MaxLen \in Nat /\ SeqLen(b) <= MaxLen /\ BLOCK_ATT1 \in Nat \ {0}
  BY LengthsAre, BlockAssumption DEF BlockAssumption
<1>2. i \in 0 .. MaxLen - 1 /\ i < SeqLen(b) /\ i \in Nat
  BY <1>1
<1>3. i \div BLOCK_ATT1 \in 0 .. CDiv(MaxLen, BLOCK_ATT1) - 1 /\ i \in Rows(i \div BLOCK_ATT1, BLOCK_ATT1)
  BY <1>1, <1>2, TileOf
<1>4. p \in Att1Grid
  BY <1>3 DEF Att1Grid
<1>5. p[1] = b /\ p[2] = h /\ p[3] = i \div BLOCK_ATT1
  OBVIOUS
<1>6. DOMAIN Att1Writes(p, group) = A
  BY DEF Att1Writes
<1> HIDE DEF p
<1>7. p[3] \in Nat
  BY <1>3, <1>5
<1>8. p[3] * BLOCK_ATT1 \in Nat
  BY <1>1, <1>7, ProductNat
<1>9. p[3] * BLOCK_ATT1 < SeqLen(b)
  <2>1. p[3] * BLOCK_ATT1 <= i
    BY <1>1, <1>3, <1>5, <1>7, RowsIn
  <2>2. QED
    BY <1>1, <1>2, <1>8, <2>1
<1>10. <<"att", Start(b) + i, h>> \in A
  BY <1>2, <1>3, <1>5, <1>9
<1> HIDE DEF A
<1>11. QED
  BY <1>4, <1>6, <1>10 DEF p

LEMMA SoftmaxIn ==
  ASSUME NEW b \in Batches, NEW h \in Heads, NEW i \in 0 .. SeqLen(b) - 1
  PROVE  /\ <<b, h>> \in TokenGrid
         /\ <<"prob", Start(b) + i, h>> \in DOMAIN SoftmaxWrites(<<b, h>>)
<1> DEFINE p == <<b, h>>
           A == {<<"prob", Start(p[1]) + n, p[2]>> : n \in 0 .. SeqLen(p[1]) - 1}
<1>1. DOMAIN SoftmaxWrites(p) = A
  BY DEF SoftmaxWrites
<1>2. p[1] = b /\ p[2] = h /\ p \in TokenGrid
  BY DEF TokenGrid
<1> HIDE DEF p
<1>3. <<"prob", Start(b) + i, h>> \in A
  BY <1>2
<1> HIDE DEF A
<1>4. QED
  BY <1>1, <1>2, <1>3 DEF p

LEMMA SumsIn ==
  ASSUME NEW group, NEW b \in Batches, NEW h \in Heads
  PROVE  /\ <<b, h>> \in TokenGrid
         /\ <<"o", b, h>> \in DOMAIN Att2Writes(<<b, h>>, group)
         /\ <<"o", b, h>> \in DOMAIN ReducevWrites(<<b, h>>, group)
BY DEF TokenGrid, Att2Writes, ReducevWrites

(* Promises are about what the programs of the launch store.               *)
LEMMA PromisedIn ==
  ASSUME AttentionInv, InferServes(infer_state), GroupIs, NEW name, NEW p, NEW a, NEW x,
         Promised(name, p, a, x)
  PROVE  p \in Grid(name) /\ a \in DOMAIN Writes(name, p)
<1>0. InferOK(infer_state) /\ model \in {"llama", "llama2"} \X {"2.0.0", "2.1.0"}
  BY DEF AttentionInv
<1>1. CASE name = "mm_v" /\ RawAt("v", p, a, x)
  <2>1. PICK i \in RowsOf, h \in HeadsOf("v") : p = <<0>> /\ a = RowAt("v", i, h)
    BY <1>1 DEF RawAt
  <2>2. Puts(MmWrites("v"), RowAt("v", i, h), RawRow("v", i, h))
    BY <1>0, MmIs
  <2>3. QED
    BY <1>1, <2>1, <2>2 DEF Puts, Writes, Grid
<1>2. CASE name = "rotary_q" /\ TurnedAt("q", p, a, x)
  <2>1. PICK i \in RowsOf, h \in HeadsOf("q") : p = TileAt(i, h) /\ a = RowAt("q", i, h)
    BY <1>2 DEF TurnedAt
  <2>2. /\ TileAt(i, h) \in RotaryGrid(HEADS)
        /\ Puts(RotaryWrites(TileAt(i, h), "q", HEADS), RowAt("q", i, h),
                Rotated(Load(RowAt("q", i, h)), TokenOf(i)[2]))
    BY <1>0, HeadsAre, RotaryIs
  <2>3. Grid(name) = RotaryGrid(HEADS) /\ Writes(name, p) = RotaryWrites(p, "q", HEADS)
    BY <1>2 DEF Grid, Writes
  <2>4. QED
    BY <2>1, <2>2, <2>3 DEF Puts
<1>3. CASE name = "rotary_k" /\ TurnedAt("k", p, a, x)
  <2> DEFINE heads == HEADS \div infer_state.kv_group_num
  <2>1. PICK i \in RowsOf, h \in HeadsOf("k") : p = TileAt(i, h) /\ a = RowAt("k", i, h)
    BY <1>3 DEF TurnedAt
  <2>2. Grid(name) = RotaryGrid(heads) /\ Writes(name, p) = RotaryWrites(p, "k", heads)
    BY <1>3 DEF Grid, Writes
  <2>3. heads \in Int /\ HeadsOf("k") = 0 .. heads - 1
    BY <1>0, HeadsAre
  <2> HIDE DEF heads
  <2>4. /\ TileAt(i, h) \in RotaryGrid(heads)
        /\ Puts(RotaryWrites(TileAt(i, h), "k", heads), RowAt("k", i, h),
                Rotated(Load(RowAt("k", i, h)), TokenOf(i)[2]))
    BY <1>0, <2>3, RotaryIs
  <2>5. QED
    BY <2>1, <2>2, <2>4 DEF Puts
<1>4. ASSUME NEW w \in {"k", "v"}, CopiedAt(w, p, a, x), Grid(name) = CopyGrid, Writes(name, p) = CopyWrites(p, w)
      PROVE  p \in Grid(name) /\ a \in DOMAIN Writes(name, p)
  <2>1. PICK i \in RowsOf, h \in KvHeads : p = <<i>> /\ a = Pooled(w, infer_state.mem_index[i], h)
    BY <1>4 DEF CopiedAt
  <2>2. /\ <<i>> \in CopyGrid
        /\ Puts(CopyWrites(<<i>>, w), Pooled(w, infer_state.mem_index[i], h), Load(Cached(w, i, h)))
    BY CopiesAre
  <2>3. QED
    BY <1>4, <2>1, <2>2 DEF Puts
<1>5. CASE name = "copy_k" /\ CopiedAt("k", p, a, x)
  <2>1. Grid(name) = CopyGrid /\ Writes(name, p) = CopyWrites(p, "k")
    BY <1>5 DEF Grid, Writes
  <2>2. QED
    BY <1>4, <1>5, <2>1
<1>6. CASE name = "copy_v" /\ CopiedAt("v", p, a, x)
  <2>1. Grid(name) = CopyGrid /\ Writes(name, p) = CopyWrites(p, "v")
    BY <1>6 DEF Grid, Writes
  <2>2. QED
    BY <1>4, <1>6, <2>1
<1>7. CASE name = "context" /\ ContextAt(p, a, x)
  <2>1. PICK b \in Batches, h \in Heads : \E i \in 0 .. SeqLen(b) - 1 :
          p = <<b, h, i \div BLOCK>> /\ a = <<"o", Start(b) + i, h>>
    BY <1>7 DEF ContextAt
  <2>2. PICK i \in 0 .. SeqLen(b) - 1 : p = <<b, h, i \div BLOCK>> /\ a = <<"o", Start(b) + i, h>>
    BY <2>1
  <2>3. /\ p \in ContextGrid
        /\ \A g : a \in DOMAIN FlashWrites(p, g) /\ a \in DOMAIN FlashViaTmp(p, g)
    BY <1>0, <2>2, FlashIn
  <2>4. Writes("context", p) \in {FlashWrites(p, infer_state.kv_group_num), FlashViaTmp(p, infer_state.kv_group_num)}
    BY <1>0, KernelsAre
  <2>5. Grid(name) = ContextGrid
    BY <1>7 DEF Grid
  <2>6. QED
    BY <1>7, <2>3, <2>4, <2>5
<1>8. CASE name = "att1" /\ ScoredAt(p, a, x)
  <2>1. PICK b \in Batches, h \in Heads : \E i \in 0 .. SeqLen(b) - 1 :
          p = <<b, h, i \div BLOCK_ATT1>> /\ a = <<"att", Start(b) + i, h>>
    BY <1>8 DEF ScoredAt
  <2>2. PICK i \in 0 .. SeqLen(b) - 1 : p = <<b, h, i \div BLOCK_ATT1>> /\ a = <<"att", Start(b) + i, h>>
    BY <2>1
  <2>3. /\ p \in Att1Grid /\ \A g : a \in DOMAIN Att1Writes(p, g)
    BY <1>0, <2>2, Att1In
  <2>4. Writes("att1", p) = Att1Writes(p, infer_state.kv_group_num)
    BY <1>0, KernelsAre
  <2>5. Grid(name) = Att1Grid
    BY <1>8 DEF Grid
  <2>6. QED
    BY <1>8, <2>3, <2>4, <2>5
<1>9. CASE name = "softmax" /\ WeighedAt(p, a, x)
  <2>1. PICK b \in Batches, h \in Heads : \E i \in 0 .. SeqLen(b) - 1 :
          p = <<b, h>> /\ a = <<"prob", Start(b) + i, h>>
    BY <1>9 DEF WeighedAt
  <2>2. p \in TokenGrid /\ a \in DOMAIN SoftmaxWrites(p)
    BY <2>1, SoftmaxIn
  <2>3. Writes("softmax", p) = SoftmaxWrites(p)
    BY <1>0, KernelsAre
  <2>4. Grid(name) = TokenGrid
    BY <1>9 DEF Grid
  <2>5. QED
    BY <1>9, <2>2, <2>3, <2>4
<1>10. CASE name \in {"att2", "reducev"} /\ SummedAt(p, a, x)
  <2>1. PICK b \in Batches, h \in Heads : p = <<b, h>> /\ a = <<"o", b, h>>
    BY <1>10 DEF SummedAt
  <2>2. p \in TokenGrid /\ \A g : a \in DOMAIN Att2Writes(p, g) /\ a \in DOMAIN ReducevWrites(p, g)
    BY <2>1, SumsIn
  <2>3. /\ Writes("att2", p) = Att2Writes(p, infer_state.kv_group_num)
        /\ Writes("reducev", p) = ReducevWrites(p, infer_state.kv_group_num)
    BY <1>0, KernelsAre
  <2>4. Grid(name) = TokenGrid
    BY <1>10 DEF Grid
  <2>5. name = "att2" \/ name = "reducev"
    BY <1>10
  <2>6. QED
    BY <2>2, <2>3, <2>4, <2>5
<1>11. QED
  BY <1>1, <1>2, <1>3, <1>5, <1>6, <1>7, <1>8, <1>9, <1>10 DEF Promised

Holds(a, x) == Load(a) = x
Over(name) == \A p : Did(name, p)
MmName(w) == IF w = "q" THEN "mm_q" ELSE "mm_k"
RotaryName(w) == IF w = "q" THEN "rotary_q" ELSE "rotary_k"
LastName(w) == IF w = "v" THEN "mm_v" ELSE RotaryName(w)
FinalRow(w, i, h) == IF w = "v" THEN RawRow(w, i, h) ELSE TurnedRow(w, i, h)

(* The programs that ran kept their promises; the rows of q and k are as   *)
(* projected until rotated; the cells of earlier tokens hold their rows.   *)
Known ==
  \A name \in Forward : \A p, a, x : Promised(name, p, a, x) /\ Did(name, p) => Holds(a, x)
RawKnown ==
  \A w \in {"q", "k"}, i \in RowsOf : \A h \in HeadsOf(w) :
    Did(MmName(w), <<0>>) /\ ~Did(RotaryName(w), TileAt(i, h)) => Holds(RowAt(w, i, h), RawRow(w, i, h))
HeldKnown ==
  ~infer_state.is_prefill =>
    \A w \in {"k", "v"}, b \in Batches, h \in KvHeads : \A j \in 0 .. SeqLen(b) - 1 :
      j < SeqLen(b) - 1 => Holds(Pooled(w, PlaceOf(infer_state, b, j), h), HeldRow(w, b, j, h))

AttentionValues ==
  /\ AttentionReady /\ InferServes(infer_state) /\ CellsApart(infer_state, cells) /\ GroupIs
  /\ Known /\ RawKnown /\ HeldKnown

LEMMA RowsKnown ==
  ASSUME AttentionReady, Known, NEW w \in {"q", "k", "v"}, Over(LastName(w)),
         NEW i \in RowsOf, NEW h \in HeadsOf(w)
  PROVE  Holds(RowAt(w, i, h), FinalRow(w, i, h))
<1>1. AttentionInv
  BY DEF AttentionReady
<1>2. {"mm_q", "rotary_q", "mm_k", "rotary_k", "mm_v"} \subseteq Forward
  BY <1>1, ForwardNames
<1>3. CASE w = "v"
  <2>1. RawAt("v", <<0>>, RowAt(w, i, h), RawRow(w, i, h))
    BY <1>3 DEF RawAt
  <2>2. Promised("mm_v", <<0>>, RowAt(w, i, h), RawRow(w, i, h))
    BY <2>1 DEF Promised
  <2>3. Did("mm_v", <<0>>)
    BY <1>3 DEF Over, LastName
  <2>4. Holds(RowAt(w, i, h), RawRow(w, i, h))
    BY <1>2, <2>2, <2>3 DEF Known
  <2>5. QED
    BY <1>3, <2>4 DEF FinalRow
<1>4. CASE w # "v"
  <2>1. TurnedAt(w, TileAt(i, h), RowAt(w, i, h), TurnedRow(w, i, h))
    BY DEF TurnedAt
  <2>2. Promised(RotaryName(w), TileAt(i, h), RowAt(w, i, h), TurnedRow(w, i, h))
    <3>1. w = "q" \/ w = "k"
      BY <1>4
    <3>2. QED
      BY <2>1, <3>1 DEF Promised, RotaryName
  <2>3. Did(RotaryName(w), TileAt(i, h))
    BY <1>4 DEF Over, LastName
  <2>4. Holds(RowAt(w, i, h), TurnedRow(w, i, h))
    BY <1>2, <2>2, <2>3 DEF Known, RotaryName
  <2>5. QED
    BY <1>4, <2>4 DEF FinalRow
<1>5. QED
  BY <1>3, <1>4

LEMMA FinalIsHeld ==
  ASSUME NEW w \in {"k", "v"}, NEW i, NEW h
  PROVE  FinalRow(w, i, h) = HeldRow(w, TokenOf(i)[1], TokenOf(i)[2], h)
BY DEF FinalRow, HeldRow, RawRow, TurnedRow

PoolOver == Over("rotary_k") /\ Over("mm_v") /\ Over("copy_k") /\ Over("copy_v")

LEMMA CopyKnown ==
  ASSUME AttentionReady, Known, PoolOver, ~infer_state.decode_is_contiguous,
         NEW w \in {"k", "v"}, NEW i \in RowsOf, NEW h \in KvHeads
  PROVE  Holds(Pooled(w, infer_state.mem_index[i], h), HeldRow(w, TokenOf(i)[1], TokenOf(i)[2], h))
<1> DEFINE a == Pooled(w, infer_state.mem_index[i], h)
           x == HeldRow(w, TokenOf(i)[1], TokenOf(i)[2], h)
<1>1. CopiedAt(w, <<i>>, a, x)
  BY DEF CopiedAt
<1> HIDE DEF a, x
<1>2. "copy_k" \in Forward /\ "copy_v" \in Forward
  BY DEF Forward, ForwardOf, CopiesOf
<1>3. CASE w = "k"
  BY <1>1, <1>2, <1>3 DEF Promised, Known, PoolOver, Over, a, x
<1>4. CASE w = "v"
  BY <1>1, <1>2, <1>4 DEF Promised, Known, PoolOver, Over, a, x
<1>5. QED
  BY <1>3, <1>4

(* Once k and v are in the pool, every token has its rows there.           *)
LEMMA PoolKnown ==
  ASSUME AttentionReady, InferServes(infer_state), Known, HeldKnown, PoolOver,
         NEW w \in {"k", "v"}, NEW b \in Batches, NEW j \in 0 .. SeqLen(b) - 1, NEW h \in KvHeads
  PROVE  Holds(Pooled(w, PlaceOf(infer_state, b, j), h), HeldRow(w, b, j, h))
<1>0. InferOK(infer_state) /\ infer_state.is_prefill \in BOOLEAN
  BY DEF AttentionReady, AttentionInv
<1>1. PlacedRow(infer_state, b)
  BY DEF InferServes, Batches
<1>2. ASSUME NEW i \in RowsOf, TokenOf(i) = <<b, j>>
      PROVE  Holds(Pooled(w, PlaceOf(infer_state, b, j), h), HeldRow(w, b, j, h))
  <2>1. TokenRow(infer_state, i)
    BY DEF InferServes, RowsOf
  <2>2. TokenOf(i)[1] = b /\ TokenOf(i)[2] = j
    BY <1>2
  <2>3. infer_state.mem_index[i] = PlaceOf(infer_state, b, j)
    BY <2>1, <2>2 DEF TokenRow, TokenOf
  <2>4. CASE ~infer_state.decode_is_contiguous
    BY <2>2, <2>3, <2>4, CopyKnown
  <2>5. CASE infer_state.decode_is_contiguous
    <3>1. infer_state.mem_index[i] = infer_state.mem_index[0] + i
      BY <2>5 DEF InferServes, RowsOf
    <3>2. RowAt(w, i, h) = Pooled(w, infer_state.mem_index[i], h)
      BY <2>5, <3>1 DEF RowAt, Cached, Pooled
    <3>3. Over(LastName(w)) /\ h \in HeadsOf(w)
      BY DEF PoolOver, LastName, RotaryName, HeadsOf
    <3>4. Holds(RowAt(w, i, h), FinalRow(w, i, h))
      BY <3>3, RowsKnown
    <3>5. FinalRow(w, i, h) = HeldRow(w, b, j, h)
      BY <2>2, FinalIsHeld
    <3>6. QED
      BY <2>3, <3>2, <3>4, <3>5
  <2>6. QED
    BY <2>4, <2>5
<1>3. CASE infer_state.is_prefill
  <2>1. /\ Start(b) + j \in RowsOf /\ TokenOf(Start(b) + j) = <<b, j>>
    BY <1>1, <1>3 DEF PlacedRow, SeqLen, Start, RowsOf, TokenOf
  <2>2. QED
    BY <1>2, <2>1
<1>4. CASE ~infer_state.is_prefill /\ j < SeqLen(b) - 1
  BY <1>4 DEF HeldKnown
<1>5. CASE ~infer_state.is_prefill /\ ~(j < SeqLen(b) - 1)
  <2>1. j = SeqLen(b) - 1
    BY <1>0, <1>5, LengthsAre
  <2>2. TokenOf(b) = <<b, j>>
    BY <1>1, <1>5, <2>1 DEF PlacedRow, SeqLen, TokenOf
  <2>3. b \in RowsOf
    BY <1>0, <1>5 DEF InferOK, RowsOf, Batches
  <2>4. QED
    BY <1>2, <2>2, <2>3
<1>6. QED
  BY <1>3, <1>4, <1>5

(* What the current launch has not done yet, and what those before it did. *)
LEMMA Undone ==
  ASSUME AttentionReady, NEW p \in grid
  PROVE  /\ ~Did(Head(launches), p)
         /\ \A name : Nth(name) < Nth(Head(launches)) => Over(name)
BY ReadyNames DEF Did, Over

LEMMA RotaryMakes ==
  ASSUME AttentionValues, NEW w \in {"q", "k"}, Head(launches) = RotaryName(w), NEW heads \in Int,
         HeadsOf(w) = 0 .. heads - 1, NEW p \in grid, NEW a, NEW x, TurnedAt(w, p, a, x)
  PROVE  Puts(RotaryWrites(p, w, heads), a, x)
<1>0. AttentionReady /\ InferServes(infer_state) /\ RawKnown /\ InferOK(infer_state)
  BY DEF AttentionValues, AttentionReady, AttentionInv
<1>1. PICK i \in RowsOf, h \in HeadsOf(w) : p = TileAt(i, h) /\ a = RowAt(w, i, h) /\ x = TurnedRow(w, i, h)
  BY DEF TurnedAt
<1>2. Puts(RotaryWrites(TileAt(i, h), w, heads), RowAt(w, i, h),
           Rotated(Load(RowAt(w, i, h)), TokenOf(i)[2]))
  BY <1>0, RotaryIs
<1>3. ~Did(RotaryName(w), TileAt(i, h))
  BY <1>0, <1>1, Undone
<1>4. Nth(MmName(w)) < Nth(RotaryName(w))
  <2>1. w = "q" \/ w = "k"
    OBVIOUS
  <2>2. QED
    BY <2>1, Nths DEF MmName, RotaryName
<1>5. Did(MmName(w), <<0>>)
  BY <1>0, <1>4, Undone DEF Over
<1>6. Load(RowAt(w, i, h)) = RawRow(w, i, h)
  BY <1>0, <1>3, <1>5 DEF RawKnown, Holds
<1>7. Rotated(RawRow(w, i, h), TokenOf(i)[2]) = TurnedRow(w, i, h)
  <2> DEFINE raw == RawRow(w, i, h)
             j == TokenOf(i)[2]
  <2>1. raw = <<w, TokenOf(i)[1], j, h, <<>>>>
    BY DEF RawRow
  <2>2. raw # Junk
    <3>1. raw[1] = w /\ Junk[1] = "junk" /\ w # "junk"
      BY <2>1 DEF Junk
    <3>2. QED
      BY <3>1
  <2>3. raw[1] = w /\ raw[2] = TokenOf(i)[1] /\ raw[3] = j /\ raw[4] = h /\ raw[5] = <<>>
    BY <2>1
  <2> HIDE DEF raw
  <2>4. Rotated(raw, j) = <<w, TokenOf(i)[1], j, h, Append(<<>>, j)>>
    BY <2>2, <2>3 DEF Rotated
  <2>5. Append(<<>>, j) = <<j>>
    OBVIOUS
  <2>6. QED
    BY <2>4, <2>5 DEF TurnedRow, raw
<1>8. QED
  BY <1>1, <1>2, <1>6, <1>7

LEMMA CopyMakes ==
  ASSUME AttentionValues, NEW w \in {"k", "v"}, Head(launches) \in {"copy_k", "copy_v"},
         NEW p \in grid, NEW a, NEW x, CopiedAt(w, p, a, x)
  PROVE  Puts(CopyWrites(p, w), a, x)
<1>0. AttentionReady /\ InferServes(infer_state) /\ Known
  BY DEF AttentionValues
<1>1. PICK i \in RowsOf, h \in KvHeads :
        /\ p = <<i>> /\ a = Pooled(w, infer_state.mem_index[i], h)
        /\ x = HeldRow(w, TokenOf(i)[1], TokenOf(i)[2], h)
  BY DEF CopiedAt
<1>2. Puts(CopyWrites(<<i>>, w), Pooled(w, infer_state.mem_index[i], h), Load(Cached(w, i, h)))
  BY <1>0, CopiesAre
<1>3. Over("rotary_k") /\ Over("mm_v")
  <2>1. Nth("rotary_k") < Nth(Head(launches)) /\ Nth("mm_v") < Nth(Head(launches))
    BY Nths
  <2>2. QED
    BY <1>0, <2>1, Undone
<1>4. RowAt(w, i, h) = Cached(w, i, h) /\ h \in HeadsOf(w) /\ Over(LastName(w))
  BY <1>3 DEF RowAt, HeadsOf, LastName, RotaryName
<1>5. Holds(RowAt(w, i, h), FinalRow(w, i, h))
  BY <1>0, <1>4, RowsKnown
<1>6. Load(Cached(w, i, h)) = HeldRow(w, TokenOf(i)[1], TokenOf(i)[2], h)
  BY <1>4, <1>5, FinalIsHeld DEF Holds
<1>7. QED
  BY <1>1, <1>2, <1>6

(* The tags that tell rows, scores, masks and junk apart.                  *)
LEMMA RowTags ==
  /\ \A w, b, j, h : w # "junk" => HeldRow(w, b, j, h) # Junk
  /\ \A q, k : <<"score", q, k>> # Junk /\ <<"score", q, k>> # NegInf
  /\ NegInf # Junk /\ Zero # Junk
<1>1. ASSUME NEW w, NEW b, NEW j, NEW h, w # "junk" PROVE HeldRow(w, b, j, h) # Junk
  <2>1. HeldRow(w, b, j, h)[1] = w /\ Junk[1] = "junk"
    BY DEF HeldRow, Junk
  <2>2. QED
    BY <1>1, <2>1
<1>2. ASSUME NEW q, NEW k PROVE <<"score", q, k>> # Junk /\ <<"score", q, k>> # NegInf
  <2>1. <<"score", q, k>>[1] = "score" /\ Junk[1] = "junk" /\ NegInf[1] = "-inf"
    BY DEF Junk, NegInf
  <2>2. QED
    BY <2>1
<1>3. NegInf # Junk /\ Zero # Junk
  <2>1. Junk[1] = "junk" /\ NegInf[1] = "-inf" /\ Zero[1] = "zero"
    BY DEF Junk, NegInf, Zero
  <2>2. QED
    BY <2>1
<1>4. QED
  BY <1>1, <1>2, <1>3

QueryRow(b, i, h) == <<"q", b, i, h, <<i>>>>
KvOf(h) == h \div infer_state.kv_group_num

LEMMA OwnScoreIs ==
  ASSUME NEW b, NEW i, NEW h, NEW j
  PROVE  /\ OwnScore(<<b, i>>, h, j) = <<"score", QueryRow(b, i, h), HeldRow("k", b, j, KvOf(h))>>
         /\ Score(QueryRow(b, i, h), HeldRow("k", b, j, KvOf(h))) = OwnScore(<<b, i>>, h, j)
         /\ OwnScore(<<b, i>>, h, j) # Junk /\ OwnScore(<<b, i>>, h, j) # NegInf
<1> DEFINE q == QueryRow(b, i, h)
           k == HeldRow("k", b, j, KvOf(h))
<1>1. OwnScore(<<b, i>>, h, j) = <<"score", q, k>>
  BY DEF OwnScore, QueryRow, HeldRow, KvOf
<1>2. q # Junk
  <2>1. q[1] = "q" /\ Junk[1] = "junk"
    BY DEF QueryRow, Junk
  <2>2. QED
    BY <2>1
<1>3. k # Junk
  BY RowTags
<1> HIDE DEF q, k
<1>4. Score(q, k) = <<"score", q, k>>
  BY <1>2, <1>3 DEF Score
<1>5. QED
  BY <1>1, <1>4, RowTags DEF q, k

(* Terms that are a token's own make its row of the output.                *)
OwnTermsOf(score, value, b, i, h) ==
  \A j \in 0 .. i : score[j] = OwnScore(<<b, i>>, h, j) /\ value[j] = HeldRow("v", b, j, KvOf(h))
LEMMA OwnFrom ==
  ASSUME NEW b, NEW i \in Nat, NEW h, NEW score, NEW value, OwnTermsOf(score, value, b, i, h),
         NEW acc, SoftmaxOf(acc, score, value, i + 1)
  PROVE  acc = OwnRow(<<b, i>>, h)
<1> DEFINE n == i + 1
           norm == [j \in 1 .. n |-> OwnScore(<<b, i>>, h, j - 1)]
<1>1. acc = TermsOver(score, value, n, ScoresTo(score, n))
  BY DEF SoftmaxOf
<1>2. \A k \in 1 .. n : k - 1 \in 0 .. i
  OBVIOUS
<1>3. \A k \in 1 .. n : score[k - 1] = OwnScore(<<b, i>>, h, k - 1) /\ value[k - 1] = HeldRow("v", b, k - 1, KvOf(h))
  BY <1>2 DEF OwnTermsOf
<1>4. OwnRow(<<b, i>>, h) = [j \in 1 .. n |-> <<norm[j], HeldRow("v", b, j - 1, KvOf(h)), norm>>]
  BY DEF OwnRow, HeldRow, KvOf
<1> HIDE DEF n
<1>5. ScoresTo(score, n) = norm
  BY <1>3 DEF ScoresTo
<1>6. \A j \in 1 .. n : norm[j] = score[j - 1]
  BY <1>3
<1> HIDE DEF norm
<1>7. TermsOver(score, value, n, norm) = [j \in 1 .. n |-> <<norm[j], HeldRow("v", b, j - 1, KvOf(h)), norm>>]
  BY <1>3, <1>6 DEF TermsOver
<1>8. QED
  BY <1>1, <1>4, <1>5, <1>7

(* The rows of a prefill, once projected and rotated.                      *)
LEMMA PrefillRows ==
  ASSUME AttentionReady, InferServes(infer_state), Known, infer_state.is_prefill,
         Over("rotary_q"), Over("rotary_k"), Over("mm_v"),
         NEW b \in Batches, NEW j \in 0 .. SeqLen(b) - 1
  PROVE  /\ \A h \in Heads : Load(<<"q", Start(b) + j, h>>) = QueryRow(b, j, h)
         /\ \A w \in {"k", "v"}, h \in KvHeads : Load(Cached(w, Start(b) + j, h)) = HeldRow(w, b, j, h)
<1> DEFINE i == Start(b) + j
<1>1. PlacedRow(infer_state, b)
  BY DEF InferServes, Batches
<1>2. i \in RowsOf /\ TokenOf(i) = <<b, j>>
  BY <1>1 DEF PlacedRow, SeqLen, Start, RowsOf, TokenOf
<1> HIDE DEF i
<1>3. ASSUME NEW h \in Heads PROVE Load(<<"q", i, h>>) = QueryRow(b, j, h)
  <2>1. Over(LastName("q")) /\ h \in HeadsOf("q") /\ RowAt("q", i, h) = <<"q", i, h>>
    BY DEF LastName, RotaryName, HeadsOf, RowAt
  <2>2. Holds(RowAt("q", i, h), FinalRow("q", i, h))
    BY <1>2, <2>1, RowsKnown
  <2>3. FinalRow("q", i, h) = QueryRow(b, j, h)
    BY <1>2 DEF FinalRow, TurnedRow, QueryRow
  <2>4. QED
    BY <2>1, <2>2, <2>3 DEF Holds
<1>4. ASSUME NEW w \in {"k", "v"}, NEW h \in KvHeads PROVE Load(Cached(w, i, h)) = HeldRow(w, b, j, h)
  <2>1. Over(LastName(w)) /\ h \in HeadsOf(w) /\ RowAt(w, i, h) = Cached(w, i, h)
    BY DEF LastName, RotaryName, HeadsOf, RowAt
  <2>2. Holds(RowAt(w, i, h), FinalRow(w, i, h))
    BY <1>2, <2>1, RowsKnown
  <2>3. FinalRow(w, i, h) = HeldRow(w, b, j, h)
    BY <1>2, FinalIsHeld
  <2>4. QED
    BY <2>1, <2>2, <2>3 DEF Holds
<1>5. QED
  BY <1>3, <1>4 DEF i

(* The last block of a row ends past it.                                   *)
LEMMA LastTile ==
  ASSUME NEW block \in Nat \ {0}, NEW i \in Nat
  PROVE  /\ i \div block \in Nat /\ (i \div block) * block <= i /\ i + 1 <= (i \div block + 1) * block
         /\ (i \div block + 1) * block \in Nat
<1> DEFINE q == i \div block
           s == i % block
<1>1. q \in Nat /\ s \in Nat /\ s < block /\ q * block + s = i
  BY DivModOf
<1> HIDE DEF q, s
<1>2. q * block \in Nat /\ (q + 1) * block = q * block + block
  BY <1>1, ProductNat
<1>3. QED
  BY <1>1, <1>2 DEF q

LEMMA FlashRowIs ==
  ASSUME AttentionReady, InferServes(infer_state), Known, GroupIs, infer_state.is_prefill,
         Over("rotary_q"), Over("rotary_k"), Over("mm_v"),
         NEW b \in Batches, NEW h \in Heads, NEW i \in 0 .. SeqLen(b) - 1
  PROVE  FlashRow(<<b, h, i \div BLOCK>>, i, infer_state.kv_group_num) = OwnRow(<<b, i>>, h)
<1> DEFINE m == i \div BLOCK
           p == <<b, h, m>>
           g == KvOf(h)
           n == (m + 1) * BLOCK
           columns == 0 .. n - 1
           q == IF i < SeqLen(b) THEN Load(<<"q", Start(b) + i, h>>) ELSE Zero
           k(j) == IF j < SeqLen(b) THEN Load(Cached("k", Start(b) + j, g)) ELSE Zero
           v(j) == IF j < SeqLen(b) THEN Load(Cached("v", Start(b) + j, g)) ELSE Zero
           score == [j \in columns |-> IF i >= j THEN Score(q, k(j)) ELSE NegInf]
           value == [j \in columns |-> v(j)]
<1>0. InferOK(infer_state)
  BY DEF AttentionReady, AttentionInv
<1>1. SeqLen(b) \in Nat /\ i \in Nat /\ i < SeqLen(b) /\ BLOCK \in Nat \ {0}
  BY <1>0, LengthsAre, BlockAssumption DEF BlockAssumption
<1>2. m \in Nat /\ m * BLOCK < i + 1 /\ i + 1 <= n /\ n \in Nat
  <2>1. m \in Nat /\ m * BLOCK <= i /\ i + 1 <= n /\ n \in Nat
    BY <1>1, LastTile
  <2>2. m * BLOCK \in Nat
    BY <1>1, <2>1, ProductNat
  <2>3. QED
    BY <1>1, <2>1, <2>2
<1>3. FlashRow(p, i, infer_state.kv_group_num) = OverBlocks(m + 1, BLOCK, score, value)
  <2>1. p[1] = b /\ p[2] = h /\ p[3] = m
    OBVIOUS
  <2> HIDE DEF p, m
  <2>2. QED
    BY <2>1, Zenon DEF FlashRow, Causal, KvOf
<1>4. g \in KvHeads
  BY KvHead DEF KvOf
<1> HIDE DEF g, m, n
<1>5. q = QueryRow(b, i, h)
  BY <1>1, PrefillRows
<1>6. ASSUME NEW j \in Nat, j < SeqLen(b) PROVE k(j) = HeldRow("k", b, j, g) /\ v(j) = HeldRow("v", b, j, g)
  <2>1. j \in 0 .. SeqLen(b) - 1
    BY <1>1, <1>6
  <2>2. QED
    BY <1>4, <1>6, <2>1, PrefillRows
<1>7. ASSUME NEW j \in Nat, ~(j < SeqLen(b)) PROVE k(j) = Zero /\ v(j) = Zero
  BY <1>7
<1> HIDE DEF q, k, v
<1>8. ASSUME NEW j \in columns
      PROVE  /\ j <= i => score[j] = OwnScore(<<b, i>>, h, j) /\ value[j] = HeldRow("v", b, j, g)
             /\ j > i => score[j] = NegInf
             /\ score[j] # Junk /\ value[j] # Junk
             /\ j <= i => score[j] # NegInf
  <2>1. j \in Nat
    BY <1>2
  <2>2. value[j] = v(j) /\ score[j] = IF i >= j THEN Score(q, k(j)) ELSE NegInf
    OBVIOUS
  <2> HIDE DEF score, value
  <2>3. CASE j <= i
    <3>1. j < SeqLen(b) /\ i >= j
      BY <1>1, <2>1, <2>3
    <3>2. k(j) = HeldRow("k", b, j, g) /\ v(j) = HeldRow("v", b, j, g)
      BY <1>6, <2>1, <3>1
    <3>3. score[j] = OwnScore(<<b, i>>, h, j)
      BY <1>5, <2>2, <3>1, <3>2, OwnScoreIs DEF g
    <3>4. ~(j > i)
      BY <1>1, <2>1, <2>3
    <3>5. QED
      BY <2>2, <3>2, <3>3, <3>4, OwnScoreIs, RowTags
  <2>4. CASE ~(j <= i)
    <3>1. ~(i >= j)
      BY <1>1, <2>1, <2>4
    <3>2. score[j] = NegInf
      BY <2>2, <3>1
    <3>3. value[j] # Junk
      BY <1>6, <1>7, <2>1, <2>2, RowTags
    <3>4. QED
      BY <2>4, <3>2, <3>3, RowTags
  <2>5. QED
    BY <2>3, <2>4
<1> HIDE DEF score, value
<1>9. Weighted(score, value, n, i + 1)
  <2>1. \A j \in 0 .. i : j \in columns /\ j <= i
    BY <1>1, <1>2
  <2>2. \A j \in i + 1 .. n - 1 : j \in columns /\ j > i
    BY <1>1, <1>2
  <2>3. (i + 1) - 1 = i
    BY <1>1
  <2> HIDE DEF columns
  <2>4. /\ \A j \in 0 .. (i + 1) - 1 : score[j] # NegInf
        /\ \A j \in i + 1 .. n - 1 : score[j] = NegInf
    BY <1>8, <2>1, <2>2, <2>3
  <2>5. \A j \in 0 .. n - 1 : score[j] # Junk /\ value[j] # Junk
    BY <1>8 DEF columns
  <2>6. QED
    BY <2>4, <2>5 DEF Weighted
<1>10. OwnTermsOf(score, value, b, i, h)
  <2>1. \A j \in 0 .. i : j \in columns /\ j <= i
    BY <1>1, <1>2
  <2>2. QED
    BY <1>8, <2>1 DEF OwnTermsOf, g
<1>11. SoftmaxOf(OverBlocks(m + 1, BLOCK, score, value), score, value, i + 1)
  <2>1. m + 1 \in Nat \ {0} /\ (m + 1) - 1 = m /\ i + 1 \in Nat
    BY <1>1, <1>2
  <2>2. ((m + 1) - 1) * BLOCK < i + 1 /\ i + 1 <= (m + 1) * BLOCK
    BY <1>2, <2>1 DEF n
  <2>3. Weighted(score, value, (m + 1) * BLOCK, i + 1)
    BY <1>9 DEF n
  <2>4. QED
    BY ONLY <1>1, <2>1, <2>2, <2>3, BlocksAre
<1>12. OverBlocks(m + 1, BLOCK, score, value) = OwnRow(<<b, i>>, h)
  BY <1>1, <1>10, <1>11, OwnFrom
<1>13. QED
  BY <1>3, <1>12 DEF p, m

(* Of whom the current launch is.                                          *)
LEMMA LaunchOf ==
  ASSUME AttentionReady
  PROVE  /\ Head(launches) = "context" => infer_state.is_prefill
         /\ Head(launches) \in {"att1", "softmax", "att2", "reducev"} =>
              ~infer_state.is_prefill /\ "att1" \in Forward
         /\ Head(launches) = "att2" => "softmax" \in Forward
<1>1. Head(launches) \in Forward
  BY ReadyNames
<1>2. Head(launches) = "context" => infer_state.is_prefill
  BY <1>1 DEF Forward, ForwardOf, CopiesOf, ScoringOf
<1>3. Head(launches) \in {"att1", "softmax", "att2", "reducev"} => ~infer_state.is_prefill /\ "att1" \in Forward
  BY <1>1 DEF Forward, ForwardOf, CopiesOf, ScoringOf
<1>4. Head(launches) = "att2" => "softmax" \in Forward
  BY <1>1 DEF Forward, ForwardOf, CopiesOf, ScoringOf
<1>5. QED
  BY <1>2, <1>3, <1>4

LEMMA FlashMakes ==
  ASSUME AttentionValues, Head(launches) = "context", NEW p \in grid, NEW a, NEW x, ContextAt(p, a, x)
  PROVE  Puts(Writes("context", p), a, x)
<1> DEFINE g == infer_state.kv_group_num
<1>0. /\ AttentionReady /\ InferServes(infer_state) /\ Known /\ GroupIs /\ InferOK(infer_state)
      /\ model \in {"llama", "llama2"} \X {"2.0.0", "2.1.0"}
  BY DEF AttentionValues, AttentionReady, AttentionInv
<1>1. infer_state.is_prefill
  BY <1>0, LaunchOf
<1>2. Over("rotary_q") /\ Over("rotary_k") /\ Over("mm_v")
  <2>1. \A name \in {"rotary_q", "rotary_k", "mm_v"} : Nth(name) < Nth(Head(launches))
    BY Nths
  <2>2. QED
    BY <1>0, <2>1, Undone
<1>3. PICK b \in Batches, h \in Heads : \E i \in 0 .. SeqLen(b) - 1 :
        p = <<b, h, i \div BLOCK>> /\ a = <<"o", Start(b) + i, h>> /\ x = OwnRow(<<b, i>>, h)
  BY DEF ContextAt
<1>4. PICK i \in 0 .. SeqLen(b) - 1 :
        p = <<b, h, i \div BLOCK>> /\ a = <<"o", Start(b) + i, h>> /\ x = OwnRow(<<b, i>>, h)
  BY <1>3
<1>5. FlashRow(p, i, g) = x
  BY <1>0, <1>1, <1>2, <1>4, FlashRowIs
<1>6. a \in DOMAIN FlashWrites(p, g) /\ a \in DOMAIN FlashViaTmp(p, g)
  BY <1>0, <1>4, FlashIn
<1>7. a[2] - Start(p[1]) = i
  <2>1. Start(b) \in Nat /\ SeqLen(b) \in Nat
    BY <1>0, StartsAre, LengthsAre
  <2>2. a[2] = Start(b) + i /\ p[1] = b /\ i \in Nat
    BY <1>4, <2>1
  <2>3. QED
    BY <2>1, <2>2
<1> HIDE DEF g
<1>8. FlashWrites(p, g)[a] = x
  <2> DEFINE A == {<<"o", Start(p[1]) + k, p[2]>> : k \in {j \in Rows(p[3], BLOCK) : j < SeqLen(p[1])}}
             val(y) == FlashRow(p, y[2] - Start(p[1]), g)
  <2>1. FlashWrites(p, g) = [y \in A |-> val(y)]
    BY DEF FlashWrites
  <2>2. val(a) = x
    BY <1>5, <1>7
  <2> HIDE DEF A, val
  <2>3. QED
    BY <1>6, <2>1, <2>2
<1>9. FlashViaTmp(p, g)[a] = x
  <2> DEFINE scratch == IF p[3] * BLOCK < SeqLen(p[1])
                          THEN {<<"tmp", <<p[1], k>>, p[2]>> : k \in Rows(p[3], BLOCK)} ELSE {}
             flash == FlashWrites(p, g)
  <2>1. FlashViaTmp(p, g) = [y \in scratch \cup DOMAIN flash |-> IF y \in scratch THEN Zero ELSE flash[y]]
    BY DEF FlashViaTmp
  <2>2. a \notin scratch
    BY <1>4
  <2> HIDE DEF scratch
  <2>3. QED
    BY <1>6, <1>8, <2>1, <2>2
<1>10. Writes("context", p) \in {FlashWrites(p, g), FlashViaTmp(p, g)}
  BY <1>0, KernelsAre DEF g
<1>11. QED
  BY <1>6, <1>8, <1>9, <1>10 DEF Puts

(* What a decode reads: the query of the new token, and every token's row  *)
(* of the pool.                                                            *)
LEMMA DecodeRows ==
  ASSUME AttentionValues, Head(launches) \in {"att1", "softmax", "att2", "reducev"},
         NEW b \in Batches
  PROVE  /\ \A h \in Heads : Load(<<"q", b, h>>) = QueryRow(b, SeqLen(b) - 1, h)
         /\ \A w \in {"k", "v"}, h \in KvHeads : \A j \in 0 .. SeqLen(b) - 1 :
              /\ Load(Pooled(w, PlaceOf(infer_state, b, j), h)) = HeldRow(w, b, j, h)
              /\ Load(Pooled(w, BLoc(b, MaxLen - SeqLen(b) + j), h)) = HeldRow(w, b, j, h)
         /\ SeqLen(b) \in Nat \ {0}
<1>0. /\ AttentionReady /\ InferServes(infer_state) /\ Known /\ HeldKnown /\ InferOK(infer_state)
  BY DEF AttentionValues, AttentionReady, AttentionInv
<1>1. ~infer_state.is_prefill
  BY <1>0, LaunchOf
<1>2. Over("rotary_q") /\ PoolOver
  <2>1. \A name \in {"rotary_q", "rotary_k", "mm_v", "copy_k", "copy_v"} : Nth(name) < Nth(Head(launches))
    BY Nths
  <2>2. QED
    BY <1>0, <2>1, ReadyNames DEF PoolOver, Over
<1>3. PlacedRow(infer_state, b)
  BY <1>0 DEF InferServes, Batches
<1>4. SeqLen(b) \in Nat \ {0}
  BY <1>0, <1>3, LengthsAre DEF PlacedRow, SeqLen
<1>5. ASSUME NEW h \in Heads PROVE Load(<<"q", b, h>>) = QueryRow(b, SeqLen(b) - 1, h)
  <2>1. b \in RowsOf
    BY <1>0, <1>1 DEF InferOK, RowsOf, Batches
  <2>2. TokenOf(b) = <<b, SeqLen(b) - 1>>
    BY <1>1, <1>3 DEF PlacedRow, SeqLen, TokenOf
  <2>3. Over(LastName("q")) /\ h \in HeadsOf("q") /\ RowAt("q", b, h) = <<"q", b, h>>
    BY <1>2 DEF LastName, RotaryName, HeadsOf, RowAt
  <2>4. Holds(RowAt("q", b, h), FinalRow("q", b, h))
    BY <1>0, <2>1, <2>3, RowsKnown
  <2>5. FinalRow("q", b, h) = QueryRow(b, SeqLen(b) - 1, h)
    BY <2>2 DEF FinalRow, TurnedRow, QueryRow
  <2>6. QED
    BY <2>3, <2>4, <2>5 DEF Holds
<1>6. ASSUME NEW w \in {"k", "v"}, NEW h \in KvHeads, NEW j \in 0 .. SeqLen(b) - 1
      PROVE  /\ Load(Pooled(w, PlaceOf(infer_state, b, j), h)) = HeldRow(w, b, j, h)
             /\ Load(Pooled(w, BLoc(b, MaxLen - SeqLen(b) + j), h)) = HeldRow(w, b, j, h)
  <2>1. BLoc(b, MaxLen - SeqLen(b) + j) = PlaceOf(infer_state, b, j)
    BY <1>3 DEF PlacedRow, BLoc, PlaceOf, SeqLen, MaxLen
  <2>2. Holds(Pooled(w, PlaceOf(infer_state, b, j), h), HeldRow(w, b, j, h))
    BY <1>0, <1>2, PoolKnown
  <2>3. QED
    BY <2>1, <2>2 DEF Holds
<1>7. QED
  BY <1>4, <1>5, <1>6

LEMMA Att1Makes ==
  ASSUME AttentionValues, Head(launches) = "att1", NEW p \in grid, NEW a, NEW x, ScoredAt(p, a, x)
  PROVE  Puts(Writes("att1", p), a, x)
<1> DEFINE g == infer_state.kv_group_num
<1>0. /\ GroupIs /\ InferOK(infer_state) /\ model \in {"llama", "llama2"} \X {"2.0.0", "2.1.0"}
  BY DEF AttentionValues, AttentionReady, AttentionInv
<1>1. PICK b \in Batches, h \in Heads : \E i \in 0 .. SeqLen(b) - 1 :
        p = <<b, h, i \div BLOCK_ATT1>> /\ a = <<"att", Start(b) + i, h>> /\ x = LastScore(b, h, i)
  BY DEF ScoredAt
<1>2. PICK i \in 0 .. SeqLen(b) - 1 :
        p = <<b, h, i \div BLOCK_ATT1>> /\ a = <<"att", Start(b) + i, h>> /\ x = LastScore(b, h, i)
  BY <1>1
<1>3. Writes("att1", p) = Att1Writes(p, g) /\ a \in DOMAIN Att1Writes(p, g)
  BY <1>0, <1>2, KernelsAre, Att1In
<1>4. a[2] - Start(b) = i /\ p[1] = b /\ p[2] = h
  <2>1. Start(b) \in Nat /\ SeqLen(b) \in Nat
    BY <1>0, StartsAre, LengthsAre
  <2>2. a[2] = Start(b) + i /\ p[1] = b /\ p[2] = h /\ i \in Nat
    BY <1>2, <2>1
  <2>3. QED
    BY <2>1, <2>2
<1>5. h \div g \in KvHeads
  BY <1>0, KvHead
<1>6. /\ Load(<<"q", b, h>>) = QueryRow(b, SeqLen(b) - 1, h)
      /\ Load(Pooled("k", BLoc(b, MaxLen - SeqLen(b) + i), h \div g)) = HeldRow("k", b, i, h \div g)
  BY <1>5, DecodeRows
<1>7. Score(QueryRow(b, SeqLen(b) - 1, h), HeldRow("k", b, i, h \div g)) = x
  BY <1>2, OwnScoreIs DEF LastScore, KvOf
<1> HIDE DEF g
<1> DEFINE key(n) == Pooled("k", BLoc(p[1], MaxLen - SeqLen(p[1]) + n), p[2] \div g)
           val(y) == Score(Load(<<"q", p[1], p[2]>>), Load(key(y[2] - Start(p[1]))))
<1>8. Att1Writes(p, g) = [y \in DOMAIN Att1Writes(p, g) |-> val(y)]
  BY DEF Att1Writes
<1>9. val(a) = x
  BY <1>4, <1>6, <1>7
<1> HIDE DEF key, val
<1>10. Att1Writes(p, g)[a] = x
  BY <1>3, <1>8, <1>9
<1>11. QED
  BY <1>3, <1>10 DEF Puts

(* The scores a decode sums up, once they are made.                        *)
LEMMA ScoresKnown ==
  ASSUME AttentionValues, Head(launches) \in {"softmax", "att2", "reducev"},
         NEW b \in Batches, NEW h \in Heads, NEW i \in 0 .. SeqLen(b) - 1
  PROVE  /\ Load(<<"att", Start(b) + i, h>>) = LastScore(b, h, i)
         /\ Head(launches) = "att2" => Load(<<"prob", Start(b) + i, h>>) = <<LastScore(b, h, i), LastNorm(b, h)>>
<1>0. AttentionReady /\ Known
  BY DEF AttentionValues
<1>1. Load(<<"att", Start(b) + i, h>>) = LastScore(b, h, i)
  <2> DEFINE p == <<b, h, i \div BLOCK_ATT1>>
             a == <<"att", Start(b) + i, h>>
             x == LastScore(b, h, i)
  <2>1. ScoredAt(p, a, x)
    BY DEF ScoredAt
  <2> HIDE DEF p, a, x
  <2>2. Promised("att1", p, a, x)
    BY <2>1 DEF Promised
  <2>3. Nth("att1") < Nth(Head(launches))
    BY Nths
  <2>4. "att1" \in Forward /\ Did("att1", p)
    BY <1>0, <2>3, LaunchOf, ReadyNames
  <2>5. Holds(a, x)
    BY <1>0, <2>2, <2>4 DEF Known
  <2>6. QED
    BY <2>5 DEF Holds, a, x
<1>2. ASSUME Head(launches) = "att2"
      PROVE  Load(<<"prob", Start(b) + i, h>>) = <<LastScore(b, h, i), LastNorm(b, h)>>
  <2> DEFINE p == <<b, h>>
             a == <<"prob", Start(b) + i, h>>
             x == <<LastScore(b, h, i), LastNorm(b, h)>>
  <2>1. WeighedAt(p, a, x)
    BY DEF WeighedAt
  <2> HIDE DEF p, a, x
  <2>2. Promised("softmax", p, a, x)
    BY <2>1 DEF Promised
  <2>3. Nth("softmax") < Nth(Head(launches))
    BY <1>2, Nths
  <2>4. "softmax" \in Forward /\ Did("softmax", p)
    BY <1>0, <1>2, <2>3, LaunchOf, ReadyNames
  <2>5. Holds(a, x)
    BY <1>0, <2>2, <2>4 DEF Known
  <2>6. QED
    BY <2>5 DEF Holds, a, x
<1>3. QED
  BY <1>1, <1>2

LEMMA LogicIs ==
  ASSUME AttentionValues, Head(launches) \in {"softmax", "reducev"},
         NEW b \in Batches, NEW h \in Heads, NEW j \in Nat
  PROVE  /\ j < SeqLen(b) => Logic(<<b, h>>, j) = LastScore(b, h, j)
         /\ ~(j < SeqLen(b)) => Logic(<<b, h>>, j) = NegInf
         /\ LastScore(b, h, j) # Junk /\ LastScore(b, h, j) # NegInf
<1>1. SeqLen(b) \in Nat
  BY LengthsAre DEF AttentionValues, AttentionReady, AttentionInv
<1>2. ASSUME j < SeqLen(b) PROVE Load(<<"att", Start(b) + j, h>>) = LastScore(b, h, j)
  <2>1. j \in 0 .. SeqLen(b) - 1
    BY <1>1, <1>2
  <2>2. QED
    BY <2>1, ScoresKnown
<1>3. Logic(<<b, h>>, j) = IF j < SeqLen(b) THEN Load(<<"att", Start(b) + j, h>>) ELSE NegInf
  BY DEF Logic
<1>4. QED
  BY <1>2, <1>3, OwnScoreIs DEF LastScore

LEMMA SoftmaxMakes ==
  ASSUME AttentionValues, Head(launches) = "softmax", NEW p \in grid, NEW a, NEW x, WeighedAt(p, a, x)
  PROVE  Puts(Writes("softmax", p), a, x)
<1>0. /\ GroupIs /\ InferOK(infer_state) /\ model \in {"llama", "llama2"} \X {"2.0.0", "2.1.0"}
  BY DEF AttentionValues, AttentionReady, AttentionInv
<1>1. PICK b \in Batches, h \in Heads : \E i \in 0 .. SeqLen(b) - 1 :
        p = <<b, h>> /\ a = <<"prob", Start(b) + i, h>> /\ x = <<LastScore(b, h, i), LastNorm(b, h)>>
  BY DEF WeighedAt
<1>2. PICK i \in 0 .. SeqLen(b) - 1 :
        p = <<b, h>> /\ a = <<"prob", Start(b) + i, h>> /\ x = <<LastScore(b, h, i), LastNorm(b, h)>>
  BY <1>1
<1>3. Writes("softmax", p) = SoftmaxWrites(p) /\ a \in DOMAIN SoftmaxWrites(p)
  BY <1>0, <1>2, KernelsAre, SoftmaxIn
<1> DEFINE n == 2 * MaxLen
           m == SeqLen(b)
           row == [c \in 1 .. n |-> Logic(p, c - 1)]
           norm == Finite(row)
<1>4. m \in Nat /\ MaxLen \in Nat /\ m <= MaxLen /\ n \in Nat /\ m \in 0 .. n /\ i \in Nat /\ i < m
  BY <1>0, LengthsAre
<1> HIDE DEF n, m
<1>5. ASSUME NEW c \in 1 .. n
      PROVE  /\ c <= m => row[c] = LastScore(b, h, c - 1) /\ row[c] # NegInf /\ row[c] # Junk
             /\ c > m => row[c] = NegInf
  <2>1. c - 1 \in Nat /\ row[c] = Logic(<<b, h>>, c - 1) /\ c \in Nat
    BY <1>2, <1>4
  <2>2. c <= m => c - 1 < m
    BY <1>4, <2>1
  <2>3. c > m => ~(c - 1 < m)
    BY <1>4, <2>1
  <2> HIDE DEF row
  <2>4. QED
    BY <2>1, <2>2, <2>3, LogicIs DEF m
<1>6. DOMAIN row = 1 .. n /\ Len(row) = n
  BY <1>4
<1> HIDE DEF row
<1>7. MaskedFrom(row, n, m)
  <2>1. \A c \in 1 .. m : c \in 1 .. n /\ c <= m
    BY <1>4
  <2>2. \A c \in m + 1 .. n : c \in 1 .. n /\ c > m
    BY <1>4
  <2>3. QED
    BY <1>5, <1>6, <2>1, <2>2 DEF MaskedFrom
<1>8. KeepFirst(row, m)
  BY <1>4, <1>7, WeighingIs
<1>9. norm = LastNorm(b, h)
  <2>1. \A c \in 1 .. m : row[c] = LastScore(b, h, c - 1)
    <3>1. \A c \in 1 .. m : c \in 1 .. n /\ c <= m
      BY <1>4
    <3>2. QED
      BY <1>5, <3>1
  <2>2. norm = [c \in 1 .. m |-> row[c]]
    BY <1>8 DEF KeepFirst
  <2>3. QED
    BY <2>1, <2>2 DEF LastNorm, m
<1> HIDE DEF norm
<1>10. Junk \notin {norm[c] : c \in DOMAIN norm}
  <2>1. DOMAIN norm = 1 .. m /\ \A c \in 1 .. m : norm[c] = LastScore(b, h, c - 1)
    BY <1>9 DEF LastNorm, m
  <2>2. \A c \in 1 .. m : LastScore(b, h, c - 1) # Junk
    BY OwnScoreIs DEF LastScore
  <2>3. QED
    BY <2>1, <2>2
<1>11. a[2] - Start(p[1]) + 1 = i + 1 /\ row[i + 1] = LastScore(b, h, i)
  <2>1. Start(b) \in Nat
    BY <1>0, StartsAre
  <2>2. a[2] = Start(b) + i /\ p[1] = b
    BY <1>2
  <2>3. a[2] - Start(p[1]) + 1 = i + 1
    BY <1>4, <2>1, <2>2
  <2>4. i + 1 \in 1 .. n /\ i + 1 <= m /\ (i + 1) - 1 = i
    BY <1>4
  <2>5. QED
    BY <1>5, <2>3, <2>4
<1> DEFINE val(y) == IF Junk \in {norm[c] : c \in DOMAIN norm} THEN Junk
                     ELSE <<row[y[2] - Start(p[1]) + 1], norm>>
<1>12. SoftmaxWrites(p) = [y \in DOMAIN SoftmaxWrites(p) |-> val(y)]
  BY DEF SoftmaxWrites, row, norm, n
<1>13. val(a) = x
  BY <1>2, <1>9, <1>10, <1>11
<1> HIDE DEF val
<1>14. SoftmaxWrites(p)[a] = x
  BY <1>3, <1>12, <1>13
<1>15. QED
  BY <1>3, <1>14 DEF Puts

LEMMA Att2Makes ==
  ASSUME AttentionValues, Head(launches) = "att2", NEW p \in grid, NEW a, NEW x, SummedAt(p, a, x)
  PROVE  Puts(Writes("att2", p), a, x)
<1> DEFINE g == infer_state.kv_group_num
<1>0. /\ GroupIs /\ model \in {"llama", "llama2"} \X {"2.0.0", "2.1.0"}
  BY DEF AttentionValues, AttentionReady, AttentionInv
<1>1. PICK b \in Batches, h \in Heads :
        p = <<b, h>> /\ a = <<"o", b, h>> /\ x = OwnRow(<<b, SeqLen(b) - 1>>, h)
  BY DEF SummedAt
<1>2. Writes("att2", p) = Att2Writes(p, g) /\ a \in DOMAIN Att2Writes(p, g)
  BY <1>0, <1>1, KernelsAre, SumsIn
<1>3. h \div g \in KvHeads
  BY <1>0, KvHead
<1>4. SeqLen(b) \in Nat \ {0}
  BY DecodeRows
<1> DEFINE G == h \div g
           m == SeqLen(b)
           term(n) ==
             LET y == Load(<<"prob", Start(b) + n, h>>)
                 v == Load(Pooled("v", BLoc(b, MaxLen - SeqLen(b) + n), G))
             IN  IF Junk \in {y, v} THEN NaN ELSE <<y[1], v, y[2]>>
<1>5. ASSUME NEW j \in 1 .. m
      PROVE  term(j - 1) = <<LastScore(b, h, j - 1), HeldRow("v", b, j - 1, G), LastNorm(b, h)>>
  <2> DEFINE k == j - 1
             y == Load(<<"prob", Start(b) + k, h>>)
             v == Load(Pooled("v", BLoc(b, MaxLen - SeqLen(b) + k), G))
  <2>1. k \in 0 .. SeqLen(b) - 1
    BY <1>4
  <2> HIDE DEF k
  <2>2. y = <<LastScore(b, h, k), LastNorm(b, h)>>
    BY <2>1, ScoresKnown
  <2>3. v = HeldRow("v", b, k, G)
    BY <1>3, <2>1, DecodeRows
  <2>4. Junk # y
    <3>1. \A s, t : Len(<<s, t>>) = 2 /\ Len(Junk) = 1
      BY DEF Junk
    <3>2. QED
      BY <2>2, <3>1
  <2>5. Junk # v
    BY <2>3, RowTags
  <2>6. term(k) = IF Junk \in {y, v} THEN NaN ELSE <<y[1], v, y[2]>>
    OBVIOUS
  <2> HIDE DEF y, v, term
  <2>7. term(k) = <<y[1], v, y[2]>>
    BY <2>4, <2>5, <2>6
  <2>8. y[1] = LastScore(b, h, k) /\ y[2] = LastNorm(b, h)
    BY <2>2
  <2>9. QED
    BY <2>3, <2>7, <2>8 DEF k
<1>6. Att2Writes(p, g)[a] = [j \in 1 .. m |-> term(j - 1)]
  BY <1>1, Zenon DEF Att2Writes
<1> HIDE DEF term
<1>7. x = [j \in 1 .. m |-> <<LastScore(b, h, j - 1), HeldRow("v", b, j - 1, G), LastNorm(b, h)>>]
  <2> DEFINE t == <<b, SeqLen(b) - 1>>
             norm == [j \in 1 .. t[2] + 1 |-> OwnScore(t, h, j - 1)]
  <2>1. t[1] = b /\ t[2] = m - 1 /\ (m - 1) + 1 = m
    BY <1>4
  <2>2. x = [j \in 1 .. t[2] + 1 |-> <<norm[j], <<"v", t[1], j - 1, G, <<>>>>, norm>>]
    BY <1>1 DEF OwnRow
  <2>3. \A j : OwnScore(t, h, j - 1) = LastScore(b, h, j - 1)
    BY DEF LastScore
  <2> HIDE DEF t
  <2>4. norm = LastNorm(b, h)
    BY <2>1, <2>3 DEF LastNorm
  <2>5. \A j \in 1 .. m : norm[j] = LastScore(b, h, j - 1)
    BY <2>1, <2>3
  <2>6. \A j : HeldRow("v", b, j - 1, G) = <<"v", t[1], j - 1, G, <<>>>>
    BY <2>1 DEF HeldRow
  <2> HIDE DEF norm, m, G
  <2>7. QED
    BY <2>1, <2>2, <2>4, <2>5, <2>6
<1> HIDE DEF G, m
<1>8. Att2Writes(p, g)[a] = x
  BY <1>5, <1>6, <1>7
<1>9. QED
  BY <1>2, <1>8 DEF Puts

(* The blocks of a decode end past its tokens, and read there the row of   *)
(* another one.                                                            *)
LEMMA BlocksCover ==
  ASSUME NEW block \in Nat \ {0}, NEW n \in Nat \ {0}
  PROVE  /\ CDiv(n, block) \in Nat \ {0} /\ (CDiv(n, block) - 1) * block < n
         /\ n <= CDiv(n, block) * block /\ CDiv(n, block) * block \in Nat
<1> DEFINE y == n + block - 1
           q == y \div block
           s == y % block
<1>1. y \in Nat
  OBVIOUS
<1>2. q \in Nat /\ s \in Nat /\ s < block /\ q * block + s = y
  BY <1>1, DivModOf
<1>3. CDiv(n, block) = q
  BY DEF CDiv
<1> HIDE DEF q, s
<1>4. q * block \in Nat
  BY <1>2, ProductNat
<1>5. q # 0
  BY <1>2, <1>4
<1>6. q - 1 \in Nat
  BY <1>2, <1>5
<1>7. (q - 1) * block \in Nat /\ (q - 1) * block + block = q * block
  BY <1>2, <1>6, ProductNat
<1>8. QED
  BY <1>2, <1>3, <1>4, <1>5, <1>7

LEMMA OtherKnown ==
  ASSUME AttentionValues, Head(launches) = "reducev", NEW h \in KvHeads
  PROVE  Load(Pooled("v", infer_state.other_kv_index, h)) # Junk
<1>0. /\ AttentionReady /\ InferServes(infer_state) /\ InferOK(infer_state)
  BY DEF AttentionValues, AttentionReady, AttentionInv
<1>1. ~infer_state.is_prefill
  BY <1>0, LaunchOf
<1>2. 0 \in 0 .. infer_state.rows - 1
  BY <1>0, <1>1 DEF InferOK
<1>3. TokenRow(infer_state, 0)
  BY <1>0, <1>2 DEF InferServes
<1> DEFINE b == infer_state.token[0][1]
           j == infer_state.token[0][2]
<1>4. b \in Batches /\ j \in 0 .. SeqLen(b) - 1 /\ PlaceOf(infer_state, b, j) = infer_state.mem_index[0]
  BY <1>3 DEF TokenRow, Batches, SeqLen
<1> HIDE DEF b, j
<1>5. infer_state.other_kv_index = PlaceOf(infer_state, b, j)
  BY <1>0, <1>1, <1>4 DEF InferServes
<1>6. Load(Pooled("v", PlaceOf(infer_state, b, j), h)) = HeldRow("v", b, j, h)
  BY <1>4, DecodeRows
<1>7. QED
  BY <1>5, <1>6, RowTags

LEMMA ReducevMakes ==
  ASSUME AttentionValues, Head(launches) = "reducev", NEW p \in grid, NEW a, NEW x, SummedAt(p, a, x)
  PROVE  Puts(Writes("reducev", p), a, x)
<1> DEFINE g == infer_state.kv_group_num
<1>0. /\ GroupIs /\ model \in {"llama", "llama2"} \X {"2.0.0", "2.1.0"}
  BY DEF AttentionValues, AttentionReady, AttentionInv
<1>1. PICK b \in Batches, h \in Heads :
        p = <<b, h>> /\ a = <<"o", b, h>> /\ x = OwnRow(<<b, SeqLen(b) - 1>>, h)
  BY DEF SummedAt
<1>2. Writes("reducev", p) = ReducevWrites(p, g) /\ a \in DOMAIN ReducevWrites(p, g)
  BY <1>0, <1>1, KernelsAre, SumsIn
<1>3. h \div g \in KvHeads
  BY <1>0, KvHead
<1> DEFINE G == h \div g
           m == SeqLen(b)
           blocks == CDiv(m, BLOCK_REDUCEV)
           n == blocks * BLOCK_REDUCEV
           columns == 0 .. n - 1
           index(j) == IF j < SeqLen(b) THEN BLoc(b, MaxLen - SeqLen(b) + j) ELSE infer_state.other_kv_index
           score == [j \in columns |-> Logic(<<b, h>>, j)]
           value == [j \in columns |-> Load(Pooled("v", index(j), G))]
<1>4. m \in Nat \ {0} /\ BLOCK_REDUCEV \in Nat \ {0}
  BY DecodeRows, BlockAssumption DEF BlockAssumption
<1>5. blocks \in Nat \ {0} /\ (blocks - 1) * BLOCK_REDUCEV < m /\ m <= n /\ n \in Nat
  BY <1>4, BlocksCover
<1>6. ReducevWrites(p, g)[a] = OverBlocks(blocks, BLOCK_REDUCEV, score, value)
  BY <1>1, Zenon DEF ReducevWrites
<1> HIDE DEF blocks, n
<1>7. ASSUME NEW j \in columns
      PROVE  /\ j < m => /\ score[j] = OwnScore(<<b, m - 1>>, h, j) /\ value[j] = HeldRow("v", b, j, G)
                         /\ score[j] # NegInf
             /\ ~(j < m) => score[j] = NegInf
             /\ score[j] # Junk /\ value[j] # Junk
  <2>1. j \in Nat
    BY <1>5
  <2>2. score[j] = Logic(<<b, h>>, j) /\ value[j] = Load(Pooled("v", index(j), G))
    OBVIOUS
  <2>3. CASE j < m
    <3>1. j \in 0 .. SeqLen(b) - 1 /\ index(j) = BLoc(b, MaxLen - SeqLen(b) + j)
      BY <1>4, <2>1, <2>3
    <3> HIDE DEF score, value, index
    <3>2. value[j] = HeldRow("v", b, j, G)
      BY <1>3, <2>2, <3>1, DecodeRows
    <3>3. score[j] = LastScore(b, h, j) /\ score[j] # NegInf /\ score[j] # Junk
      BY <2>1, <2>2, <2>3, LogicIs
    <3>4. QED
      BY <2>3, <3>2, <3>3, RowTags DEF LastScore
  <2>4. CASE ~(j < m)
    <3>1. index(j) = infer_state.other_kv_index
      BY <2>4
    <3> HIDE DEF score, value, index
    <3>2. value[j] # Junk
      BY <1>3, <2>2, <3>1, OtherKnown
    <3>3. score[j] = NegInf
      BY <2>1, <2>2, <2>4, LogicIs
    <3>4. QED
      BY <2>4, <3>2, <3>3, RowTags
  <2>5. QED
    BY <2>3, <2>4
<1> HIDE DEF score, value, index, m, G
<1>8. Weighted(score, value, n, m)
  <2>1. \A j \in 0 .. m - 1 : j \in columns /\ j < m
    BY <1>4, <1>5
  <2>2. \A j \in m .. n - 1 : j \in columns /\ ~(j < m)
    BY <1>4, <1>5
  <2> HIDE DEF columns
  <2>3. \A j \in 0 .. n - 1 : score[j] # Junk /\ value[j] # Junk
    BY <1>7 DEF columns
  <2>4. QED
    BY <1>7, <2>1, <2>2, <2>3 DEF Weighted
<1>9. OwnTermsOf(score, value, b, m - 1, h)
  <2>1. \A j \in 0 .. m - 1 : j \in columns /\ j < m
    BY <1>4, <1>5
  <2>2. QED
    BY <1>7, <2>1 DEF OwnTermsOf, KvOf, G
<1>10. SoftmaxOf(OverBlocks(blocks, BLOCK_REDUCEV, score, value), score, value, m)
  <2>1. m <= blocks * BLOCK_REDUCEV /\ Weighted(score, value, blocks * BLOCK_REDUCEV, m) /\ m \in Nat
    BY <1>4, <1>5, <1>8 DEF n
  <2>2. QED
    BY ONLY <1>4, <1>5, <2>1, BlocksAre
<1>11. OverBlocks(blocks, BLOCK_REDUCEV, score, value) = OwnRow(<<b, m - 1>>, h)
  <2>1. m - 1 \in Nat /\ (m - 1) + 1 = m
    BY <1>4
  <2>2. SoftmaxOf(OverBlocks(blocks, BLOCK_REDUCEV, score, value), score, value, (m - 1) + 1)
    BY <1>10, <2>1
  <2>3. QED
    BY <1>9, <2>1, <2>2, OwnFrom
<1>12. ReducevWrites(p, g)[a] = x
  BY <1>1, <1>6, <1>11 DEF m
<1>13. QED
  BY <1>2, <1>12 DEF Puts

(* Every program makes what it promised.                                   *)
LEMMA Makes ==
  ASSUME AttentionValues, NEW name, name = Head(launches), NEW p \in grid, NEW a, NEW x,
         Promised(name, p, a, x)
  PROVE  Puts(Writes(name, p), a, x)
<1>0. InferOK(infer_state) /\ grid \subseteq Grid(name)
  BY DEF AttentionValues, AttentionReady, AttentionInv
<1>1. CASE name = "mm_v" /\ RawAt("v", p, a, x)
  <2>1. PICK i \in RowsOf, h \in HeadsOf("v") : a = RowAt("v", i, h) /\ x = RawRow("v", i, h)
    BY <1>1 DEF RawAt
  <2>2. Puts(MmWrites("v"), a, x)
    BY <1>0, <2>1, MmIs
  <2>3. QED
    BY <1>1, <2>2 DEF Writes
<1>2. CASE name = "rotary_q" /\ TurnedAt("q", p, a, x)
  <2>1. RotaryName("q") = name
    BY <1>2 DEF RotaryName
  <2>2. Puts(RotaryWrites(p, "q", HEADS), a, x)
    BY <1>0, <1>2, <2>1, HeadsAre, RotaryMakes
  <2>3. QED
    BY <1>2, <2>2 DEF Writes
<1>3. CASE name = "rotary_k" /\ TurnedAt("k", p, a, x)
  <2> DEFINE heads == HEADS \div infer_state.kv_group_num
  <2>1. RotaryName("k") = name /\ heads \in Int /\ HeadsOf("k") = 0 .. heads - 1
    BY <1>0, <1>3, HeadsAre DEF RotaryName
  <2>2. Writes(name, p) = RotaryWrites(p, "k", heads)
    BY <1>3 DEF Writes
  <2> HIDE DEF heads
  <2>3. Puts(RotaryWrites(p, "k", heads), a, x)
    BY <1>3, <2>1, RotaryMakes
  <2>4. QED
    BY <2>2, <2>3
<1>4. CASE name = "copy_k" /\ CopiedAt("k", p, a, x)
  <2>1. Puts(CopyWrites(p, "k"), a, x)
    BY <1>4, CopyMakes
  <2>2. QED
    BY <1>4, <2>1 DEF Writes
<1>5. CASE name = "copy_v" /\ CopiedAt("v", p, a, x)
  <2>1. Puts(CopyWrites(p, "v"), a, x)
    BY <1>5, CopyMakes
  <2>2. QED
    BY <1>5, <2>1 DEF Writes
<1>6. CASE name = "context" /\ ContextAt(p, a, x)
  BY <1>6, FlashMakes
<1>7. CASE name = "att1" /\ ScoredAt(p, a, x)
  BY <1>7, Att1Makes
<1>8. CASE name = "softmax" /\ WeighedAt(p, a, x)
  BY <1>8, SoftmaxMakes
<1>9. CASE name = "att2" /\ SummedAt(p, a, x)
  BY <1>9, Att2Makes
<1>10. CASE name = "reducev" /\ SummedAt(p, a, x)
  BY <1>10, ReducevMakes
<1>11. QED
  BY <1>1, <1>2, <1>3, <1>4, <1>5, <1>6, <1>7, <1>8, <1>9, <1>10 DEF Promised

(* Nothing about the forward changes between its launches.                 *)
LEMMA SameForward ==
  ASSUME infer_state' = infer_state, model' = model, cells' = cells
  PROVE  /\ \A name, p, a, x : Promised(name, p, a, x)' <=> Promised(name, p, a, x)
         /\ \A w, i, h : RowAt(w, i, h)' = RowAt(w, i, h) /\ RawRow(w, i, h)' = RawRow(w, i, h)
         /\ RowsOf' = RowsOf /\ \A w : HeadsOf(w)' = HeadsOf(w)
         /\ Forward' = Forward
         /\ \A name : Grid(name)' = Grid(name)
         /\ InferServes(infer_state)' <=> InferServes(infer_state)
         /\ CellsApart(infer_state, cells)' <=> CellsApart(infer_state, cells)
         /\ GroupIs' <=> GroupIs
<1>1. /\ RowsOf' = RowsOf /\ \A w : HeadsOf(w)' = HeadsOf(w)
      /\ \A w, i, h : RowAt(w, i, h)' = RowAt(w, i, h) /\ RawRow(w, i, h)' = RawRow(w, i, h)
      /\ \A w, i, h : TurnedRow(w, i, h)' = TurnedRow(w, i, h)
  BY DEF RowsOf, HeadsOf, Heads, KvHeads, RowAt, Cached, RawRow, TurnedRow, TokenOf
<1>2. /\ \A t, h : OwnRow(t, h)' = OwnRow(t, h)
      /\ \A b, h, n : LastScore(b, h, n)' = LastScore(b, h, n)
      /\ \A b, h : LastNorm(b, h)' = LastNorm(b, h)
  BY DEF OwnRow, OwnScore, LastScore, LastNorm, SeqLen
<1>3. /\ Batches' = Batches /\ KvHeads' = KvHeads
      /\ \A b : SeqLen(b)' = SeqLen(b) /\ Start(b)' = Start(b)
      /\ \A i : TokenOf(i)' = TokenOf(i)
  BY DEF Batches, KvHeads, SeqLen, Start, TokenOf
<1>4. /\ \A w, p, a, x : /\ RawAt(w, p, a, x)' <=> RawAt(w, p, a, x)
                         /\ TurnedAt(w, p, a, x)' <=> TurnedAt(w, p, a, x)
  BY <1>1 DEF RawAt, TurnedAt, TileAt
<1>5. \A w, p, a, x : CopiedAt(w, p, a, x)' <=> CopiedAt(w, p, a, x)
  BY <1>1, <1>3 DEF CopiedAt, HeldRow, Pooled
<1>6. \A p, a, x : ContextAt(p, a, x)' <=> ContextAt(p, a, x)
  BY <1>2, <1>3 DEF ContextAt, Heads
<1>7. \A p, a, x : ScoredAt(p, a, x)' <=> ScoredAt(p, a, x)
  BY <1>2, <1>3 DEF ScoredAt, Heads
<1>8. \A p, a, x : WeighedAt(p, a, x)' <=> WeighedAt(p, a, x)
  BY <1>2, <1>3 DEF WeighedAt, Heads
<1>9. \A p, a, x : SummedAt(p, a, x)' <=> SummedAt(p, a, x)
  BY <1>2, <1>3 DEF SummedAt, Heads
<1>10. \A name, p, a, x : Promised(name, p, a, x)' <=> Promised(name, p, a, x)
  BY <1>4, <1>5, <1>6, <1>7, <1>8, <1>9 DEF Promised
<1>11. Forward' = Forward
  BY DEF Forward, ForwardOf, CopiesOf, ScoringOf
<1>12. \A name : Grid(name)' = Grid(name)
  BY DEF Grid, RotaryGrid, CopyGrid, ContextGrid, Att1Grid, TokenGrid, Batches, Heads, MaxLen
<1>13. InferServes(infer_state)' <=> InferServes(infer_state)
  BY DEF InferServes, TokenRow, PlacedRow, PlaceOf, GivenCells
<1>14. CellsApart(infer_state, cells)' <=> CellsApart(infer_state, cells)
  BY DEF CellsApart, PlaceOf
<1>15. GroupIs' <=> GroupIs
  BY DEF GroupIs
<1>16. QED
  BY <1>1, <1>10, <1>11, <1>12, <1>13, <1>14, <1>15

(* A store of a program and a promise of another launch or program.        *)
LEMMA PromiseStays ==
  ASSUME AttentionValues, NEW name \in Forward, NEW q, NEW a, NEW x, Promised(name, q, a, x),
         Did(name, q), NEW p \in grid
  PROVE  a \notin DOMAIN Writes(Head(launches), p)
<1> DEFINE head == Head(launches)
<1>0. /\ AttentionReady /\ AttentionInv /\ InferServes(infer_state) /\ GroupIs
      /\ model \in {"llama", "llama2"} \X {"2.0.0", "2.1.0"} /\ infer_state.is_prefill \in BOOLEAN
      /\ grid \subseteq Grid(head)
  BY DEF AttentionValues, AttentionReady, AttentionInv
<1>1. q \in Grid(name) /\ a \in DOMAIN Writes(name, q)
  BY <1>0, PromisedIn
<1>2. /\ head \in Forward /\ head \in NamesOf(infer_state.is_prefill)
      /\ name \in NamesOf(infer_state.is_prefill)
  BY <1>0, ReadyNames, ForwardNames
<1>3. Nth(name) < Nth(head) \/ (name = head /\ q \notin grid)
  BY <1>0, ReadyNames
<1> HIDE DEF head
<1>4. CASE name = head
  <2>1. q # p /\ p \in Grid(name)
    <3>1. Nth(name) \in Int
      BY <1>0, ForwardNames
    <3>2. q \notin grid
      BY <1>3, <1>4, <3>1
    <3>3. QED
      BY <1>0, <1>4, <3>2
  <2>2. DOMAIN Writes(name, q) \cap DOMAIN Writes(name, p) = {}
    BY <1>0, <1>1, <1>2, <2>1, WritesApart
  <2>3. QED
    BY <1>1, <1>4, <2>2 DEF head
<1>5. CASE name # head
  <2>1. name # "mm_q" /\ name # "mm_k"
    BY DEF Promised
  <2>2. SUFFICES ASSUME a \in DOMAIN Writes(head, p) PROVE FALSE
    BY DEF head
  <2>3. a[1] \in TensorsOf(name) /\ a[1] \in TensorsOf(head)
    <3>1. name \in NamesOf(TRUE) \cup NamesOf(FALSE) /\ head \in NamesOf(TRUE) \cup NamesOf(FALSE)
      BY <1>0, <1>2
    <3>2. QED
      BY <1>0, <1>1, <2>2, <3>1, StoresIn
  <2>4. {name, head} = {"mm_q", "rotary_q"} \/ {name, head} = {"mm_k", "rotary_k"}
    BY <1>2, <1>5, <2>3, TensorsApart
  <2>5. (name = "rotary_q" /\ head = "mm_q") \/ (name = "rotary_k" /\ head = "mm_k")
    BY <2>1, <2>4
  <2>6. ~(Nth(name) < Nth(head))
    BY <2>5, Nths
  <2>7. QED
    BY <1>3, <1>5, <2>6
<1>6. QED
  BY <1>4, <1>5

LEMMA RawStays ==
  ASSUME AttentionValues, NEW w \in {"q", "k"}, NEW i \in RowsOf, NEW h \in HeadsOf(w),
         Head(launches) # MmName(w), NEW p \in grid,
         Head(launches) = RotaryName(w) => p # TileAt(i, h)
  PROVE  RowAt(w, i, h) \notin DOMAIN Writes(Head(launches), p)
<1> DEFINE head == Head(launches)
           a == RowAt(w, i, h)
<1>0. /\ AttentionReady /\ AttentionInv /\ InferServes(infer_state) /\ InferOK(infer_state) /\ GroupIs
      /\ model \in {"llama", "llama2"} \X {"2.0.0", "2.1.0"} /\ infer_state.is_prefill \in BOOLEAN
      /\ grid \subseteq Grid(head)
  BY DEF AttentionValues, AttentionReady, AttentionInv
<1>1. /\ head \in Forward /\ head \in NamesOf(infer_state.is_prefill) /\ MmName(w) \in Forward
      /\ Forward \subseteq NamesOf(infer_state.is_prefill)
  <2>1. MmName(w) \in {"mm_q", "mm_k"}
    BY DEF MmName
  <2>2. QED
    BY <1>0, <2>1, ReadyNames, ForwardNames
<1>2. SUFFICES ASSUME a \in DOMAIN Writes(head, p) PROVE FALSE
  OBVIOUS
<1>3. CASE head = RotaryName(w)
  <2>1. TurnedAt(w, TileAt(i, h), a, TurnedRow(w, i, h))
    BY DEF TurnedAt
  <2> DEFINE q == TileAt(i, h)
             x == TurnedRow(w, i, h)
  <2> HIDE DEF a, q, x
  <2>2. Promised(head, q, a, x)
    <3>1. (w = "q" /\ head = "rotary_q") \/ (w = "k" /\ head = "rotary_k")
      BY <1>3 DEF RotaryName
    <3>2. QED
      BY <2>1, <3>1 DEF Promised, q, x
  <2>3. q \in Grid(head) /\ a \in DOMAIN Writes(head, q)
    BY <1>0, <2>2, PromisedIn
  <2>4. p \in Grid(head) /\ p # q
    BY <1>0, <1>3 DEF q
  <2>5. DOMAIN Writes(head, q) \cap DOMAIN Writes(head, p) = {}
    BY <1>0, <1>1, <2>3, <2>4, WritesApart
  <2>6. QED
    BY <1>2, <2>3, <2>5
<1>4. CASE head # RotaryName(w)
  <2>1. Puts(MmWrites(w), a, RawRow(w, i, h))
    BY <1>0, MmIs
  <2>2. Writes(MmName(w), <<0>>) = MmWrites(w)
    BY DEF Writes, MmName
  <2>3. a \in DOMAIN Writes(MmName(w), <<0>>)
    BY <2>1, <2>2 DEF Puts
  <2> HIDE DEF a, head
  <2>4. a[1] \in TensorsOf(MmName(w)) /\ a[1] \in TensorsOf(head)
    <3>1. MmName(w) \in NamesOf(TRUE) \cup NamesOf(FALSE) /\ head \in NamesOf(TRUE) \cup NamesOf(FALSE)
      BY <1>0, <1>1
    <3>2. QED
      BY <1>0, <1>2, <2>3, <3>1, StoresIn
  <2>5. head # MmName(w)
    BY DEF head
  <2>6. {MmName(w), head} = {"mm_q", "rotary_q"} \/ {MmName(w), head} = {"mm_k", "rotary_k"}
    BY <1>1, <2>4, <2>5, TensorsApart
  <2>7. QED
    BY <1>4, <2>5, <2>6 DEF MmName, RotaryName
<1>5. QED
  BY <1>3, <1>4

LEMMA HeldStays ==
  ASSUME AttentionValues, NEW w \in {"k", "v"}, NEW b \in Batches, NEW h, NEW j \in 0 .. SeqLen(b) - 1,
         ~infer_state.is_prefill, j < SeqLen(b) - 1, NEW p \in grid
  PROVE  Pooled(w, PlaceOf(infer_state, b, j), h) \notin DOMAIN Writes(Head(launches), p)
<1>0. /\ AttentionReady /\ AttentionInv /\ InferServes(infer_state)
      /\ grid \subseteq Grid(Head(launches))
  BY DEF AttentionValues, AttentionReady, AttentionInv
<1>1. PlaceOf(infer_state, b, j) \notin GivenCells(infer_state)
  <2>1. PlacedRow(infer_state, b)
    BY <1>0 DEF InferServes, Batches
  <2>2. QED
    BY <2>1 DEF PlacedRow, SeqLen
<1> DEFINE c == PlaceOf(infer_state, b, j)
           a == Pooled(w, c, h)
<1>2. Head(launches) \in NamesOf(infer_state.is_prefill)
  BY <1>0, ReadyNames
<1>3. DOMAIN Writes(Head(launches), p) \subseteq Allocated
  BY <1>0, <1>2, WritesApart
<1>4. a[1] \in {"key_buffer", "value_buffer"} /\ a[2] = c
  BY DEF Pooled
<1> HIDE DEF a, c
<1>5. a \notin Allocated
  BY <1>1, <1>4 DEF Allocated, GivenCells, c
<1>6. QED
  BY <1>3, <1>5 DEF a, c

(* The program runs: its promises hold, and what held stays.               *)
LEMMA RunsOn ==
  ASSUME AttentionValues, NEW p \in grid, RunProgram(p)
  PROVE  /\ infer_state' = infer_state /\ model' = model /\ cells' = cells /\ launches' = launches
         /\ \A a : a \in DOMAIN Writes(Head(launches), p) => Load(a)' = Writes(Head(launches), p)[a]
         /\ \A a : a \notin DOMAIN Writes(Head(launches), p) => Load(a)' = Load(a)
         /\ \A name, q : Did(name, q)' <=> Did(name, q) \/ (name = Head(launches) /\ q = p)
<1> DEFINE S == Writes(Head(launches), p)
<1>1. /\ infer_state' = infer_state /\ model' = model /\ cells' = cells /\ launches' = launches
      /\ grid' = grid \ {p}
  BY DEF RunProgram, Run, layerVars
<1>2. memory' = [a \in DOMAIN S \cup DOMAIN memory |-> IF a \in DOMAIN S THEN S[a] ELSE memory[a]]
  BY DEF RunProgram, Run
<1> HIDE DEF S
<1>3. \A a : Load(a)' = IF a \in DOMAIN S THEN S[a] ELSE Load(a)
  BY <1>2 DEF Load, Junk
<1>4. \A name, q : Did(name, q)' <=> Did(name, q) \/ (name = Head(launches) /\ q = p)
  <2>1. Head(launches) \in NamesIn(launches)
    BY ReadyNames DEF AttentionValues
  <2>2. \A name, q : Did(name, q)' <=> name \notin NamesIn(launches) \/ (name = Head(launches) /\ q \notin grid')
    BY <1>1 DEF Did, NamesIn
  <2>3. QED
    BY <1>1, <2>1, <2>2 DEF Did
<1>5. QED
  BY <1>1, <1>3, <1>4 DEF S

LEMMA RunKeeps ==
  ASSUME AttentionValues, NEW p \in grid, RunProgram(p)
  PROVE  Known' /\ RawKnown' /\ HeldKnown'
<1> DEFINE head == Head(launches)
           S == Writes(head, p)
<1>0. /\ AttentionReady /\ AttentionInv /\ InferServes(infer_state) /\ Known /\ RawKnown /\ HeldKnown
      /\ InferOK(infer_state) /\ grid \subseteq Grid(head)
  BY DEF AttentionValues, AttentionReady, AttentionInv
<1>1. /\ infer_state' = infer_state /\ model' = model /\ cells' = cells /\ launches' = launches
      /\ \A a : a \in DOMAIN S => Load(a)' = S[a]
      /\ \A a : a \notin DOMAIN S => Load(a)' = Load(a)
      /\ \A name, q : Did(name, q)' <=> Did(name, q) \/ (name = head /\ q = p)
  BY RunsOn
<1>2. /\ \A name, q, a, x : Promised(name, q, a, x)' <=> Promised(name, q, a, x)
      /\ \A w, i, h : RowAt(w, i, h)' = RowAt(w, i, h) /\ RawRow(w, i, h)' = RawRow(w, i, h)
      /\ RowsOf' = RowsOf /\ \A w : HeadsOf(w)' = HeadsOf(w)
      /\ Forward' = Forward
  BY <1>1, SameForward
<1> HIDE DEF head, S
<1>3. Known'
  <2>1. SUFFICES ASSUME NEW name \in Forward, NEW q, NEW a, NEW x,
                        Promised(name, q, a, x), Did(name, q)'
                 PROVE  Load(a)' = x
    BY <1>2 DEF Known, Holds
  <2>2. CASE name = head /\ q = p
    <3>1. Puts(S, a, x)
      BY <2>1, <2>2, Makes DEF S, head
    <3>2. QED
      BY <1>1, <3>1 DEF Puts
  <2>3. CASE ~(name = head /\ q = p)
    <3>1. Did(name, q)
      BY <1>1, <2>1, <2>3
    <3>2. Load(a) = x
      BY <1>0, <2>1, <3>1 DEF Known, Holds
    <3>3. a \notin DOMAIN S
      BY <2>1, <3>1, PromiseStays DEF S, head
    <3>4. QED
      BY <1>1, <3>2, <3>3
  <2>4. QED
    BY <2>2, <2>3
<1>4. RawKnown'
  <2>1. SUFFICES ASSUME NEW w \in {"q", "k"}, NEW i \in RowsOf, NEW h \in HeadsOf(w),
                        Did(MmName(w), << 0 >>)', ~Did(RotaryName(w), TileAt(i, h))'
                 PROVE  Load(RowAt(w, i, h))' = RawRow(w, i, h)
    <3>1. \A n, y : MmName(n)' = MmName(n) /\ RotaryName(n)' = RotaryName(n) /\ TileAt(n, y)' = TileAt(n, y)
      BY DEF MmName, RotaryName, TileAt
    <3>2. \A w, i, h : Load(RowAt(w, i, h))' = RawRow(w, i, h) => Holds(RowAt(w, i, h), RawRow(w, i, h))'
      BY <1>2 DEF Holds
    <3>3. QED
      BY <1>2, <2>1, <3>1, <3>2 DEF RawKnown
  <2>2. ~Did(RotaryName(w), TileAt(i, h)) /\ ~(RotaryName(w) = head /\ TileAt(i, h) = p)
    BY <1>1, <2>1
  <2>3. CASE head = MmName(w)
    <3>1. p = <<0>>
      <4>1. Grid(head) = {<<0>>}
        BY <2>3 DEF Grid, MmName
      <4>2. QED
        BY <1>0, <4>1
    <3>2. Puts(MmWrites(w), RowAt(w, i, h), RawRow(w, i, h))
      BY <1>0, MmIs
    <3>3. S = MmWrites(w)
      BY <2>3 DEF S, Writes, MmName
    <3>4. \A y : y = RowAt(w, i, h) => Load(RowAt(w, i, h))' = Load(y)'
      BY <1>2
    <3>5. QED
      BY <1>1, <3>2, <3>3, <3>4 DEF Puts
  <2>4. CASE head # MmName(w)
    <3>1. Did(MmName(w), << 0 >>)
      BY <1>1, <2>1, <2>4
    <3>2. Load(RowAt(w, i, h)) = RawRow(w, i, h)
      BY <1>0, <2>2, <3>1 DEF RawKnown, Holds
    <3>3. RowAt(w, i, h) \notin DOMAIN S
      BY <2>2, <2>4, RawStays DEF S, head
    <3>4. \A y : y = RowAt(w, i, h) => Load(RowAt(w, i, h))' = Load(y)'
      BY <1>2
    <3>5. QED
      BY <1>1, <3>2, <3>3, <3>4
  <2>5. QED
    BY <2>3, <2>4
<1>5. HeldKnown'
  <2>1. SUFFICES ASSUME ~infer_state.is_prefill, NEW w \in {"k", "v"}, NEW b \in Batches, NEW h \in KvHeads,
                        NEW j \in 0 .. SeqLen(b) - 1, j < SeqLen(b) - 1
                 PROVE  Load(Pooled(w, PlaceOf(infer_state, b, j), h))' = HeldRow(w, b, j, h)
    BY <1>1 DEF HeldKnown, Holds, Batches, KvHeads, SeqLen, PlaceOf, Pooled, HeldRow
  <2>2. Load(Pooled(w, PlaceOf(infer_state, b, j), h)) = HeldRow(w, b, j, h)
    BY <1>0, <2>1 DEF HeldKnown, Holds
  <2>3. Pooled(w, PlaceOf(infer_state, b, j), h) \notin DOMAIN S
    BY <2>1, HeldStays DEF S, head
  <2>4. ASSUME NEW a, a = Pooled(w, PlaceOf(infer_state, b, j), h)
        PROVE  Load(Pooled(w, PlaceOf(infer_state, b, j), h))' = Load(a)'
    BY <1>1, <2>4 DEF Pooled, PlaceOf
  <2>5. QED
    BY <1>1, <2>2, <2>3, <2>4
<1>6. QED
  BY <1>3, <1>4, <1>5

(* The next launch begins with the one before it over.                     *)
LEMMA LaunchKeeps ==
  ASSUME AttentionValues, NextLaunch
  PROVE  Known' /\ RawKnown' /\ HeldKnown'
<1> DEFINE next == launches[2]
<1>0. /\ AttentionReady /\ AttentionInv /\ InferServes(infer_state) /\ GroupIs
      /\ Known /\ RawKnown /\ HeldKnown /\ launches \in Seq(Forward) /\ Climbs(launches, 1, 10)
  BY DEF AttentionValues, AttentionReady
<1>1. /\ infer_state' = infer_state /\ model' = model /\ cells' = cells /\ memory' = memory
      /\ grid = {} /\ Len(launches) > 1 /\ launches' = Tail(launches) /\ grid' = Grid(next)
  BY DEF NextLaunch, Launch, layerVars
<1>2. \A name \in Forward : Nth(name) \in Nat
  BY <1>0, ForwardNames
<1>3. /\ Head(Tail(launches)) = next
      /\ \A name : name \in NamesIn(Tail(launches)) <=> name \in NamesIn(launches) /\ name # Head(launches)
  <2> DEFINE F == Forward
  <2>1. launches \in Seq(F) /\ \A name \in F : Nth(name) \in Nat
    BY <1>0, <1>2
  <2> HIDE DEF F
  <2>2. QED
    BY <1>0, <1>1, <2>1, TailClimbs
<1> HIDE DEF next
<1>4. ASSUME NEW name, NEW q PROVE Did(name, q)' => Did(name, q) \/ q \notin Grid(name)
  <2>1. Did(name, q)' <=> name \notin NamesIn(Tail(launches)) \/ (name = Head(Tail(launches)) /\ q \notin Grid(next))
    BY <1>1 DEF Did, NamesIn
  <2>2. QED
    BY <1>1, <1>3, <2>1 DEF Did
<1>5. ASSUME NEW name, NEW q, Did(name, q) PROVE Did(name, q)'
  <2>1. Did(name, q)' <=> name \notin NamesIn(Tail(launches)) \/ (name = Head(Tail(launches)) /\ q \notin Grid(next))
    BY <1>1 DEF Did, NamesIn
  <2>2. QED
    BY <1>1, <1>3, <1>5, <2>1 DEF Did
<1>6. \A a : Load(a)' = Load(a)
  BY <1>1 DEF Load, Junk
<1>7. /\ \A name, q, a, x : Promised(name, q, a, x)' <=> Promised(name, q, a, x)
      /\ \A w, i, h : RowAt(w, i, h)' = RowAt(w, i, h) /\ RawRow(w, i, h)' = RawRow(w, i, h)
      /\ RowsOf' = RowsOf /\ \A w : HeadsOf(w)' = HeadsOf(w)
      /\ Forward' = Forward
  BY <1>1, SameForward
<1>8. Known'
  <2>1. SUFFICES ASSUME NEW name \in Forward, NEW q, NEW a, NEW x,
                        Promised(name, q, a, x), Did(name, q)'
                 PROVE  Load(a)' = x
    BY <1>7 DEF Known, Holds
  <2>2. q \in Grid(name)
    BY <1>0, <2>1, PromisedIn
  <2>3. Did(name, q)
    BY <1>4, <2>1, <2>2
  <2>4. QED
    BY <1>0, <1>6, <2>1, <2>3 DEF Known, Holds
<1>9. RawKnown'
  <2>1. SUFFICES ASSUME NEW w \in {"q", "k"}, NEW i \in RowsOf, NEW h \in HeadsOf(w),
                        Did(MmName(w), << 0 >>)', ~Did(RotaryName(w), TileAt(i, h))'
                 PROVE  Load(RowAt(w, i, h))' = RawRow(w, i, h)
    <3>1. \A n, y : MmName(n)' = MmName(n) /\ RotaryName(n)' = RotaryName(n) /\ TileAt(n, y)' = TileAt(n, y)
      BY DEF MmName, RotaryName, TileAt
    <3>2. \A w, i, h : Load(RowAt(w, i, h))' = RawRow(w, i, h) => Holds(RowAt(w, i, h), RawRow(w, i, h))'
      BY <1>7 DEF Holds
    <3>3. QED
      BY <1>7, <2>1, <3>1, <3>2 DEF RawKnown
  <2>2. ~Did(RotaryName(w), TileAt(i, h))
    BY <1>5, <2>1
  <2>3. <<0>> \in Grid(MmName(w))
    BY DEF Grid, MmName
  <2>4. Did(MmName(w), << 0 >>)
    BY <1>4, <2>1, <2>3
  <2>5. Load(RowAt(w, i, h)) = RawRow(w, i, h)
    BY <1>0, <2>2, <2>4 DEF RawKnown, Holds
  <2>6. \A y : y = RowAt(w, i, h) => Load(RowAt(w, i, h))' = Load(y)'
    BY <1>7
  <2>7. QED
    BY <1>6, <2>5, <2>6
<1>10. HeldKnown'
  <2>1. /\ Batches' = Batches /\ KvHeads' = KvHeads /\ Forward' = Forward
        /\ \A b : SeqLen(b)' = SeqLen(b)
    BY <1>1, <1>7 DEF Batches, KvHeads, SeqLen
  <2>2. QED
    BY <1>0, <1>1, <1>6, <2>1 DEF HeldKnown, Holds, PlaceOf, Pooled, HeldRow
<1>11. QED
  BY <1>8, <1>9, <1>10

(* The start of a forward, when nothing of it is done.                     *)
Starting ==
  /\ Launching(launches, infer_state, model[2])
  /\ grid = {<<0>>}

LEMMA StartKnows ==
  ASSUME Starting
  PROVE  /\ Climbs(launches, 1, 10) /\ launches \in Seq(Forward) /\ launches # <<>>
         /\ grid \subseteq Grid(Head(launches))
         /\ \A name \in Forward : name \in NamesIn(launches) \/ Nth(name) < Nth(Head(launches))
         /\ Known /\ RawKnown
<1>1. /\ Climbs(launches, 1, 10) /\ launches \in Seq(Forward) /\ launches # <<>>
      /\ NamesIn(launches) = Forward /\ Head(launches) = "mm_q" /\ grid = {<<0>>}
  BY DEF Starting, Launching, Forward
<1>2. grid \subseteq Grid(Head(launches))
  BY <1>1 DEF Grid
<1>3. \A name \in Forward : \A q : Did(name, q) => name = "mm_q" /\ q # <<0>>
  BY <1>1 DEF Did
<1>4. Known
  <2>1. SUFFICES ASSUME NEW name \in Forward, NEW q, NEW a, NEW x, Promised(name, q, a, x), Did(name, q)
                 PROVE  FALSE
    BY DEF Known
  <2>2. QED
    BY <1>3, <2>1 DEF Promised
<1>5. RawKnown
  <2>1. SUFFICES ASSUME NEW w \in {"q", "k"}, Did(MmName(w), << 0 >>) PROVE FALSE
    BY DEF RawKnown
  <2>2. MmName(w) \in Forward
    BY DEF MmName, Forward, ForwardOf
  <2>3. QED
    BY <1>3, <2>1, <2>2
<1>6. QED
  BY <1>1, <1>2, <1>4, <1>5

LEMMA ScoringClimbs ==
  ASSUME NEW st, NEW version
  PROVE  /\ st.is_prefill => Launching(GetQkv \o PostCacheKv(st) \o ContextAttention, st, version)
         /\ ~st.is_prefill => Launching(GetQkv \o PostCacheKv(st) \o TokenAttention(version), st, version)
<1> DEFINE L == {"mm_q", "rotary_q", "mm_k", "rotary_k", "mm_v", "copy_k", "copy_v",
                 "context", "att1", "softmax", "att2", "reducev"}
           three == <<"att1", "softmax", "att2">>
           two == <<"att1", "reducev">>
           one == <<"context">>
<1>1. "context" \in L /\ "att1" \in L /\ "softmax" \in L /\ "att2" \in L /\ "reducev" \in L
  OBVIOUS
<1>2. L = {"mm_q", "rotary_q", "mm_k", "rotary_k", "mm_v", "copy_k", "copy_v",
           "context", "att1", "softmax", "att2", "reducev"}
  OBVIOUS
<1> HIDE DEF L
<1>3. one \in Seq(L) /\ two \in Seq(L) /\ three \in Seq(L)
  BY ONLY <1>1, SMTT(30)
<1>4. /\ DOMAIN one = 1 .. 1 /\ one[1] = "context"
      /\ DOMAIN two = 1 .. 2 /\ two[1] = "att1" /\ two[2] = "reducev"
      /\ DOMAIN three = 1 .. 3 /\ three[1] = "att1" /\ three[2] = "softmax" /\ three[3] = "att2"
  OBVIOUS
<1> HIDE DEF one, two, three
<1>5. /\ \A i \in 1 .. 1 : i = 1
      /\ \A i \in 1 .. 2 : i = 1 \/ i = 2
      /\ \A i \in 1 .. 3 : i = 1 \/ i = 2 \/ i = 3
      /\ 1 \in 1 .. 1 /\ 1 \in 1 .. 2 /\ 2 \in 1 .. 2 /\ 1 \in 1 .. 3 /\ 2 \in 1 .. 3 /\ 3 \in 1 .. 3
  OBVIOUS
<1>6. Climbs(one, 8, 10) /\ NamesIn(one) = {"context"}
  <2>1. \A i \in DOMAIN one : one[i] = "context" /\ i = 1
    BY <1>4, <1>5
  <2>2. NamesIn(one) = {"context"}
    BY <1>4, <1>5, <2>1 DEF NamesIn
  <2>3. QED
    BY <2>1, <2>2, Nths DEF Climbs
<1>7. Climbs(two, 8, 10) /\ NamesIn(two) = {"att1", "reducev"}
  <2>1. \A i \in DOMAIN two : (i = 1 /\ two[i] = "att1") \/ (i = 2 /\ two[i] = "reducev")
    BY <1>4, <1>5
  <2>2. NamesIn(two) = {"att1", "reducev"}
    BY <1>4, <1>5, <2>1 DEF NamesIn
  <2>3. QED
    BY <2>1, <2>2, Nths DEF Climbs
<1>8. Climbs(three, 8, 10) /\ NamesIn(three) = {"att1", "softmax", "att2"}
  <2>1. \A i \in DOMAIN three :
          \/ i = 1 /\ three[i] = "att1"
          \/ i = 2 /\ three[i] = "softmax"
          \/ i = 3 /\ three[i] = "att2"
    BY <1>4, <1>5
  <2>2. NamesIn(three) = {"att1", "softmax", "att2"}
    BY <1>4, <1>5, <2>1 DEF NamesIn
  <2>3. QED
    BY <2>1, <2>2, Nths DEF Climbs
<1>9. ASSUME st.is_prefill
      PROVE  Launching(GetQkv \o PostCacheKv(st) \o ContextAttention, st, version)
  <2>1. ContextAttention = one /\ NamesIn(one) = ScoringOf(st.is_prefill, version)
    BY <1>6, <1>9 DEF ContextAttention, ScoringOf, one
  <2>2. Launching(GetQkv \o PostCacheKv(st) \o one, st, version)
    BY <1>2, <1>3, <1>6, <2>1, ForwardClimbs
  <2>3. QED
    BY <2>1, <2>2
<1>10. ASSUME ~st.is_prefill
       PROVE  Launching(GetQkv \o PostCacheKv(st) \o TokenAttention(version), st, version)
  <2> DEFINE last == IF version = "2.0.0" THEN three ELSE two
  <2>1. TokenAttention(version) = last
    BY DEF TokenAttention, three, two
  <2>2. NamesIn(last) = ScoringOf(st.is_prefill, version) /\ last \in Seq(L) /\ Climbs(last, 8, 10)
    BY <1>3, <1>7, <1>8, <1>10 DEF ScoringOf
  <2> HIDE DEF last
  <2>3. Launching(GetQkv \o PostCacheKv(st) \o last, st, version)
    BY <1>2, <2>2, ForwardClimbs
  <2>4. QED
    BY <2>1, <2>3
<1>11. QED
  BY <1>9, <1>10

LEMMA AttentionValuesBegin == AttentionInit => AttentionValues
<1> SUFFICES ASSUME AttentionInit PROVE AttentionValues
  OBVIOUS
<1>1. PICK lens \in PromptLens, index \in PrefillCells :
        /\ model \in {"llama", "llama2"} \X {"2.0.0", "2.1.0"}
        /\ infer_state = PrefillState(FromZero(lens), FromZero(index), IF model[1] = "llama" THEN 1 ELSE 2)
        /\ launches = GetQkv \o PostCacheKv(infer_state) \o ContextAttention
        /\ grid = Grid("mm_q")
        /\ cells = DecodeCells
  BY DEF AttentionInit
<1> DEFINE group == IF model[1] = "llama" THEN 1 ELSE 2
<1>2. group \in Nat \ {0}
  OBVIOUS
<1>3. infer_state.kv_group_num = group
  BY <1>1 DEF PrefillState
<1> HIDE DEF group
<1>4. AttentionInv
  BY AttentionBegins
<1>5. infer_state.is_prefill = TRUE
  BY <1>1, <1>2, PrefillOK DEF group
<1>6. InferServes(infer_state) /\ CellsApart(infer_state, cells)
  <2> DEFINE st == PrefillState(FromZero(lens), FromZero(index), group)
  <2>1. InferServes(st) /\ CellsApart(st, DecodeCells)
    BY <1>2, PrefillServes
  <2>2. infer_state = st
    BY <1>1 DEF group
  <2> HIDE DEF st
  <2>3. QED
    BY <1>1, <2>1, <2>2
<1>7. GroupIs
  BY <1>3 DEF GroupIs, group
<1>8. Starting
  <2>1. Launching(launches, infer_state, model[2])
    BY <1>1, <1>5, ScoringClimbs
  <2>2. QED
    BY <1>1, <2>1 DEF Starting, Grid
<1>9. HeldKnown
  BY <1>5 DEF HeldKnown
<1>10. AttentionReady /\ Known /\ RawKnown
  BY <1>4, <1>8, StartKnows DEF AttentionReady
<1>11. QED
  BY <1>6, <1>7, <1>9, <1>10 DEF AttentionValues

(* The next forward: its tokens' cells hold their rows, by now in the pool. *)
LEMMA DecodeKeeps ==
  ASSUME AttentionValues, AttentionInv', NEW index \in cells, DecodeForward(index)
  PROVE  AttentionValues'
<1> DEFINE st == DecodeState(infer_state, FromZero(index))
<1>0. /\ AttentionReady /\ AttentionInv /\ InferServes(infer_state) /\ CellsApart(infer_state, cells)
      /\ Known /\ HeldKnown /\ InferOK(infer_state) /\ GroupIs
      /\ cells \in SUBSET DecodeCells
  BY DEF AttentionValues, AttentionReady, AttentionInv
<1>1. /\ Finished /\ infer_state' = st
      /\ memory' = [a \in {x \in DOMAIN memory : x[1] \in {"key_buffer", "value_buffer"}} |-> memory[a]]
      /\ launches' = GetQkv \o PostCacheKv(infer_state') \o TokenAttention(model[2])
      /\ grid' = {<<0>>} /\ cells' = cells \ {index} /\ model' = model
  BY DEF DecodeForward
<1>2. st.is_prefill = FALSE /\ st.kv_group_num = infer_state.kv_group_num
  BY DEF DecodeState
<1>3. InferServes(st) /\ CellsApart(st, cells \ {index}) /\ OldPlaces(st, infer_state)
  <2>1. PICK lens \in PromptLens : infer_state.batch_size = Len(lens)
    BY <1>0 DEF AttentionInv
  <2>2. QED
    BY <1>0, <2>1, DecodeServes
<1> HIDE DEF st
<1>4. InferServes(infer_state)' /\ CellsApart(infer_state, cells)' /\ GroupIs'
  <2>1. InferServes(infer_state)'
    BY <1>1, <1>3 DEF InferServes, TokenRow, PlacedRow, PlaceOf, GivenCells
  <2>2. CellsApart(infer_state, cells)'
    BY <1>1, <1>3 DEF CellsApart, PlaceOf
  <2>3. GroupIs'
    BY <1>0, <1>1, <1>2 DEF GroupIs
  <2>4. QED
    BY <2>1, <2>2, <2>3
<1>5. Starting'
  <2>1. Launching(launches', infer_state', model'[2])
    BY <1>1, <1>2, ScoringClimbs
  <2>2. Launching(launches, infer_state, model[2])'
    BY <2>1 DEF Launching, Climbs, NamesIn, Nth, ForwardOf, CopiesOf, ScoringOf
  <2>3. QED
    BY <1>1, <2>2 DEF Starting
<1>6. AttentionReady' /\ Known' /\ RawKnown'
  BY <1>5, StartKnows, PTL DEF AttentionReady
<1>7. PoolOver
  BY <1>0, <1>1, ReadyNames DEF PoolOver, Over
<1>8. HeldKnown'
  <2>1. SUFFICES ASSUME NEW w \in {"k", "v"}, NEW b \in Batches', NEW h \in KvHeads',
                        NEW j \in 0 .. SeqLen(b)' - 1, j < SeqLen(b)' - 1
                 PROVE  Holds(Pooled(w, PlaceOf(infer_state, b, j), h), HeldRow(w, b, j, h))'
    BY DEF HeldKnown
  <2>2. b \in Batches /\ h \in KvHeads
    BY <1>1, <1>2, <1>3 DEF Batches, KvHeads, OldPlaces
  <2>3. j \in 0 .. SeqLen(b) - 1 /\ PlaceOf(st, b, j) = PlaceOf(infer_state, b, j)
    <3>1. SeqLen(b)' = st.b_seq_len[b] /\ b \in 0 .. st.batch_size - 1
      BY <1>1, <1>3, <2>2 DEF SeqLen, OldPlaces, Batches
    <3>2. QED
      BY <1>3, <2>1, <3>1 DEF OldPlaces, SeqLen
  <2> DEFINE a == Pooled(w, PlaceOf(infer_state, b, j), h)
             x == HeldRow(w, b, j, h)
  <2>4. Holds(a, x)
    BY <1>0, <1>7, <2>2, <2>3, PoolKnown
  <2>5. a[1] \in {"key_buffer", "value_buffer"}
    BY DEF Pooled
  <2>6. Holds(Pooled(w, PlaceOf(infer_state, b, j), h), HeldRow(w, b, j, h))' <=>
          (IF a \in DOMAIN memory' THEN memory'[a] ELSE Junk) = x
    <3>1. PlaceOf(infer_state, b, j)' = PlaceOf(infer_state, b, j)
      BY <1>1, <2>3 DEF PlaceOf
    <3>2. Pooled(w, PlaceOf(infer_state, b, j), h)' = a
      BY <3>1 DEF Pooled
    <3>3. HeldRow(w, b, j, h)' = x
      BY DEF HeldRow
    <3> HIDE DEF a, x
    <3>4. QED
      BY <3>2, <3>3 DEF Holds, Load, Junk
  <2> HIDE DEF a, x
  <2>7. (IF a \in DOMAIN memory THEN memory[a] ELSE Junk) = x
    BY <2>4 DEF Holds, Load
  <2>8. (IF a \in DOMAIN memory' THEN memory'[a] ELSE Junk) = x
    BY <1>1, <2>5, <2>7
  <2>9. QED
    BY <2>6, <2>8
<1>9. QED
  BY <1>4, <1>6, <1>8 DEF AttentionValues

LEMMA SameReady ==
  ASSUME AttentionReady, AttentionInv', infer_state' = infer_state, model' = model, cells' = cells,
         launches' = launches, grid' \subseteq grid
  PROVE  AttentionReady'
<1>1. Forward' = Forward /\ \A name : Grid(name)' = Grid(name)
  BY SameForward
<1>2. Grid(Head(launches))' = Grid(Head(launches))
  <2>1. \A name : name = Head(launches) => Grid(Head(launches))' = Grid(name)'
    OBVIOUS
  <2>2. QED
    BY <1>1, <2>1
<1>3. /\ Climbs(launches, 1, 10)' /\ NamesIn(launches)' = NamesIn(launches)
      /\ \A name : Nth(name)' = Nth(name)
  BY DEF AttentionReady, Climbs, NamesIn, Nth
<1>4. QED
  BY <1>1, <1>2, <1>3 DEF AttentionReady, Nth

LEMMA NextReady ==
  ASSUME AttentionReady, AttentionInv', NextLaunch
  PROVE  AttentionReady'
<1> DEFINE t == Tail(launches)
           next == launches[2]
           F == Forward
<1>0. /\ AttentionInv /\ launches \in Seq(F) /\ Climbs(launches, 1, 10) /\ launches # <<>>
      /\ \A name \in F : name \in NamesIn(launches) \/ Nth(name) < Nth(Head(launches))
  BY DEF AttentionReady
<1>1. /\ infer_state' = infer_state /\ model' = model /\ cells' = cells
      /\ Len(launches) > 1 /\ launches' = t /\ grid' = Grid(next)
  BY DEF NextLaunch, Launch, layerVars
<1>2. \A name \in F : Nth(name) \in Nat
  BY <1>0, ForwardNames
<1>3. F' = F /\ \A name : Grid(name)' = Grid(name)
  BY <1>1, SameForward
<1> HIDE DEF F
<1>4. /\ t \in Seq(F) /\ t # <<>> /\ Climbs(t, 1, 10) /\ Head(t) = next
      /\ \A name : name \in NamesIn(t) <=> name \in NamesIn(launches) /\ name # Head(launches)
  BY <1>0, <1>1, <1>2, TailClimbs
<1>5. /\ Head(launches) = launches[1] /\ 1 \in DOMAIN launches /\ 2 \in DOMAIN launches
      /\ launches[1] \in F /\ next \in F
  BY <1>0, <1>1
<1>6. Nth(Head(launches)) < Nth(next)
  BY <1>0, <1>5 DEF Climbs
<1> HIDE DEF t, next
<1>7. ASSUME NEW name \in F PROVE name \in NamesIn(t) \/ Nth(name) < Nth(next)
  <2>1. Nth(name) \in Nat /\ Nth(Head(launches)) \in Nat /\ Nth(next) \in Nat
    BY <1>2, <1>5
  <2>2. QED
    BY <1>0, <1>4, <1>6, <2>1
<1>8. Grid(Head(launches))' = Grid(next)
  <2>1. \A name : name = Head(launches') => Grid(Head(launches))' = Grid(name)'
    OBVIOUS
  <2>2. QED
    BY <1>1, <1>3, <1>4, <2>1
<1>9. /\ Climbs(launches, 1, 10)' /\ NamesIn(launches)' = NamesIn(t)
      /\ \A name : Nth(name)' = Nth(name)
  BY <1>1, <1>4 DEF Climbs, NamesIn, Nth
<1>10. \A name \in Forward' : name \in NamesIn(launches)' \/ Nth(name)' < Nth(Head(launches))'
  <2>1. Nth(Head(launches))' = Nth(next)
    BY <1>1, <1>4 DEF Nth
  <2>2. QED
    BY <1>3, <1>7, <1>9, <2>1 DEF F
<1>11. launches' \in Seq(Forward') /\ launches' # <<>>
  BY <1>1, <1>3, <1>4 DEF F
<1>12. QED
  BY <1>1, <1>8, <1>9, <1>10, <1>11 DEF AttentionReady

LEMMA AttentionValuesStep == AttentionValues /\ [AttentionNext]_attentionVars => AttentionValues'
<1> SUFFICES ASSUME AttentionValues, [AttentionNext]_attentionVars PROVE AttentionValues'
  OBVIOUS
<1>0. /\ AttentionReady /\ InferServes(infer_state) /\ CellsApart(infer_state, cells) /\ GroupIs
      /\ Known /\ RawKnown /\ HeldKnown
  BY DEF AttentionValues
<1>1. AttentionInv'
  BY <1>0, AttentionStep DEF AttentionReady
<1>2. ASSUME infer_state' = infer_state, model' = model, cells' = cells
      PROVE  InferServes(infer_state)' /\ CellsApart(infer_state, cells)' /\ GroupIs'
  BY <1>0, <1>2, SameForward
<1>3. CASE \E p \in grid : RunProgram(p)
  <2>1. PICK p \in grid : RunProgram(p)
    BY <1>3
  <2>2. /\ infer_state' = infer_state /\ model' = model /\ cells' = cells /\ launches' = launches
        /\ grid' \subseteq grid
    BY <2>1 DEF RunProgram, Run, layerVars
  <2>3. Known' /\ RawKnown' /\ HeldKnown'
    BY <2>1, RunKeeps
  <2>4. AttentionReady'
    BY <1>0, <1>1, <2>2, SameReady
  <2>5. QED
    BY <1>2, <2>2, <2>3, <2>4 DEF AttentionValues
<1>4. CASE NextLaunch
  <2>1. infer_state' = infer_state /\ model' = model /\ cells' = cells
    BY <1>4 DEF NextLaunch, layerVars
  <2>2. Known' /\ RawKnown' /\ HeldKnown'
    BY <1>4, LaunchKeeps
  <2>3. AttentionReady'
    BY <1>0, <1>1, <1>4, NextReady
  <2>4. QED
    BY <1>2, <2>1, <2>2, <2>3 DEF AttentionValues
<1>5. CASE \E index \in cells : DecodeForward(index)
  BY <1>1, <1>5, DecodeKeeps
<1>6. CASE UNCHANGED attentionVars
  <2>1. /\ infer_state' = infer_state /\ model' = model /\ cells' = cells /\ launches' = launches
        /\ grid' = grid /\ memory' = memory
    BY <1>6 DEF attentionVars, layerVars, launchVars
  <2>2. AttentionReady'
    BY <1>0, <1>1, <2>1, SameReady
  <2>3. /\ \A name, p, a, x : Promised(name, p, a, x)' <=> Promised(name, p, a, x)
        /\ \A w, i, h : RowAt(w, i, h)' = RowAt(w, i, h) /\ RawRow(w, i, h)' = RawRow(w, i, h)
        /\ RowsOf' = RowsOf /\ \A w : HeadsOf(w)' = HeadsOf(w)
        /\ Forward' = Forward
    BY <2>1, SameForward
  <2>4. /\ \A a, x : Holds(a, x)' <=> Holds(a, x)
        /\ \A name, p : Did(name, p)' <=> Did(name, p)
    BY <2>1 DEF Holds, Load, Junk, Did, NamesIn
  <2>5. Known'
    BY <1>0, <2>3, <2>4 DEF Known
  <2>6. RawKnown'
    <3>1. ASSUME NEW w, NEW i, NEW h
          PROVE  /\ Holds(RowAt(w, i, h), RawRow(w, i, h))' <=> Holds(RowAt(w, i, h), RawRow(w, i, h))
                 /\ Did(MmName(w), <<0>>)' <=> Did(MmName(w), <<0>>)
                 /\ Did(RotaryName(w), TileAt(i, h))' <=> Did(RotaryName(w), TileAt(i, h))
      <4>1. Holds(RowAt(w, i, h), RawRow(w, i, h))' <=> Holds(RowAt(w, i, h), RawRow(w, i, h))
        BY <2>1, <2>3 DEF Holds, Load, Junk
      <4>2. QED
        BY <2>1, <4>1 DEF Did, NamesIn, MmName, RotaryName, TileAt
    <3>2. QED
      BY <1>0, <2>3, <3>1 DEF RawKnown
  <2>7. HeldKnown'
    BY <1>0, <2>1 DEF HeldKnown, Holds, Load, Junk, Batches, KvHeads, SeqLen, PlaceOf, Pooled, HeldRow
  <2>8. QED
    BY <1>2, <2>1, <2>2, <2>5, <2>6, <2>7 DEF AttentionValues
<1>7. QED
  BY <1>3, <1>4, <1>5, <1>6 DEF AttentionNext

LEMMA AttentionValuesAreOwn == AttentionValues => AttentionIsOwn
<1> SUFFICES ASSUME AttentionValues, Finished, NEW i \in DOMAIN infer_state.token, NEW h \in Heads
             PROVE  Load(<<"o", i, h>>) = OwnRow(infer_state.token[i], h)
  BY DEF AttentionIsOwn
<1>0. /\ AttentionReady /\ AttentionInv /\ InferServes(infer_state) /\ Known /\ InferOK(infer_state)
      /\ infer_state.is_prefill \in BOOLEAN
  BY DEF AttentionValues, AttentionReady, AttentionInv
<1>1. i \in RowsOf /\ TokenRow(infer_state, i)
  BY <1>0 DEF InferOK, InferServes, RowsOf
<1> DEFINE b == infer_state.token[i][1]
           j == infer_state.token[i][2]
           a == <<"o", i, h>>
           x == OwnRow(infer_state.token[i], h)
<1>2. b \in Batches /\ j \in 0 .. SeqLen(b) - 1 /\ infer_state.token[i] = <<b, j>>
  BY <1>1 DEF TokenRow, Batches, SeqLen
<1>3. \A name, q : Did(name, q)
  BY <1>0, ReadyNames
<1>4. CASE infer_state.is_prefill
  <2>1. Start(b) + j = i
    BY <1>1, <1>4 DEF TokenRow, Start
  <2>2. ContextAt(<<b, h, j \div BLOCK>>, a, x)
    BY <1>2, <2>1 DEF ContextAt
  <2>3. "context" \in Forward
    BY <1>4 DEF Forward, ForwardOf, ScoringOf
  <2> HIDE DEF a, x
  <2>4. Promised("context", <<b, h, j \div BLOCK>>, a, x)
    BY <2>2 DEF Promised
  <2>5. Holds(a, x)
    BY <1>0, <1>3, <2>3, <2>4 DEF Known
  <2>6. QED
    BY <2>5 DEF Holds, a, x
<1>5. CASE ~infer_state.is_prefill
  <2>1. i \in Batches
    BY <1>0, <1>1, <1>5 DEF InferOK, RowsOf, Batches
  <2>2. infer_state.token[i] = <<i, SeqLen(i) - 1>>
    <3>1. PlacedRow(infer_state, i)
      BY <1>0, <2>1 DEF InferServes, Batches
    <3>2. QED
      BY <1>5, <3>1 DEF PlacedRow, SeqLen
  <2>3. SummedAt(<<i, h>>, a, x)
    BY <2>1, <2>2 DEF SummedAt
  <2>4. PICK last \in {"att2", "reducev"} : last \in Forward
    BY <1>5 DEF Forward, ForwardOf, ScoringOf
  <2> HIDE DEF a, x
  <2>5. Promised(last, <<i, h>>, a, x)
    BY <2>3 DEF Promised
  <2>6. Holds(a, x)
    BY <1>0, <1>3, <2>4, <2>5 DEF Known
  <2>7. QED
    BY <2>6 DEF Holds, a, x
<1>6. QED
  BY <1>4, <1>5

(* Attention is softmax attention, for every batch, placement and block    *)
(* size, both models and both versions of Triton: when a forward is over,  *)
(* the output of each of its tokens adds up the values of the request's    *)
(* tokens up to it, each once, weighed by its own scores over their sum.   *)
THEOREM AttentionComputesOwn == AttentionSpec => []AttentionIsOwn
<1>1. AttentionSpec => []AttentionValues
  BY AttentionValuesBegin, AttentionValuesStep, PTL DEF AttentionSpec
<1>2. QED
  BY <1>1, AttentionValuesAreOwn, PTL
=============================================================================
