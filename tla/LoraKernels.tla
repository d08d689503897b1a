----------------------------- MODULE LoraKernels -----------------------------
(***************************************************************************)
(* The kernels that add a request's adapter to q, k, v and o: bgmv (CUDA)  *)
(* and lora_prefill (Triton), each a shrink to the rank and an expansion   *)
(* from it, and the batched matrix products of --bmm.  A weight is what it *)
(* is the weight of, an output the sequence of the terms added up in it.   *)
(*                                                                         *)
(* An adapter of rank r lies in 4 * r cells of the pool, in any order: the *)
(* rows of its four A matrices in the key buffer, its four B matrices, row *)
(* after row, in the value buffer, where a row of B does not end with its  *)
(* cell.                                                                   *)
(***************************************************************************)
EXTENDS Launches
LOCAL INSTANCE SequencesExt

CONSTANTS
  rank, scaling,  (* adapter -> its rank, its scaling                       *)
  loc,            (* adapter -> the cells it was loaded to                  *)
  EMBED,          (* features of a row                                      *)
  VEC, TILE_OUT,  (* bgmv: features a lane loads at once, outputs a block   *)
                  (* of the expansion writes                                *)
  TILE_M, SHRINK_N, EXPAND_N  (* lora_prefill: BLOCK_M, BLOCK_N             *)

ASSUME RankAssumption ==
  /\ {EMBED, VEC, TILE_OUT, TILE_M, SHRINK_N, EXPAND_N} \subseteq Nat \ {0}
  /\ EMBED % VEC = 0 /\ EMBED % TILE_OUT = 0 /\ EMBED % EXPAND_N = 0
  /\ \A a \in DOMAIN rank : rank[a] \in Nat \ {0} /\ Len(loc[a]) = 4 * rank[a]

(* The pool gives no cell to two of its adapters, or twice.                *)
ASSUME LocAssumption ==
  /\ loc \in [DOMAIN rank -> Seq(Nat)]
  /\ \A a, b \in DOMAIN rank : \A i \in DOMAIN loc[a], j \in DOMAIN loc[b] :
       loc[a][i] = loc[b][j] => a = b /\ i = j

(* What the kernels need of every rank.  Checked is only the widest of a   *)
(* batch, which must be one that bgmv is compiled for (powers of 2 from 8  *)
(* to 128); it loads VEC features of the narrower ones too, and the        *)
(* expansion of lora_prefill looks for a row of B in one cell.             *)
RanksFit == \A a \in DOMAIN rank : rank[a] % VEC = 0 /\ EMBED % rank[a] = 0

VARIABLE lora  (* the record of this forward and its engine                 *)

Slots == {"q", "k", "v", "o"}
qkvo == [q |-> 0, k |-> 1, v |-> 2, o |-> 3]

(* o shares the buffer of q.                                               *)
delta == [q |-> "delta_0", k |-> "delta_1", v |-> "delta_2", o |-> "delta_0"]

Tokens == DOMAIN lora.request
Request(row) == lora.request[row]

(* The input of a projection: the layer's, or what attention returned.     *)
Input(slot, row) == <<IF slot = "o" THEN "attended" ELSE "input", lora.layer, row>>

(* w_combined: the cells' contents after load_lora_A and load_lora_B.      *)
WeightA(a, slot, j) == <<"A", a, slot, j, lora.layer>>
WeightB(a, slot, n, d) == <<"B", a, slot, n, d, lora.layer>>
SlotOf(a, i) == CHOOSE slot \in Slots : qkvo[slot] = i \div rank[a]
CombinedA(a, i) == WeightA(a, SlotOf(a, i), i % rank[a])

(* Mutation of CombinedB: B is not transposed.                             *)
CombinedBAsIs(a, i, offset) == WeightB(a, SlotOf(a, i), offset, i % rank[a])

CombinedB(a, i, offset) ==
  LET flat == (i % rank[a]) * EMBED + offset
  IN  WeightB(a, SlotOf(a, i), flat \div rank[a], flat % rank[a])

Owners(cell) == {x \in (DOMAIN loc) \X (1 .. EMBED * 4) :
                   x[2] \in DOMAIN loc[x[1]] /\ loc[x[1]][x[2]] = cell}
KeyBuffer(cell) ==
  IF Owners(cell) = {} THEN Junk
  ELSE LET x == CHOOSE x \in Owners(cell) : TRUE IN CombinedA(x[1], x[2] - 1)
ValueBuffer(cell, offset) ==
  IF Owners(cell) = {} \/ offset >= EMBED THEN Junk
  ELSE LET x == CHOOSE x \in Owners(cell) : TRUE IN CombinedB(x[1], x[2] - 1, offset)

(* a_start, a_len, a_loc of the adapters in the pool, in their order.      *)
ALen(i) == 4 * rank[lora.adapter_dirs[i]]
AStart(i) == LET sum[k \in 0 .. i - 1] == IF k = 0 THEN 0 ELSE sum[k - 1] + ALen(k) IN sum[i - 1]
ALoc == FlattenSeq([i \in DOMAIN lora.adapter_dirs |-> loc[lora.adapter_dirs[i]]])
Cell(i, slot, k) == ALoc[AStart(i) + (ALen(i) \div 4) * qkvo[slot] + k + 1]
Scale(i) == scaling[lora.adapter_dirs[i]]
RankSize(i) == ALen(i) \div 4

Dot(x, w) == IF w = Junk THEN Junk ELSE <<"dot", x, w>>

(* x * w * s as terms: none if a factor is zero.                           *)
Product(x, w, s) ==
  IF Junk \in {x, w} THEN <<Junk>>
  ELSE IF Zero \in {x, w} THEN <<>> ELSE <<<<"lora", x, w, s>>>>
SumOf(terms, n) == FlattenSeq([i \in 1..n |-> terms[i - 1]])

-----------------------------------------------------------------------------
(* bgmv: a block per output and row.                                       *)

(* batch_req_bins in a prefill, req_bins in a decode.                      *)
Bin(row) == lora.req_bins[Request(row)]

BgmvShrinkGrid == (0 .. lora.max_lora_dim - 1) \X Tokens

(* Blocks beyond the row's rank return without a store.                    *)
BgmvShrink(p, slot) ==
  LET i == Bin(p[2])
  IN  [a \in {<<delta[slot], p[2], j>> : j \in {p[1]} \cap 0 .. RankSize(i) - 1} |->
         Dot(Input(slot, p[2]), KeyBuffer(Cell(i, slot, a[3])))]

BgmvExpandGrid == (0 .. EMBED \div TILE_OUT - 1) \X Tokens

(* A lane loads VEC features, all or, beyond the rank, none.               *)
BgmvExpand(p, slot) ==
  LET i == Bin(p[2])
      flat(n, e) == n * RankSize(i) + (e \div VEC) * VEC
      weight(n, e) == ValueBuffer(Cell(i, slot, flat(n, e) \div EMBED), (flat(n, e) % EMBED) + (e % VEC))
      term(n, e) == IF (e \div VEC) * VEC >= RankSize(i) THEN <<>>
                    ELSE Product(Load(<<delta[slot], p[2], e>>), weight(n, e), Scale(i))
  IN  [a \in {<<slot, p[2], n>> : n \in Rows(p[1], TILE_OUT)} |->
         Load(a) \o SumOf([e \in 0 .. lora.max_lora_dim - 1 |-> term(a[3], e)], lora.max_lora_dim)]

-----------------------------------------------------------------------------
(* lora_prefill: a program per request, tile of columns and block of rows. *)

(* Mutation of BlockRows: rows past the end of the request are not masked. *)
WholeBlock(b, m) == {lora.b_start_loc[b] + i : i \in Rows(m, TILE_M)}

BlockRows(b, m) ==
  {lora.b_start_loc[b] + i : i \in {x \in Rows(m, TILE_M) : x < lora.b_seq_len[b]}}

Requests == DOMAIN lora.req_bins
RowBlocks(n) == 0 .. CDiv(n, TILE_M) - 1

ShrinkGrid ==
  Requests \X (0 .. CDiv(lora.max_lora_dim, SHRINK_N) - 1) \X RowBlocks(lora.max_b_seq_len)

(* Columns beyond the rank are stored as zeros.                            *)
ShrinkFwd(p, slot) ==
  LET i == lora.req_bins[p[1]]
  IN  [a \in {<<delta[slot], row, j>> : row \in BlockRows(p[1], p[3]), j \in Rows(p[2], SHRINK_N)} |->
         IF a[3] < RankSize(i)
           THEN Dot(Input(slot, a[2]), KeyBuffer(Cell(i, slot, a[3]))) ELSE Zero]

ExpandGrid ==
  Requests \X (0 .. CDiv(EMBED, EXPAND_N) - 1) \X RowBlocks(lora.max_b_seq_len)

(* The cell of a row of B is that of its first entry.                      *)
ExpandFwd(p, slot) ==
  LET i == lora.req_bins[p[1]]
      weight(n, d) ==
        IF d < RankSize(i)
          THEN ValueBuffer(Cell(i, slot, (n * RankSize(i)) \div EMBED), (n * RankSize(i) + d) % EMBED)
          ELSE Zero
      term(row, n, d) == Product(Load(<<delta[slot], row, d>>), weight(n, d), Scale(i))
  IN  [a \in {<<slot, row, n>> : row \in BlockRows(p[1], p[3]), n \in Rows(p[2], EXPAND_N)} |->
         Load(a) \o SumOf([d \in 0 .. lora.max_lora_dim - 1 |-> term(a[2], a[3], d)], lora.max_lora_dim)]

-----------------------------------------------------------------------------
(* --bmm: requests with one adapter in a row are one segment; its weights  *)
(* are copied from the adapter, not from the pool, and padded with zeros   *)
(* to the widest adapter's rank.                                           *)
BatchLoraA(b, slot, d) ==
  LET a == lora.adapters[b] IN IF d < rank[a] THEN WeightA(a, slot, d) ELSE Zero
BatchLoraB(b, slot, n, d) ==
  LET a == lora.adapters[b] IN IF d < rank[a] THEN WeightB(a, slot, n, d) ELSE Zero

Segments ==
  LET starts == {b \in Requests : b = 0 \/ lora.adapters[b] # lora.adapters[b - 1]}
  IN  [b \in starts |-> {c \in Requests : b <= c /\ \A d \in starts : d <= b \/ c < d}]
LastSegment == CHOOSE b \in DOMAIN Segments : \A c \in DOMAIN Segments : c <= b

(* The loop over k of a decode does not rebind adapter_scaling, which      *)
(* still is the one of the last segment.                                   *)
BmmScaling(slot, b) ==
  scaling[lora.adapters[IF slot = "k" /\ ~lora.is_prefill THEN LastSegment ELSE b]]

Bmm(slot) ==
  LET segment(row) == CHOOSE b \in DOMAIN Segments : Request(row) \in Segments[b]
      x(row, d) == Dot(Input(slot, row), BatchLoraA(segment(row), slot, d))
      term(row, n, d) ==
        Product(x(row, d), BatchLoraB(segment(row), slot, n, d), BmmScaling(slot, segment(row)))
  IN  [a \in {<<slot, row, n>> : row \in Tokens, n \in 0 .. EMBED - 1} |->
         Load(a) \o SumOf([d \in 0 .. lora.max_lora_dim - 1 |-> term(a[2], a[3], d)], lora.max_lora_dim)]
=============================================================================
