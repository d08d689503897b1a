----------------------------- MODULE AdapterPool -----------------------------
(***************************************************************************)
(* InferAdapter (infer_adapter.py): the arrays that say where the loaded   *)
(* adapters lie in the pool, kept by load_adapters, with and without       *)
(* prefetch, and rebuilt by offload_adapters.  ModelServer has them as one *)
(* map from adapters to cells; here they are arrays, as the LoRA kernels   *)
(* read them.  Its user is the router: what a batch needs is loaded before *)
(* it runs, what nobody needs is offloaded after, and the key-value cache  *)
(* takes cells of the same pool meanwhile.  A copy on the prefetch stream  *)
(* counts as done when the call returns.                                   *)
(***************************************************************************)
EXTENDS Integers, Sequences, FiniteSetsExt, TLC
LOCAL INSTANCE SequencesExt

CONSTANTS
  Adapter, adapter_r,   (* the adapters and their ranks                     *)
  pool_size,
  COPY_BLOCK,           (* of var_len_copy_kernel_triton, 256 in the code   *)
  RowSizes,             (* bound: what the key-value cache asks for at once *)
  MaxRows               (* bound: how many such rows it holds at a time     *)

(* r * 4: the rows of the adapter's four matrices.                         *)
Size(a) == 4 * adapter_r[a]

ASSUME AdapterAssumption ==
  /\ IsFiniteSet(Adapter) /\ adapter_r \in [Adapter -> Nat]
  /\ pool_size \in Nat /\ RowSizes \subseteq Nat
  /\ COPY_BLOCK \in Nat \ {0}

VARIABLES
  adapter_dirs, idx_map,    (* the loaded adapters, and their indexes       *)
  a_start, a_len, a_loc,    (* adapter i has a_loc from a_start[i] on       *)
  prefetch_tag, cur_tag,
  idle, idle_count,         (* mem_state and can_use_mem_size of the pool   *)
  rows,                     (* cells of the key-value cache                 *)
  in_use                    (* adapters of the batches the router runs      *)

arrayVars == <<adapter_dirs, idx_map, a_start, a_len, a_loc>>
adapterVars == <<arrayVars, prefetch_tag, cur_tag, idle, idle_count, rows, in_use>>

Pool == INSTANCE MemoryPool
          WITH tot_size <- pool_size, mem_state <- idle, can_use_mem_size <- idle_count

AdapterInit ==
  /\ adapter_dirs = <<>> /\ idx_map = << >>
  /\ a_start = <<>> /\ a_len = <<>> /\ a_loc = <<>>
  /\ prefetch_tag = << >> /\ cur_tag = 0
  /\ Pool!PoolInit
  /\ rows = {} /\ in_use = {}

SizeOf(adapters) == MapThenSumSet(Size, adapters)
Sorted(select_index) ==
  [k \in 1 .. Cardinality(select_index) |->
     CHOOSE c \in select_index : Cardinality({d \in select_index : d <= c}) = k]
SumBefore(len, i) == MapThenSumSet(LAMBDA j : len[j], 1 .. i - 1)
Slice(i) == SubSeq(a_loc, a_start[i] + 1, a_start[i] + a_len[i])

-----------------------------------------------------------------------------
(* The arrays grow at their ends; a_start counts in the whole of a_loc.    *)
AppendArrays(new) ==
  LET len == [i \in DOMAIN new |-> Size(new[i])]
  IN  /\ a_start' = a_start \o [i \in DOMAIN new |-> Len(a_loc) + SumBefore(len, i)]
      /\ a_len' = a_len \o len
      /\ a_loc' = a_loc \o Sorted(Pool!Lowest(SizeOf(Range(new))))

AddAdapters(new) ==
  /\ Pool!HasRoom(SizeOf(Range(new)))
  /\ Pool!Mark(Pool!Lowest(SizeOf(Range(new))))
  /\ AppendArrays(new)
  /\ idx_map' = [a \in DOMAIN idx_map \cup Range(new) |->
                   IF a \in DOMAIN idx_map THEN idx_map[a]
                   ELSE Len(adapter_dirs) + CHOOSE i \in DOMAIN new : new[i] = a]
  /\ adapter_dirs' = adapter_dirs \o new

IsNew(a) == a \notin DOMAIN idx_map

(* load_adapters for a batch; dirs is a Python set, in any order.  (When   *)
(* the pool is short alloc raises: ServedRouter.)                          *)
LoadAdapters(dirs) ==
  /\ \E new \in SetToSeqs({a \in dirs : IsNew(a)}) : AddAdapters(new)
  /\ in_use' = in_use \cup dirs
  /\ UNCHANGED <<prefetch_tag, cur_tag, rows>>

(* load_adapters(prefetch=True): adapters are taken one by one up to the   *)
(* first that does not fit, whose tag is set before that is found out.     *)
PrefetchAdapters(dirs) ==
  \E seen \in SUBSET dirs :
    LET new == {a \in seen : IsNew(a)}
        refused == {a \in dirs \ seen : IsNew(a) /\ SizeOf(new) + Size(a) > idle_count}
    IN  /\ \E order \in SetToSeqs(new) : AddAdapters(order)
        /\ cur_tag' = 1 - cur_tag
        /\ \E last \in IF seen = dirs THEN {{}} ELSE {{a} : a \in refused} :
             prefetch_tag' = [a \in seen \cup last |-> cur_tag'] @@ prefetch_tag
        /\ UNCHANGED <<rows, in_use>>

-----------------------------------------------------------------------------
(* Mutation of CopyStores: the next adapter is read one cell too early.        *)
CopyStoresOffByOne(old, len, new) ==
  {<<new + i + o + 1, IF i = 0 THEN old + o + 1 ELSE old + i + o>> :
     i \in {j \in 0 .. len - 1 : j % COPY_BLOCK = 0},
     o \in {j \in 0 .. COPY_BLOCK - 1 : j < len}}

(* One program of var_len_copy_kernel_triton: <<to, from>>.                *)
CopyStores(old, len, new) ==
  {<<new + i + o + 1, old + i + o + 1>> :
     i \in {j \in 0 .. len - 1 : j % COPY_BLOCK = 0},
     o \in {j \in 0 .. COPY_BLOCK - 1 : j < len}}

(* The arrays that launches leave which take the entry at to from from[to]:*)
(* its programs run at the same time, and of several any may be the last.  *)
Outcomes(from) ==
  LET contested == {to \in DOMAIN from : \E i, j \in from[to] : i # j}
      wins == {w \in [contested -> DOMAIN a_loc] : \A to \in contested : w[to] \in from[to]}
  IN  {[to \in DOMAIN from |->
          a_loc[IF to \in contested THEN w[to] ELSE CHOOSE i \in from[to] : TRUE]] : w \in wins}

(* launch_var_len_copy_triton.  What is stored past the new array lands in *)
(* memory of something else, and is left out.                              *)
Copied(left, start, len) ==
  LET stores == UNION {CopyStores(a_start[left[k]], len[k], start[k]) : k \in DOMAIN left}
  IN  Outcomes([to \in 1 .. SumBefore(len, Len(len) + 1) |->
                  {s[2] : s \in {t \in stores : t[1] = to}}])

(* The kernel masks every block by the whole length: unless the last block *)
(* is full or the only one it copies past the adapter's end.  With its 256 *)
(* the ranks up to 64 and the multiples of 64 fit; nothing checks a rank.  *)
CopyFits == \A a \in Adapter : Size(a) <= COPY_BLOCK \/ Size(a) % COPY_BLOCK = 0

(* The tag of the last prefetch, or of the one two before it.              *)
Tagged(a) == a \in DOMAIN prefetch_tag /\ prefetch_tag[a] = cur_tag

(* Mutation of Staying: what was prefetched, and not what is reserved.     *)
StayingTagged(reserve) == {i \in DOMAIN adapter_dirs : Tagged(adapter_dirs[i])}

Staying(reserve) ==
  {i \in DOMAIN adapter_dirs : adapter_dirs[i] \in reserve \/ Tagged(adapter_dirs[i])}

OffloadAll ==
  /\ Pool!Free({a_loc[i] : i \in DOMAIN a_loc}, Len(a_loc))
  /\ adapter_dirs' = <<>> /\ idx_map' = << >>
  /\ a_start' = <<>> /\ a_len' = <<>> /\ a_loc' = <<>>

OffloadSome(reserve) ==
  LET left == Sorted(Staying(reserve))
      gone == DOMAIN adapter_dirs \ Staying(reserve)
      len  == [k \in DOMAIN left |-> a_len[left[k]]]
  IN  /\ Pool!Free(UNION {{Slice(i)[k] : k \in 1 .. a_len[i]} : i \in gone},
                   MapThenSumSet(LAMBDA i : a_len[i], gone))
      /\ adapter_dirs' = [k \in DOMAIN left |-> adapter_dirs[left[k]]]
      /\ idx_map' = [a \in {adapter_dirs[i] : i \in Staying(reserve)} |->
                       CHOOSE k \in DOMAIN left : adapter_dirs[left[k]] = a]
      /\ a_len' = len
      /\ a_start' = [k \in DOMAIN left |-> SumBefore(len, k)]
      /\ a_loc' \in Copied(left, a_start', len)

(* offload_adapters: reserve is what the batch that goes on needs.  The    *)
(* early return compares numbers, not adapters.                            *)
OffloadAdapters(reserve) ==
  /\ IF Cardinality(reserve) = Len(adapter_dirs) THEN UNCHANGED <<arrayVars, idle, idle_count>>
     ELSE IF reserve = {} THEN OffloadAll
     ELSE OffloadSome(reserve)
  /\ in_use' = reserve
  /\ UNCHANGED <<prefetch_tag, cur_tag, rows>>

-----------------------------------------------------------------------------
TakeRow(n) ==
  /\ Cardinality(rows) < MaxRows
  /\ Pool!HasRoom(n)
  /\ Pool!Mark(Pool!Lowest(n))
  /\ rows' = rows \cup {Pool!Lowest(n)}
  /\ UNCHANGED <<arrayVars, prefetch_tag, cur_tag, in_use>>

GiveRow(row) ==
  /\ row \in rows
  /\ Pool!Free(row, Cardinality(row))
  /\ rows' = rows \ {row}
  /\ UNCHANGED <<arrayVars, prefetch_tag, cur_tag, in_use>>

AdapterNext ==
  \/ \E dirs \in SUBSET Adapter \ {{}} : LoadAdapters(dirs) \/ PrefetchAdapters(dirs)
  \/ \E reserve \in SUBSET in_use : OffloadAdapters(reserve)
  \/ \E n \in RowSizes : TakeRow(n)
  \/ \E row \in rows : GiveRow(row)

AdapterSpec == AdapterInit /\ [][AdapterNext]_adapterVars

-----------------------------------------------------------------------------
(* The cells the LoRA kernels find for an adapter, through idx_map.        *)
CellsOf(a) == Slice(idx_map[a])

(* The arrays, grown at one end and compacted by offloads and prefetches   *)
(* of any order, describe every adapter a running batch needs: each entry  *)
(* has its own slice of a_loc, of its own length, and these cells, the     *)
(* rows of the key-value cache and the free cells are the pool, once each. *)
ArraysAgree ==
  /\ in_use \subseteq DOMAIN idx_map
  /\ Len(a_loc) = SizeOf(DOMAIN idx_map)
  /\ \A i \in DOMAIN adapter_dirs :
       idx_map[adapter_dirs[i]] = i /\ a_len[i] = Size(adapter_dirs[i])
  /\ LET users == {{CellsOf(a)[k] : k \in 1 .. Size(a)} : a \in DOMAIN idx_map} \cup rows \cup {idle}
     IN  /\ UNION users = Pool!Cells
         /\ MapThenSumSet(LAMBDA S : Cardinality(S), users) = pool_size
         /\ idle_count = Cardinality(idle)

(* The weights were copied to an adapter's cells when it was loaded, row   *)
(* by row, and never again: as long as it is loaded it keeps the same      *)
(* cells in the same order, whatever is loaded and offloaded around it.    *)
WeightsStay ==
  [][\A a \in DOMAIN idx_map \cap DOMAIN idx_map' : CellsOf(a)' = CellsOf(a)]_adapterVars
=============================================================================
