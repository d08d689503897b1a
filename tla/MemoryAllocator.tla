--------------------------- MODULE MemoryAllocator ---------------------------
(***************************************************************************)
(* The pool and a user that calls the methods of MemoryAllocator in any    *)
(* order, for any sizes, and gives back only what it holds.                *)
(***************************************************************************)
EXTENDS MemoryPool

CONSTANTS
  Sizes,        (* what alloc and alloc_contiguous are asked for            *)
  BlockSizes    (* powers of 2                                              *)

ASSUME RequestsAssumption ==
  /\ Sizes \subseteq Nat \ {0}
  /\ \A b \in BlockSizes : b \in Nat /\ \E k \in 0 .. b : b = 2 ^ k

VARIABLE held   (* the index sets the user has been given and not returned *)

allocVars == <<poolVars, held>>

AllocInit == PoolInit /\ held = {}

Hand(select_index) == Mark(select_index) /\ held' = held \cup {select_index}

alloc(n) == HasRoom(n) /\ Hand(Lowest(n))

alloc_contiguous(n) ==
  /\ HasRoom(n)
  /\ FreeStarts(n) # {}
  /\ Hand(FirstWindow(n))

alloc_strip(need_block, block_size) ==
  /\ Cardinality(StripStarts(block_size)) >= need_block
  /\ Hand(Blocks(StripStarts(block_size), need_block, block_size))

alloc_grid(need_grid, grid_size) ==
  /\ Cardinality(GridStarts(grid_size)) >= need_grid
  /\ Hand(Blocks(GridStarts(grid_size), need_grid, grid_size))

free(select_index) ==
  /\ select_index \in held
  /\ Free(select_index, Cardinality(select_index))
  /\ held' = held \ {select_index}

free_all ==
  /\ mem_state' = Cells
  /\ can_use_mem_size' = tot_size
  /\ held' = {}

AllocNext ==
  \/ \E n \in Sizes : alloc(n) \/ alloc_contiguous(n)
  \/ \E b \in BlockSizes, n \in Sizes : alloc_strip(n, b) \/ alloc_grid(n, b)
  \/ \E select_index \in held : free(select_index)
  \/ free_all

AllocSpec == AllocInit /\ [][AllocNext]_allocVars

-----------------------------------------------------------------------------
TypeOK ==
  /\ mem_state \in SUBSET Cells
  /\ can_use_mem_size \in 0 .. tot_size
  /\ held \in SUBSET SUBSET Cells

(* No cell is given to two holders, or to one and still counted as free,   *)
(* and none is lost; the counter is the number of free cells.  free adds   *)
(* lengths and sets flags and never checks them, so one wrong index shows  *)
(* only when the counter lets a later allocation come up short.            *)
OneOwner ==
  /\ UNION held = Cells \ mem_state
  /\ \A S, T \in held : S # T => S \cap T = {}
  /\ can_use_mem_size = Cardinality(mem_state)

(* What a caller was promised it gets: need_size cells, or need_block      *)
(* blocks of block_size cells that do not overlap.                         *)
FullSize ==
  /\ \A n \in Sizes : HasRoom(n) => Cardinality(Lowest(n)) = n
  /\ \A b \in BlockSizes, n \in Sizes :
       /\ Cardinality(StripStarts(b)) >= n
            => Cardinality(Blocks(StripStarts(b), n, b)) = n * b
       /\ Cardinality(GridStarts(b)) >= n
            => Cardinality(Blocks(GridStarts(b), n, b)) = n * b
=============================================================================
