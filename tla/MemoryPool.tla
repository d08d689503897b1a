----------------------------- MODULE MemoryPool -----------------------------
(***************************************************************************)
(* The pool of cells that key-value cache and adapters share (class        *)
(* MemoryAllocator of mem_allocator.py).  A cell is one index of the       *)
(* buffers; mem_state is the set of the free ones.  The operators are what *)
(* the methods select and do, as parts of actions.                         *)
(***************************************************************************)
EXTENDS Integers, FiniteSets, FiniteSetsExt

CONSTANT tot_size

ASSUME SizeAssumption == tot_size \in Nat

VARIABLES
  mem_state,         (* cells whose flag is 1                               *)
  can_use_mem_size   (* the counter that alloc and alloc_contiguous trust   *)

poolVars == <<mem_state, can_use_mem_size>>

Cells == 0 .. tot_size - 1

PoolInit ==
  /\ mem_state = Cells
  /\ can_use_mem_size = tot_size

(* The cells marked as used, and the counter, whatever was asked for.      *)
Mark(select_index) ==
  /\ mem_state' = mem_state \ select_index
  /\ can_use_mem_size' = can_use_mem_size - Cardinality(select_index)

(* Mutation of Lowest: the flag is not looked at, only the running sum.    *)
LowestOfAll(n) ==
  {c \in Cells : Cardinality({d \in mem_state : d <= c}) <= n}

(* alloc: the first need_size free cells, or an exception.                 *)
Lowest(n) ==
  {c \in mem_state : Cardinality({d \in mem_state : d <= c}) <= n}
HasRoom(need_size) == need_size <= can_use_mem_size

(* alloc_contiguous: the first window of need_size free cells, or None.    *)
Window(start, size) == start .. start + size - 1
FreeStarts(size) == {s \in 0 .. tot_size - size : Window(s, size) \subseteq mem_state}
FirstWindow(size) == Window(Min(FreeStarts(size)), size)

(* Mutation of StripStarts: every start, without the step of block_size.   *)
AnyStart(block_size) == FreeStarts(block_size)

(* alloc_strip.  The first start of a run of free starts is to be taken    *)
(* and then every block_size-th; but cummax over flags is 1 from the first *)
(* run on, so the count goes on across runs.  block_size is a power of 2.  *)
StripStarts(block_size) ==
  LET starts == FreeStarts(block_size)
      loc_sum(s) == Cardinality({t \in starts : t <= s})
  IN  {s \in starts : (loc_sum(s) - 1) % block_size = 0}

(* alloc_grid: the windows that start at a multiple of grid_size.          *)
GridStarts(grid_size) == {s \in FreeStarts(grid_size) : s % grid_size = 0}

(* Both take the first blocks of their list.                               *)
FirstOf(starts, need) ==
  {s \in starts : Cardinality({t \in starts : t <= s}) <= need}
Blocks(starts, need, size) == UNION {Window(s, size) : s \in FirstOf(starts, need)}

(* Mutation of Free: the flags are set and the counter is forgotten.       *)
FreeWithoutCount(free_index, n) ==
  /\ mem_state' = mem_state \cup free_index
  /\ UNCHANGED can_use_mem_size

(* free, of an index tensor with n entries.                                *)
Free(free_index, n) ==
  /\ mem_state' = mem_state \cup free_index
  /\ can_use_mem_size' = can_use_mem_size + n
=============================================================================
