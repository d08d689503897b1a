------------------------ MODULE SequentialParts_proofs ------------------------
(***************************************************************************)
(* Proofs about the parts of SequentialParts, for a pool of any size, any  *)
(* requests, any adapters and kernels over tiles of any size.              *)
(***************************************************************************)
EXTENDS SequentialParts, Admission_proofs
LOCAL INSTANCE SequencesExt

-----------------------------------------------------------------------------
(* The allocator (MemoryAllocator): it never gives a cell to two holders,  *)
(* counts its free cells exactly and hands out what it was asked for.      *)

(* OneOwner and the types that make its arithmetic meaningful.  TypeOK     *)
(* follows: a count of free cells lies between 0 and tot_size.             *)
PoolInv ==
  /\ mem_state \subseteq Cells
  /\ held \subseteq SUBSET Cells
  /\ OneOwner

(* The pool is finite and has tot_size cells.                              *)
LEMMA CellsFinite ==
  /\ IsFiniteSet(Cells)
  /\ Cardinality(Cells) = tot_size
  BY SizeAssumption, FS_Interval, 0 \in Int, tot_size - 1 \in Int DEF Cells

(* So is every part of it.                                                 *)
LEMMA PartFinite ==
  ASSUME NEW S, S \subseteq Cells
  PROVE  IsFiniteSet(S) /\ Cardinality(S) \in 0 .. tot_size
<1>1. IsFiniteSet(S) /\ Cardinality(S) <= Cardinality(Cells)
  BY CellsFinite, FS_Subset
<1>2. Cardinality(S) \in Nat
  BY <1>1, FS_CardinalityType
<1>3. QED
  BY <1>1, <1>2, CellsFinite, SizeAssumption

(* Min is a member of the set it is taken of.                              *)
LEMMA MinIn ==
  ASSUME NEW S \in SUBSET Nat, S # {}
  PROVE  Min(S) \in S /\ \A y \in S : Min(S) <= y
<1>1. \E x \in S : \A y \in S : x <= y
  BY LeastNumber
<1>2. QED
  BY <1>1 DEF Min

(* The indexes a method selects are free when it selects them.             *)
LEMMA LowestFree ==
  \A n : Lowest(n) \subseteq mem_state
  BY DEF Lowest

LEMMA FirstWindowFree ==
  ASSUME NEW n, FreeStarts(n) # {}
  PROVE  FirstWindow(n) \subseteq mem_state
<1>1. FreeStarts(n) \subseteq Nat
  BY SizeAssumption DEF FreeStarts
<1>2. Min(FreeStarts(n)) \in FreeStarts(n)
  BY <1>1, MinIn
<1>3. QED
  BY <1>2 DEF FirstWindow, FreeStarts

LEMMA BlocksFree ==
  ASSUME NEW size, NEW starts, starts \subseteq FreeStarts(size), NEW need
  PROVE  Blocks(starts, need, size) \subseteq mem_state
  BY DEF Blocks, FirstOf, FreeStarts

(* Handing out free cells keeps the account.                               *)
LEMMA HandKeeps ==
  ASSUME PoolInv, NEW S, S \subseteq mem_state, Hand(S)
  PROVE  PoolInv'
<1>1. mem_state' = mem_state \ S /\ held' = held \cup {S}
  BY DEF Hand, Mark
<1>2. mem_state' \subseteq Cells /\ held' \subseteq SUBSET Cells
  BY <1>1 DEF PoolInv
<1>3. UNION held' = Cells \ mem_state'
  BY <1>1 DEF PoolInv, OneOwner
<1>4. \A T \in held : T \cap S = {}
  BY DEF PoolInv, OneOwner
<1>5. \A T, U \in held' : T # U => T \cap U = {}
  BY <1>1, <1>4 DEF PoolInv, OneOwner
<1>6. can_use_mem_size' = Cardinality(mem_state')
  <2>1. IsFiniteSet(mem_state)
    BY PartFinite DEF PoolInv
  <2>2. Cardinality(mem_state \ S) = Cardinality(mem_state) - Cardinality(mem_state \cap S)
    BY <2>1, FS_Difference
  <2>3. mem_state \cap S = S
    OBVIOUS
  <2>4. QED
    BY <1>1, <2>2, <2>3 DEF Hand, Mark, PoolInv, OneOwner
<1>7. QED
  BY <1>2, <1>3, <1>5, <1>6, Cells = Cells' DEF PoolInv, OneOwner

(* So does taking back what one holder had.                                *)
LEMMA FreeKeeps ==
  ASSUME PoolInv, NEW S, free(S)
  PROVE  PoolInv'
<1>1. /\ S \in held
      /\ mem_state' = mem_state \cup S
      /\ held' = held \ {S}
  BY DEF free, Free
<1>2. S \subseteq Cells /\ S \cap mem_state = {}
  BY <1>1 DEF PoolInv, OneOwner
<1>3. mem_state' \subseteq Cells /\ held' \subseteq SUBSET Cells
  BY <1>1, <1>2 DEF PoolInv
<1>4. UNION held' = Cells \ mem_state'
  <2>1. \A T \in held \ {S} : T \cap S = {}
    BY <1>1 DEF PoolInv, OneOwner
  <2>2. UNION (held \ {S}) = (UNION held) \ S
    BY <2>1
  <2>3. QED
    BY <1>1, <2>2 DEF PoolInv, OneOwner
<1>5. \A T, U \in held' : T # U => T \cap U = {}
  BY <1>1 DEF PoolInv, OneOwner
<1>6. can_use_mem_size' = Cardinality(mem_state')
  <2>1. IsFiniteSet(mem_state) /\ IsFiniteSet(S)
    BY <1>2, PartFinite DEF PoolInv
  <2>2. Cardinality(mem_state \cup S)
          = Cardinality(mem_state) + Cardinality(S) - Cardinality(mem_state \cap S)
    BY <2>1, FS_Union
  <2>3. Cardinality(mem_state \cap S) = 0
    BY <1>2, mem_state \cap S = {}, FS_EmptySet
  <2>4. Cardinality(mem_state) \in Nat /\ Cardinality(S) \in Nat
    BY <2>1, FS_CardinalityType
  <2>5. QED
    BY <1>1, <2>2, <2>3, <2>4 DEF free, Free, PoolInv, OneOwner
<1>7. QED
  BY <1>3, <1>4, <1>5, <1>6, Cells = Cells' DEF PoolInv, OneOwner

(* A fresh pool, at the start or after free_all, is all free.              *)
LEMMA FreshPool ==
  /\ AllocInit => PoolInv
  /\ free_all => PoolInv'
  BY CellsFinite DEF AllocInit, PoolInit, free_all, PoolInv, OneOwner, Cells

LEMMA NextKeeps ==
  ASSUME PoolInv, [AllocNext]_allocVars
  PROVE  PoolInv'
<1>1. ASSUME NEW n \in Sizes, alloc(n)
      PROVE  PoolInv'
  BY <1>1, LowestFree, HandKeeps DEF alloc
<1>2. ASSUME NEW n \in Sizes, alloc_contiguous(n)
      PROVE  PoolInv'
  BY <1>2, FirstWindowFree, HandKeeps DEF alloc_contiguous
<1>3. ASSUME NEW b \in BlockSizes, NEW n \in Sizes, alloc_strip(n, b)
      PROVE  PoolInv'
  <2>1. StripStarts(b) \subseteq FreeStarts(b)
    BY DEF StripStarts
  <2>2. QED
    BY <1>3, <2>1, BlocksFree, HandKeeps DEF alloc_strip
<1>4. ASSUME NEW b \in BlockSizes, NEW n \in Sizes, alloc_grid(n, b)
      PROVE  PoolInv'
  <2>1. GridStarts(b) \subseteq FreeStarts(b)
    BY DEF GridStarts
  <2>2. QED
    BY <1>4, <2>1, BlocksFree, HandKeeps DEF alloc_grid
<1>5. ASSUME NEW S \in held, free(S)
      PROVE  PoolInv'
  BY <1>5, FreeKeeps
<1>6. CASE free_all
  BY <1>6, FreshPool
<1>7. CASE UNCHANGED allocVars
  BY <1>7 DEF allocVars, poolVars, PoolInv, OneOwner, Cells
<1>8. QED
  BY <1>1, <1>2, <1>3, <1>4, <1>5, <1>6, <1>7 DEF AllocNext

LEMMA AllocInvariant == AllocSpec => []PoolInv
<1>1. AllocInit => PoolInv
  BY FreshPool
<1>2. PoolInv /\ [AllocNext]_allocVars => PoolInv'
  BY NextKeeps
<1>3. QED
  BY <1>1, <1>2, PTL DEF AllocSpec

(* However allocations of any size and kind and returns are mixed, no cell *)
(* has two holders, none is lost, and the counter that alloc trusts is the *)
(* number of free cells (mem_allocator.py keeps counter and flags separately   *)
(* and compares them nowhere).                                             *)
THEOREM OwnershipIsExact == AllocSpec => []OneOwner
<1>1. PoolInv => OneOwner
  BY DEF PoolInv
<1>2. QED
  BY <1>1, AllocInvariant, PTL

(* The counter stays between zero and the size of the pool, although free  *)
(* adds whatever length it is given.                                       *)
THEOREM PoolTypes == AllocSpec => []TypeOK
<1>1. PoolInv => Cardinality(mem_state) \in 0 .. tot_size
  BY PartFinite DEF PoolInv
<1>2. PoolInv => TypeOK
  BY <1>1 DEF PoolInv, OneOwner, TypeOK
<1>3. QED
  BY <1>2, AllocInvariant, PTL

(* Windows that start at least their size apart do not overlap.            *)
LEMMA WindowsApart ==
  ASSUME NEW T \in SUBSET Nat, IsFiniteSet(T), NEW size \in Nat,
         \A s, t \in T : s < t => s + size <= t
  PROVE  Cardinality(UNION {Window(s, size) : s \in T}) = Cardinality(T) * size
<1> DEFINE Cover(V) == UNION {Window(s, size) : s \in V}
           Right(V) == /\ IsFiniteSet(Cover(V))
                       /\ Cardinality(Cover(V)) = Cardinality(V) * size
           C == {V \in SUBSET T : ~Right(V)}
<1>1. ASSUME NEW s \in T
      PROVE  IsFiniteSet(Window(s, size)) /\ Cardinality(Window(s, size)) = size
  <2>1. s \in Int /\ s + size - 1 \in Int
    OBVIOUS
  <2>2. /\ IsFiniteSet(s .. s + size - 1)
        /\ Cardinality(s .. s + size - 1)
              = IF s > s + size - 1 THEN 0 ELSE (s + size - 1) - s + 1
    BY <2>1, FS_Interval
  <2>3. CASE size = 0
    BY <2>2, <2>3 DEF Window
  <2>4. CASE size # 0
    BY <2>2, <2>4 DEF Window
  <2>5. QED
    BY <2>3, <2>4
<1>2. C = {}
  <2>1. SUFFICES ASSUME C # {} PROVE FALSE
    OBVIOUS
  <2>2. PICK V \in C : \A x \in V : V \ {x} \notin C
    <3>1. C \in SUBSET (SUBSET T)
      OBVIOUS
    <3>2. QED
      BY <2>1, <3>1, SmallestPart
  <2>3. V \in SUBSET T /\ IsFiniteSet(V) /\ Cardinality(V) \in Nat
    BY FS_Subset, FS_CardinalityType
  <2>4. CASE V = {}
    <3>1. Cover(V) = {}
      BY <2>4
    <3>2. Right(V)
      BY <2>4, <3>1, FS_EmptySet
    <3>3. QED
      BY <3>2
  <2>5. ASSUME NEW x \in V PROVE FALSE
    <3> DEFINE rest == V \ {x}
    <3>1. Right(rest)
      BY <2>2, <2>3
    <3>2. Cardinality(V) = Cardinality(rest) + 1 /\ Cardinality(rest) \in Nat
      <4>1. IsFiniteSet(rest) /\ Cardinality(rest) = Cardinality(V) - 1
        BY <2>3, FS_RemoveElement
      <4>2. QED
        BY <2>3, <4>1, FS_CardinalityType
    <3>3. Cover(V) = Cover(rest) \cup Window(x, size)
      BY <2>5
    <3>4. Cover(rest) \cap Window(x, size) = {}
      <4>1. ASSUME NEW s \in rest, NEW c \in Window(s, size), c \in Window(x, size)
            PROVE  FALSE
        <5>1. s \in Nat /\ x \in Nat /\ (s + size <= x \/ x + size <= s)
          BY <2>3
        <5>2. c \in Int /\ s <= c /\ c < s + size /\ x <= c /\ c < x + size
          BY <4>1, <5>1 DEF Window
        <5>3. QED
          BY <5>1, <5>2
      <4>2. QED
        BY <4>1
    <3>5. x \in T
      BY <2>3
    <3> HIDE DEF Cover, rest
    <3>6. /\ IsFiniteSet(Cover(V))
          /\ Cardinality(Cover(V))
               = Cardinality(Cover(rest)) + Cardinality(Window(x, size))
                   - Cardinality(Cover(rest) \cap Window(x, size))
      BY <1>1, <3>1, <3>3, <3>5, FS_Union
    <3>7. Cardinality(Cover(V)) = Cardinality(rest) * size + size
      <4>1. Cardinality(Cover(rest) \cap Window(x, size)) = 0
        BY <3>4, FS_EmptySet
      <4>2. Cardinality(Cover(rest)) = Cardinality(rest) * size
        BY <3>1
      <4>3. Cardinality(Cover(rest)) \in Nat
        BY <3>1, FS_CardinalityType
      <4>4. QED
        BY <1>1, <3>5, <3>6, <4>1, <4>2, <4>3
    <3>8. Cardinality(V) * size = Cardinality(rest) * size + size
      BY <3>2
    <3>9. Right(V)
      BY <3>6, <3>7, <3>8
    <3>10. QED
      BY <2>2, <3>9
  <2>6. QED
    BY <2>4, <2>5
<1>3. T \notin C
  BY <1>2
<1>4. QED
  BY <1>3

(* The first blocks of a list of starts that are a block's size apart.     *)
LEMMA BlocksSized ==
  ASSUME NEW T \in SUBSET Nat, IsFiniteSet(T), NEW size \in Nat,
         \A s, t \in T : s < t => s + size <= t,
         NEW n \in Nat, n <= Cardinality(T)
  PROVE  Cardinality(Blocks(T, n, size)) = n * size
<1>1. FirstOf(T, n) = Least(T, n)
  BY DEF FirstOf, Least, Rank
<1>2. FirstOf(T, n) \in SUBSET T /\ IsFiniteSet(FirstOf(T, n))
  BY FS_Subset DEF FirstOf
<1>3. n \in 0 .. Cardinality(T)
  BY FS_CardinalityType
<1>4. Cardinality(FirstOf(T, n)) = n
  BY <1>1, <1>3, LeastSized
<1>5. Cardinality(UNION {Window(s, size) : s \in FirstOf(T, n)})
        = Cardinality(FirstOf(T, n)) * size
  BY <1>2, WindowsApart
<1>6. QED
  BY <1>4, <1>5 DEF Blocks

(* Two multiples of a number are that number apart.                        *)
LEMMA MultiplesApart ==
  ASSUME NEW b \in Nat \ {0}, NEW x \in Nat, NEW y \in Nat,
         x % b = 0, y % b = 0, x < y
  PROVE  x + b <= y
<1>1. PICK k \in Nat : x = b * k
  <2>1. x = b * (x \div b) + (x % b) /\ x \div b \in Nat
    OBVIOUS
  <2>2. QED
    BY <2>1
<1>2. PICK m \in Nat : y = b * m
  <2>1. y = b * (y \div b) + (y % b) /\ y \div b \in Nat
    OBVIOUS
  <2>2. QED
    BY <2>1
<1>3. PICK d \in Nat : m = k + 1 + d
  <2>1. k < m
    <3>1. SUFFICES ASSUME m <= k PROVE FALSE
      OBVIOUS
    <3>2. PICK e \in Nat : k = m + e
      <4>1. k - m \in Nat /\ k = m + (k - m)
        BY <3>1
      <4>2. QED
        BY <4>1
    <3>3. b * k = b * m + b * e /\ b * e \in Nat /\ b * m \in Nat
      BY <3>2
    <3>4. QED
      BY <1>1, <1>2, <3>3
  <2>2. m - k - 1 \in Nat /\ m = k + 1 + (m - k - 1)
    BY <2>1
  <2>3. QED
    BY <2>2
<1>4. b * m = b * k + b + b * d /\ b * d \in Nat
  BY <1>3
<1>5. QED
  BY <1>1, <1>2, <1>4

LEMMA StartsFinite ==
  ASSUME NEW b \in Nat
  PROVE  FreeStarts(b) \in SUBSET Nat /\ IsFiniteSet(FreeStarts(b))
<1>1. 0 \in Int /\ tot_size - b \in Int
  BY SizeAssumption
<1>2. IsFiniteSet(0 .. tot_size - b)
  BY <1>1, FS_Interval
<1>3. FreeStarts(b) \subseteq 0 .. tot_size - b
  BY DEF FreeStarts
<1>4. IsFiniteSet(FreeStarts(b))
  BY <1>2, <1>3, FS_Subset
<1>5. FreeStarts(b) \subseteq Nat
  BY SizeAssumption DEF FreeStarts
<1>6. QED
  BY <1>4, <1>5

(* Every block_size-th start, counted across runs of free cells, is a      *)
(* block away from the one before: between two of them lie block_size - 1  *)
(* other starts, in a run or not.                                          *)
LEMMA StripApart ==
  ASSUME NEW b \in Nat \ {0}, NEW s \in StripStarts(b), NEW t \in StripStarts(b), s < t
  PROVE  s + b <= t
<1> DEFINE S == FreeStarts(b)
<1>1. S \in SUBSET Nat /\ IsFiniteSet(S)
  BY StartsFinite
<1>2. /\ s \in S /\ t \in S
      /\ (Rank(S, s) - 1) % b = 0 /\ (Rank(S, t) - 1) % b = 0
  BY DEF StripStarts, Rank
<1> HIDE DEF S
<1>3. s \in Nat /\ t \in Nat
  BY <1>1, <1>2
<1>4. /\ Rank(S, s) \in Nat \ {0} /\ Rank(S, t) \in Nat \ {0}
      /\ Rank(S, s) < Rank(S, t)
  BY <1>1, <1>2, RankIsPlace
<1>5. (Rank(S, s) - 1) + b <= Rank(S, t) - 1
  <2>1. Rank(S, s) - 1 \in Nat /\ Rank(S, t) - 1 \in Nat
        /\ Rank(S, s) - 1 < Rank(S, t) - 1
    BY <1>4
  <2>2. QED
    BY <1>2, <2>1, MultiplesApart
<1>6. Rank(S, t) <= Rank(S, s) + (t - s)
  <2> DEFINE low == {u \in S : u <= s}
             mid == s + 1 .. t
             all == {u \in S : u <= t}
  <2>1. all \subseteq low \cup mid
    <3>1. ASSUME NEW u \in S, u <= t, ~(u <= s) PROVE u \in s + 1 .. t
      <4>1. u \in Nat
        BY <1>1
      <4>2. QED
        BY <1>3, <3>1, <4>1
    <3>2. QED
      BY <3>1
  <2>2. IsFiniteSet(low) /\ Cardinality(low) \in Nat
    BY <1>1, FS_Subset, FS_CardinalityType
  <2>3. IsFiniteSet(mid) /\ Cardinality(mid) = t - s
    <3>1. s + 1 \in Int /\ t \in Int /\ ~(s + 1 > t) /\ t - (s + 1) + 1 = t - s
      BY <1>3
    <3>2. IsFiniteSet(mid) /\ Cardinality(mid) = t - (s + 1) + 1
      BY <3>1, FS_Interval
    <3>3. QED
      BY <3>1, <3>2
  <2>4. Rank(S, t) = Cardinality(all) /\ Rank(S, s) = Cardinality(low)
    BY DEF Rank
  <2> HIDE DEF low, mid, all
  <2>5. /\ IsFiniteSet(low \cup mid)
        /\ Cardinality(low \cup mid)
             = Cardinality(low) + Cardinality(mid) - Cardinality(low \cap mid)
    BY <2>2, <2>3, FS_Union
  <2>6. Cardinality(low \cap mid) \in Nat
    BY <2>2, FS_Subset, FS_CardinalityType
  <2>7. Cardinality(all) <= Cardinality(low \cup mid)
    BY <2>1, <2>5, FS_Subset
  <2>8. QED
    BY <1>3, <1>4, <2>2, <2>3, <2>4, <2>5, <2>6, <2>7
<1>7. QED
  BY <1>3, <1>4, <1>5, <1>6

(* A caller gets what it was promised: alloc as many cells as it asks for, *)
(* alloc_strip and alloc_grid as many blocks, which do not overlap         *)
(* although alloc_strip counts its starts across runs of free cells.       *)
THEOREM PromisesKept == AllocSpec => []FullSize
<1>1. ASSUME PoolInv PROVE FullSize
  <2>1. mem_state \in SUBSET Nat /\ IsFiniteSet(mem_state) /\ Cardinality(mem_state) \in Nat
    <3>1. mem_state \subseteq Cells
      BY <1>1 DEF PoolInv
    <3>2. \A c \in Cells : c \in Nat
      BY SizeAssumption DEF Cells
    <3>3. IsFiniteSet(mem_state) /\ Cardinality(mem_state) \in 0 .. tot_size
      BY <3>1, PartFinite
    <3>4. mem_state \in SUBSET Nat
      BY <3>1, <3>2
    <3>5. QED
      BY <3>3, <3>4, SizeAssumption
  <2>2. ASSUME NEW n \in Sizes, HasRoom(n)
        PROVE  Cardinality(Lowest(n)) = n
    <3>1. n \in 0 .. Cardinality(mem_state)
      BY <1>1, <2>1, <2>2, RequestsAssumption DEF HasRoom, PoolInv, OneOwner
    <3>2. Lowest(n) = Least(mem_state, n)
      BY DEF Lowest, Least, Rank
    <3>3. QED
      BY <2>1, <3>1, <3>2, LeastSized
  <2>3. ASSUME NEW b \in BlockSizes
        PROVE  FreeStarts(b) \in SUBSET Nat /\ IsFiniteSet(FreeStarts(b))
    BY RequestsAssumption, StartsFinite
  <2>4. ASSUME NEW b \in BlockSizes, NEW n \in Sizes, NEW T,
               T \subseteq FreeStarts(b),
               b # 0 => \A s, t \in T : s < t => s + b <= t,
               Cardinality(T) >= n
        PROVE  Cardinality(Blocks(T, n, b)) = n * b
    <3>1. T \in SUBSET Nat /\ IsFiniteSet(T) /\ b \in Nat /\ n \in Nat
      BY <2>3, <2>4, FS_Subset, RequestsAssumption
    <3>2. Cardinality(T) \in Nat
      BY <3>1, FS_CardinalityType
    <3>3. \A s, t \in T : s < t => s + b <= t
      BY <2>4, <3>1
    <3>4. QED
      BY <2>4, <3>1, <3>2, <3>3, BlocksSized
  <2>5. ASSUME NEW b \in BlockSizes, NEW n \in Sizes,
               Cardinality(StripStarts(b)) >= n
        PROVE  Cardinality(Blocks(StripStarts(b), n, b)) = n * b
    <3>1. StripStarts(b) \subseteq FreeStarts(b)
      BY DEF StripStarts
    <3>2. b # 0 => \A s, t \in StripStarts(b) : s < t => s + b <= t
      BY RequestsAssumption, StripApart
    <3>3. QED
      BY <2>4, <2>5, <3>1, <3>2
  <2>6. ASSUME NEW b \in BlockSizes, NEW n \in Sizes,
               Cardinality(GridStarts(b)) >= n
        PROVE  Cardinality(Blocks(GridStarts(b), n, b)) = n * b
    <3>1. GridStarts(b) \subseteq FreeStarts(b)
      BY DEF GridStarts
    <3>2. ASSUME b # 0, NEW s \in GridStarts(b), NEW t \in GridStarts(b), s < t
          PROVE  s + b <= t
      <4>1. s \in Nat /\ t \in Nat /\ s % b = 0 /\ t % b = 0 /\ b \in Nat \ {0}
        BY <2>3, <3>1, <3>2, RequestsAssumption DEF GridStarts
      <4>2. QED
        BY <3>2, <4>1, MultiplesApart
    <3>3. QED
      BY <2>4, <2>6, <3>1, <3>2
  <2>7. QED
    BY <2>2, <2>5, <2>6 DEF FullSize
<1>2. QED
  BY <1>1, AllocInvariant, PTL

-----------------------------------------------------------------------------
(* The admission estimate (AdmissionCheck).                                *)

(* Which mixes of requests the steps bring about: nobody who is to join    *)
(* has a token, everybody who runs has one and another to come.            *)
CheckInv ==
  /\ current \subseteq Req /\ joining \subseteq Req /\ current \cap joining = {}
  /\ outputs \in [Req -> Nat]
  /\ \A r \in joining : outputs[r] = 0
  /\ \A r \in current : outputs[r] # 0 /\ outputs[r] < max_output_len[r]

(* A round of tokens leaves nobody running who has had his last.           *)
LEMMA GenerateKeeps ==
  ASSUME CheckInv, NEW reqs \in SUBSET (current \cup joining), NEW F \in SUBSET reqs,
         Generate(reqs, F)
  PROVE  /\ outputs' \in [Req -> Nat]
         /\ current' \subseteq Req
         /\ current' \subseteq current \cup reqs
         /\ \A r \in Req \ reqs : outputs'[r] = outputs[r]
         /\ \A r \in reqs : outputs'[r] = outputs[r] + 1
         /\ \A r \in current' : outputs'[r] # 0 /\ outputs'[r] < max_output_len[r]
<1>1. reqs \in SUBSET Req /\ current \in SUBSET Req
  BY DEF CheckInv
<1>2. /\ outputs' \in [Req -> Nat]
      /\ \A r \in Req \ reqs : outputs'[r] = outputs[r]
      /\ \A r \in reqs : outputs'[r] = outputs[r] + 1
  BY <1>1 DEF Generate, CheckInv
<1>3. current' \subseteq Req /\ current' \subseteq current \cup reqs
  BY <1>1 DEF Generate
<1>4. ASSUME NEW r \in current'
      PROVE  outputs'[r] # 0 /\ outputs'[r] < max_output_len[r]
  <2>1. r \in Req /\ outputs[r] \in Nat /\ max_output_len[r] \in Nat
    BY <1>3, RequestAssumption DEF CheckInv
  <2>2. CASE r \in reqs
    <3>1. r \notin F
      BY <2>2 DEF Generate
    <3>2. ~(outputs[r] + 1 >= max_output_len[r])
      BY <2>2, <3>1 DEF Generate
    <3>3. QED
      BY <1>2, <2>1, <2>2, <3>2
  <2>3. CASE r \notin reqs
    BY <1>2, <1>3, <2>1, <2>3 DEF CheckInv
  <2>4. QED
    BY <2>2, <2>3
<1>5. QED
  BY <1>2, <1>3, <1>4

LEMMA CheckStep == CheckInv /\ [CheckNext]_checkVars => CheckInv'
<1> SUFFICES ASSUME CheckInv, [CheckNext]_checkVars PROVE CheckInv'
  OBVIOUS
<1>1. ASSUME NEW r \in Req, Take(r) PROVE CheckInv'
  BY <1>1 DEF Take, CheckInv
<1>2. ASSUME NEW F \in SUBSET joining, Prefill(F) PROVE CheckInv'
  <2>1. Generate(joining, F) /\ joining' = {}
    BY <1>2 DEF Prefill
  <2>2. QED
    BY <2>1, GenerateKeeps DEF CheckInv
<1>3. ASSUME NEW F \in SUBSET current, Decode(F) PROVE CheckInv'
  <2>1. Generate(current, F) /\ joining' = {}
    BY <1>3 DEF Decode
  <2>2. QED
    BY <2>1, GenerateKeeps DEF CheckInv
<1>4. CASE UNCHANGED checkVars
  BY <1>4 DEF checkVars, CheckInv
<1>5. QED
  BY <1>1, <1>2, <1>3, <1>4 DEF CheckNext

LEMMA CheckInvariant == CheckSpec => []CheckInv
<1>1. CheckInit => CheckInv
  BY DEF CheckInit, CheckInv
<1>2. QED
  BY <1>1, CheckStep, PTL DEF CheckSpec

(* The list built for such a mix has the entries the peaks are made of.    *)
LEMMA CacheOK ==
  ASSUME CheckInv
  PROVE  /\ current \cup joining \in SUBSET Req
         /\ DOMAIN Cache = current \cup joining
         /\ IsCacheOf(Cache, outputs, current \cup joining)
         /\ \A r \in current \cup joining : LeftOut(outputs, r) \in Nat
<1>1. current \cup joining \in SUBSET Req /\ DOMAIN Cache = current \cup joining
  BY DEF CheckInv, Cache, CacheLenList
<1>2. ASSUME NEW r \in current \cup joining
      PROVE  /\ Cache[r].has_run = HasRun(outputs, r)
             /\ Cache[r].left = LeftOut(outputs, r)
             /\ LeftOut(outputs, r) \in Nat
  <2>1. /\ r \in Req /\ outputs[r] \in Nat
        /\ max_output_len[r] \in Nat \ {0} /\ input_len[r] \in Nat
    BY <1>1, RequestAssumption DEF CheckInv
  <2>2. CASE r \in current
    <3>1. Cache[r] = RunningEntry(r, outputs[r]) /\ outputs[r] # 0 /\ outputs[r] < max_output_len[r]
      BY <2>2 DEF CheckInv, Cache, CacheLenList
    <3>2. QED
      BY <2>1, <3>1 DEF RunningEntry, HasRun, LeftOut
  <2>3. CASE r \notin current
    <3>1. Cache[r] = NewEntry(r) /\ outputs[r] = 0
      BY <2>3 DEF CheckInv, Cache, CacheLenList
    <3>2. QED
      BY <2>1, <3>1 DEF NewEntry, HasRun, LeftOut
  <2>4. QED
    BY <2>2, <2>3
<1>3. QED
  BY <1>1, <1>2 DEF IsCacheOf

(* The cells held t steps from now are the peak t steps from now.          *)
LEMMA HeldAfterIsPeak ==
  ASSUME CheckInv, NEW t \in Nat
  PROVE  HeldAfter(t) = Peak(outputs, current \cup joining, t)
<1>1. /\ current \cup joining \in SUBSET Req
      /\ IsCacheOf(Cache, outputs, current \cup joining)
      /\ outputs \in [Req -> Nat]
  BY CacheOK DEF CheckInv
<1>2. QED
  BY <1>1, HeldIsPeakLater DEF HeldAfter

LEMMA PeakEstimate ==
  ASSUME CheckInv, DOMAIN Cache # {}
  PROVE  Estimate = Max({HeldAfter(t) : t \in 0 .. LongestLeft})
<1> DEFINE B == current \cup joining
<1>1. /\ B \in SUBSET Req /\ B # {} /\ DOMAIN Cache = B
      /\ IsCacheOf(Cache, outputs, B)
      /\ outputs \in [Req -> Nat]
      /\ \A r \in B : LeftOut(outputs, r) \in Nat
  BY CacheOK DEF CheckInv
<1>2. Estimate = NeedMaxTokenNum(Cache)
  BY DEF Estimate
<1>3. LongestLeft = Max({LeftOut(outputs, r) : r \in B})
  <2>1. {Cache[r].left : r \in DOMAIN Cache} = {LeftOut(outputs, r) : r \in B}
    BY <1>1 DEF IsCacheOf
  <2>2. QED
    BY <2>1 DEF LongestLeft
<1>4. NeedMaxTokenNum(Cache) = Max({Peak(outputs, B, t) : t \in 0 .. LongestLeft})
  <2> HIDE DEF B
  <2>1. QED
    BY <1>1, <1>3, EstimateIsLargest
<1>5. {Peak(outputs, B, t) : t \in 0 .. LongestLeft} = {HeldAfter(t) : t \in 0 .. LongestLeft}
  <2>1. ASSUME NEW t \in 0 .. LongestLeft PROVE HeldAfter(t) = Peak(outputs, B, t)
    <3>1. t \in Nat
      OBVIOUS
    <3>2. QED
      BY <3>1, HeldAfterIsPeak
  <2>2. QED
    BY <2>1
<1>6. QED
  BY <1>2, <1>4, <1>5

(* The estimate of _can_add_new_req, a maximum over the entries of a list, *)
(* is exactly the largest number of cells the batch can come to hold at    *)
(* any later step, for any requests of any lengths, running or to join.    *)
THEOREM EstimateIsExact == CheckSpec => []EstimateIsPeak
<1>1. CheckInv => EstimateIsPeak
  BY PeakEstimate DEF EstimateIsPeak
<1>2. QED
  BY <1>1, CheckInvariant, PTL

LEMMA EstimateNat ==
  ASSUME CheckInv
  PROVE  Estimate \in Nat
<1>1. CASE DOMAIN Cache = {}
  BY <1>1 DEF Estimate
<1>2. CASE DOMAIN Cache # {}
  BY <1>2, CacheOK, EstimateIsHighest DEF Estimate, CheckInv
<1>3. QED
  BY <1>1, <1>2

CacheShape ==
  /\ DOMAIN Cache = current \cup joining
  /\ IsCacheOf(Cache, outputs, current \cup joining)
  /\ outputs \in [Req -> Nat]
  /\ \A r \in current \cup joining : LeftOut(outputs, r) \in Nat

LEMMA CacheShaped == CheckInv => CacheShape
  BY CacheOK DEF CheckInv, CacheShape

(* A round of tokens for some requests of the batch, k being whether they  *)
(* already had one.                                                        *)
LEMMA RoundShrinks ==
  ASSUME CheckInv, CheckInv', NEW k \in Nat,
         current' \cup joining' \subseteq current \cup joining,
         \A r \in current' \cup joining' :
           /\ HasRun(outputs', r) <= HasRun(outputs, r) + k
           /\ LeftOut(outputs', r) + k <= LeftOut(outputs, r)
  PROVE  Estimate' <= Estimate
<1> DEFINE B == current \cup joining
           A == current' \cup joining'
<1>1. /\ B \in SUBSET Req /\ DOMAIN Cache = B
      /\ IsCacheOf(Cache, outputs, B)
      /\ outputs \in [Req -> Nat]
      /\ \A r \in B : LeftOut(outputs, r) \in Nat
  BY CacheOK DEF CheckInv
<1>2. /\ DOMAIN Cache' = A
      /\ IsCacheOf(Cache', outputs', A)
      /\ outputs' \in [Req -> Nat]
      /\ \A r \in A : LeftOut(outputs', r) \in Nat
  <2>1. CheckInv' => CacheShape'
    BY CacheShaped, PTL
  <2>2. CacheShape'
    BY <2>1
  <2>3. QED
    BY <2>2 DEF CacheShape, IsCacheOf, LeftOut, HasRun
<1>3. Estimate \in Nat
  BY EstimateNat
<1>4. CASE A = {}
  <2>1. Estimate' = 0
    BY <1>2, <1>4 DEF Estimate
  <2>2. QED
    BY <1>3, <2>1
<1>5. CASE A # {}
  <2>1. Estimate' = NeedMaxTokenNum(Cache') /\ Estimate = NeedMaxTokenNum(Cache)
    BY <1>1, <1>2, <1>5 DEF Estimate
  <2> HIDE DEF A, B
  <2>2. A \in SUBSET B
    BY DEF A, B
  <2>3. NeedMaxTokenNum(Cache') <= NeedMaxTokenNum(Cache)
    BY <1>1, <1>2, <1>5, <2>2, EstimateShrinks DEF A
  <2>4. QED
    BY <2>1, <2>3
<1>6. QED
  BY <1>4, <1>5

LEMMA StepShrinks ==
  ASSUME CheckInv, CheckInv', [CheckNext]_checkVars,
         \A r \in Req : r \in joining' => r \in joining
  PROVE  Estimate' <= Estimate
<1>1. ASSUME NEW r \in Req, Take(r) PROVE FALSE
  BY <1>1 DEF Take
<1>2. ASSUME NEW F \in SUBSET joining, Prefill(F) PROVE Estimate' <= Estimate
  <2>1. Generate(joining, F) /\ joining' = {}
    BY <1>2 DEF Prefill
  <2>2. current' \subseteq current \cup joining
    BY <2>1, GenerateKeeps
  <2>3. ASSUME NEW r \in current'
        PROVE  /\ HasRun(outputs', r) <= HasRun(outputs, r) + 0
               /\ LeftOut(outputs', r) + 0 <= LeftOut(outputs, r)
    <3>1. /\ r \in Req /\ outputs[r] \in Nat
          /\ input_len[r] \in Nat /\ max_output_len[r] \in Nat
      BY <2>2, RequestAssumption DEF CheckInv
    <3>2. CASE r \in joining
      <4>1. outputs[r] = 0 /\ outputs'[r] = 1
        BY <2>1, <3>2, GenerateKeeps DEF CheckInv
      <4>2. QED
        BY <3>1, <4>1 DEF HasRun, LeftOut
    <3>3. CASE r \notin joining
      <4>1. outputs'[r] = outputs[r]
        BY <2>1, <3>1, <3>3, GenerateKeeps
      <4>2. QED
        BY <3>1, <4>1 DEF HasRun, LeftOut
    <3>4. QED
      BY <3>2, <3>3
  <2>4. QED
    BY <2>1, <2>2, <2>3, RoundShrinks
<1>3. ASSUME NEW F \in SUBSET current, Decode(F) PROVE Estimate' <= Estimate
  <2>1. Generate(current, F) /\ joining' = {} /\ joining = {}
    BY <1>3 DEF Decode
  <2>2. current' \subseteq current
    BY <2>1, GenerateKeeps
  <2>3. ASSUME NEW r \in current'
        PROVE  /\ HasRun(outputs', r) <= HasRun(outputs, r) + 1
               /\ LeftOut(outputs', r) + 1 <= LeftOut(outputs, r)
    <3>1. /\ r \in Req /\ outputs[r] \in Nat /\ outputs[r] # 0
          /\ input_len[r] \in Nat /\ max_output_len[r] \in Nat
      BY <2>2, RequestAssumption DEF CheckInv
    <3>2. outputs'[r] = outputs[r] + 1
      BY <2>1, <2>2, GenerateKeeps
    <3>3. QED
      BY <3>1, <3>2 DEF HasRun, LeftOut
  <2>4. QED
    BY <2>1, <2>2, <2>3, RoundShrinks
<1>4. CASE UNCHANGED checkVars
  <2>1. Cache' = Cache
    BY <1>4 DEF checkVars, Cache
  <2>2. Estimate' = Estimate
    BY <2>1 DEF Estimate
  <2>3. QED
    BY <2>2, EstimateNat
<1>5. QED
  BY <1>1, <1>2, <1>3, <1>4 DEF CheckNext

(* Nobody joining, no step raises the estimate: neither first tokens nor   *)
(* decode steps, whoever stops early.  So a batch that was admitted stays  *)
(* admissible, and the next candidate is judged from a sound figure.       *)
THEOREM EstimateSinks == CheckSpec => EstimateNeverGrows
<1>1. CheckInv /\ CheckInv' /\ [CheckNext]_checkVars
        => [(\A r \in Req : r \in joining' => r \in joining)
              => Estimate' <= Estimate]_checkVars
  BY StepShrinks
<1>2. QED
  BY <1>1, CheckInvariant, PTL DEF CheckSpec, EstimateNeverGrows

(* A sorted list of the code is one in the sense of Lists.                 *)
LEMMA SortedListsListed ==
  ASSUME CheckInv, NEW s \in SortedLists
  PROVE  /\ s \in Lists(current \cup joining)
         /\ ByLeft(s, outputs, Cardinality(current \cup joining))
         /\ Len(s) = Cardinality(current \cup joining)
<1> DEFINE B == current \cup joining
           n == Cardinality(B)
<1>1. DOMAIN Cache = B /\ B \in SUBSET Req /\ IsCacheOf(Cache, outputs, B)
  BY CacheOK
<1>2. n \in Nat
  BY <1>1, PartsFinite
<1>3. /\ s \in Lists(B)
      /\ \A i \in 2 .. Len(s) : Cache[s[i - 1]].left >= Cache[s[i]].left
  BY <1>1 DEF SortedLists, SetToSeqs, Lists
<1>4. Len(s) = n
  <2> HIDE DEF n, B
  <2>1. s \in [1 .. n -> B]
    BY <1>3 DEF Lists, n
  <2>2. QED
    BY <1>2, <2>1
<1>5. ASSUME NEW i \in 2 .. n PROVE LeftOut(outputs, s[i - 1]) >= LeftOut(outputs, s[i])
  <2>1. i - 1 \in 1 .. n /\ i \in 1 .. n
    BY <1>2
  <2>2. s[i - 1] \in B /\ s[i] \in B
    BY <1>3, <2>1 DEF Lists
  <2>3. QED
    BY <1>1, <1>3, <1>4, <2>2 DEF IsCacheOf
<1>6. QED
  BY <1>3, <1>4, <1>5 DEF ByLeft

LEMMA ListEstimate ==
  ASSUME CheckInv, DOMAIN Cache # {}, NEW s \in SortedLists
  PROVE  Estimate = ListNeed(s)
<1> DEFINE B == current \cup joining
           n == Cardinality(B)
<1>1. /\ B \in SUBSET Req /\ B # {} /\ DOMAIN Cache = B
      /\ IsCacheOf(Cache, outputs, B)
      /\ outputs \in [Req -> Nat]
      /\ \A r \in B : LeftOut(outputs, r) \in Nat
  BY CacheOK DEF CheckInv
<1>2. n \in Nat
  BY <1>1, PartsFinite
<1>3. /\ s \in Lists(B) /\ s \in [1 .. n -> B]
      /\ ByLeft(s, outputs, n) /\ Len(s) = n
  BY SortedListsListed DEF Lists
<1> HIDE DEF B
<1>4. NeedMaxTokenNum(Cache) = Max({NeedUpTo(outputs, s, n, k) : k \in 1 .. n})
  <2>1. /\ outputs \in [Req -> Nat] /\ B \in SUBSET Req /\ B # {}
        /\ IsCacheOf(Cache, outputs, B)
        /\ \A x \in B : LeftOut(outputs, x) \in Nat
        /\ s \in Lists(B) /\ ByLeft(s, outputs, Cardinality(B))
    BY <1>1, <1>3
  <2>2. QED
    BY <2>1, ListNeedIsEstimate DEF n
<1> HIDE DEF n
<1>5. ASSUME NEW k \in 1 .. n
      PROVE  Cache[s[k]].left * k + CumRunLen(s, k) = NeedUpTo(outputs, s, n, k)
  <2>1. CumRunLen(s, k) = RunUpTo(outputs, s, n, k)
    <3>1. /\ outputs \in [Req -> Nat] /\ B \in SUBSET Req /\ IsCacheOf(Cache, outputs, B)
          /\ n \in Nat /\ s \in [1 .. n -> B] /\ k \in 1 .. n
      BY <1>1, <1>2, <1>3
    <3>2. CumFold(Cache, s, 1 .. k)[1 .. k] = RunUpTo(outputs, s, n, k)
      BY <3>1, CumIsRunUpTo
    <3>3. CumRunLen(s, k) = CumFold(Cache, s, 1 .. k)[1 .. k]
      BY DEF CumRunLen, MapThenSumSet, MapThenFoldSet, Some, CumFold
    <3>4. QED
      BY <3>2, <3>3
  <2>2. Cache[s[k]].left = LeftOut(outputs, s[k])
    BY <1>1, <1>3 DEF IsCacheOf
  <2>3. QED
    BY <2>1, <2>2 DEF NeedUpTo
<1>6. {Cache[s[k]].left * k + CumRunLen(s, k) : k \in 1 .. Len(s)}
        = {NeedUpTo(outputs, s, n, k) : k \in 1 .. n}
  BY <1>3, <1>5
<1>7. QED
  BY <1>1, <1>4, <1>6 DEF Estimate, ListNeed

(* The array arithmetic of _can_add_new_req, a sort and a running sum,     *)
(* computes the same whichever way the sort orders entries with equally    *)
(* many tokens left: what each entry needs with all that last as long.     *)
THEOREM EstimateIsOfList == CheckSpec => []EstimateIsListNeed
<1>1. CheckInv => EstimateIsListNeed
  BY ListEstimate DEF EstimateIsListNeed
<1>2. QED
  BY <1>1, CheckInvariant, PTL

-----------------------------------------------------------------------------
(* The adapters' arrays (AdapterPool).                                     *)

(* What sets without a common element hold is what they hold one by one.   *)
SizedBy(f, F, T) ==
  /\ IsFiniteSet(UNION {F[x] : x \in T})
  /\ Cardinality(UNION {F[x] : x \in T}) = SumOver(f, T)

LEMMA PartsAdd ==
  ASSUME NEW S, IsFiniteSet(S), NEW f \in [S -> Nat], NEW F,
         \A x \in S : IsFiniteSet(F[x]) /\ Cardinality(F[x]) = f[x],
         \A x, y \in S : x # y => F[x] \cap F[y] = {},
         NEW T \in SUBSET S
  PROVE  SizedBy(f, F, T)
<1> DEFINE all(V) == UNION {F[x] : x \in V}
           Right(V) == IsFiniteSet(all(V)) /\ Cardinality(all(V)) = SumOver(f, V)
           D == {V \in SUBSET S : ~Right(V)}
<1>1. D = {}
  <2>1. SUFFICES ASSUME D # {} PROVE FALSE
    OBVIOUS
  <2>2. PICK V \in D : \A x \in V : V \ {x} \notin D
    <3>1. D \in SUBSET (SUBSET S)
      OBVIOUS
    <3> HIDE DEF D
    <3>2. QED
      BY <2>1, <3>1, SmallestPart
  <2>3. V \in SUBSET S /\ ~Right(V)
    BY <2>2
  <2>4. V # {}
    <3>1. all({}) = {} /\ Cardinality({}) = 0 /\ IsFiniteSet({}) /\ SumOver(f, {}) = 0
      BY FS_EmptySet, SumEmpty
    <3>2. Right({})
      BY <3>1
    <3>3. QED
      BY <2>3, <3>2
  <2>5. PICK x \in V : TRUE
    BY <2>4
  <2>6. all(V) = all(V \ {x}) \cup F[x]
    BY <2>5
  <2>7. V \ {x} \in SUBSET S /\ x \in S /\ Right(V \ {x})
    BY <2>2, <2>3, <2>5
  <2>8. SumOver(f, V) = f[x] + SumOver(f, V \ {x})
    BY <2>3, <2>5, SumTake
  <2>9. IsFiniteSet(F[x]) /\ Cardinality(F[x]) = f[x] /\ f[x] \in Nat
    BY <2>7
  <2>10. SumOver(f, V \ {x}) \in Nat
    BY <2>7, SumNat
  <2> DEFINE A == all(V \ {x})
             B == F[x]
  <2>11. /\ IsFiniteSet(A) /\ Cardinality(A) = SumOver(f, V \ {x})
         /\ IsFiniteSet(B) /\ Cardinality(B) = f[x]
    BY <2>7, <2>9
  <2>12. A \cap B = {}
    BY <2>3, <2>7
  <2> HIDE DEF A, B
  <2>13. /\ IsFiniteSet(A \cup B)
         /\ Cardinality(A \cup B) = Cardinality(A) + Cardinality(B) - Cardinality({})
    BY <2>11, <2>12, FS_Union
  <2>14. IsFiniteSet(A \cup B) /\ Cardinality(A \cup B) = SumOver(f, V)
    BY <2>8, <2>9, <2>10, <2>11, <2>13, FS_EmptySet
  <2>15. Right(V)
    BY <2>6, <2>14 DEF A, B
  <2>16. QED
    BY <2>3, <2>15
<1>2. Right(T)
  BY <1>1
<1>3. QED
  BY <1>2 DEF SizedBy

(* Sorted lists a set, each member once.                                   *)
LEMMA SortedIs ==
  ASSUME NEW S \in SUBSET Nat, IsFiniteSet(S)
  PROVE  /\ Cardinality(S) \in Nat
         /\ Sorted(S) \in [1 .. Cardinality(S) -> S]
         /\ \A k, l \in 1 .. Cardinality(S) : Sorted(S)[k] = Sorted(S)[l] => k = l
         /\ \A c \in S : \E k \in 1 .. Cardinality(S) : Sorted(S)[k] = c
<1> DEFINE n == Cardinality(S)
           D == 1 .. n
<1>1. Cardinality(S) \in Nat
  BY FS_CardinalityType
<1>2. ASSUME NEW k \in D
      PROVE  Sorted(S)[k] \in S /\ Rank(S, Sorted(S)[k]) = k
  <2>1. \E c \in S : Rank(S, c) = k
    BY RankTaken
  <2>2. Sorted(S)[k] = CHOOSE c \in S : Rank(S, c) = k
    BY DEF Sorted, Rank
  <2>3. QED
    BY <2>1, <2>2
<1>3. Sorted(S) = [k \in D |-> Sorted(S)[k]]
  BY DEF Sorted
<1>4. Sorted(S) \in [D -> S]
  BY <1>2, <1>3
<1>5. ASSUME NEW k \in D, NEW l \in D, Sorted(S)[k] = Sorted(S)[l] PROVE k = l
  BY <1>2, <1>5
<1>6. ASSUME NEW c \in S PROVE \E k \in D : Sorted(S)[k] = c
  <2>1. Rank(S, c) \in D
    BY RankIsPlace
  <2> DEFINE d == Sorted(S)[Rank(S, c)]
  <2>2. d \in S /\ Rank(S, d) = Rank(S, c)
    BY <1>2, <2>1
  <2> HIDE DEF d
  <2>3. d = c
    BY <2>2, RankUnique
  <2>4. PICK k \in D : k = Rank(S, c)
    BY <2>1
  <2>5. QED
    BY <2>3, <2>4 DEF d
<1>7. QED
  BY <1>1, <1>4, <1>5, <1>6

(* Running sums.                                                           *)
LEMMA SumBeforeIs ==
  ASSUME NEW n \in Nat, NEW len \in [1 .. n -> Nat]
  PROVE  /\ SumBefore(len, 1) = 0
         /\ \A i \in 1 .. n + 1 : SumBefore(len, i) \in Nat
         /\ \A i \in 1 .. n : SumBefore(len, i + 1) = SumBefore(len, i) + len[i]
         /\ \A i, j \in 1 .. n + 1 : i <= j => SumBefore(len, i) <= SumBefore(len, j)
<1> DEFINE I == 1 .. n
<1>1. IsFiniteSet(I)
  BY FirstNumbers
<1>2. \A i : SumBefore(len, i) = SumOver(len, 1 .. i - 1)
  BY DEF SumBefore, SumOver
<1>3. SumBefore(len, 1) = 0
  <2>1. 1 .. 1 - 1 = {}
    OBVIOUS
  <2> HIDE DEF I
  <2>2. SumOver(len, {}) = 0
    BY <1>1, SumEmpty DEF I
  <2>3. QED
    BY <1>2, <2>1, <2>2
<1>4. ASSUME NEW i \in 1 .. n + 1 PROVE SumBefore(len, i) \in Nat
  <2>1. 1 .. i - 1 \in SUBSET I
    OBVIOUS
  <2>2. SumOver(len, 1 .. i - 1) \in Nat
    BY <1>1, <2>1, SumNat
  <2>3. QED
    BY <1>2, <2>2
<1>5. ASSUME NEW i \in 1 .. n
      PROVE  SumBefore(len, i + 1) = SumBefore(len, i) + len[i]
  <2>1. SumOver(len, 1 .. i) = len[i] + SumOver(len, 1 .. (i - 1))
    BY SumUpTo
  <2>2. (i + 1) - 1 = i /\ i \in 1 .. n + 1 /\ len[i] \in Nat
    OBVIOUS
  <2>3. SumBefore(len, i) \in Nat
    BY <1>4, <2>2
  <2>4. SumBefore(len, i) = SumOver(len, 1 .. (i - 1))
    BY <1>2
  <2>5. SumBefore(len, i + 1) = SumOver(len, 1 .. i)
    BY <1>2, <2>2
  <2>6. QED
    BY <2>1, <2>2, <2>3, <2>4, <2>5
<1>6. ASSUME NEW i \in 1 .. n + 1, NEW j \in 1 .. n + 1, i <= j
      PROVE  SumBefore(len, i) <= SumBefore(len, j)
  <2>1. /\ 1 .. i - 1 \in SUBSET I /\ 1 .. j - 1 \in SUBSET I
        /\ 1 .. i - 1 \subseteq 1 .. j - 1
    BY <1>6
  <2>2. \A x \in I : len[x] <= len[x]
    OBVIOUS
  <2>3. SumOver(len, 1 .. i - 1) <= SumOver(len, 1 .. j - 1)
    BY <1>1, <2>1, <2>2, SumGrows
  <2>4. QED
    BY <1>2, <2>3
<1>7. QED
  BY <1>3, <1>4, <1>5, <1>6

(* The pieces 1..n, one after another, from the place after lo up to hi.   *)
Tiles(start, len, n, lo, hi) ==
  /\ start \in [1 .. n -> Nat] /\ len \in [1 .. n -> Nat]
  /\ lo \in Nat /\ hi \in Nat /\ lo <= hi
  /\ \A i \in 1 .. n : lo <= start[i] /\ start[i] + len[i] <= hi
  /\ \A i, j \in 1 .. n : i < j => start[i] + len[i] <= start[j]
  /\ \A p \in lo + 1 .. hi : \E i \in 1 .. n : start[i] < p /\ p <= start[i] + len[i]

(* Pieces laid end to end from c on tile what they cover.                *)
LEMMA PiecesTile ==
  ASSUME NEW n \in Nat, NEW len \in [1 .. n -> Nat], NEW c \in Nat,
         NEW start \in [1 .. n -> Nat], \A i \in 1 .. n : start[i] = c + SumBefore(len, i)
  PROVE  Tiles(start, len, n, c, c + SumBefore(len, n + 1))
<1> DEFINE s(i) == SumBefore(len, i)
<1>1. /\ s(1) = 0
      /\ \A i \in 1 .. n + 1 : s(i) \in Nat
      /\ \A i \in 1 .. n : s(i + 1) = s(i) + len[i]
      /\ \A i, j \in 1 .. n + 1 : i <= j => s(i) <= s(j)
  BY SumBeforeIs
<1>2. \A i \in 1 .. n : start[i] = c + s(i)
  OBVIOUS
<1> HIDE DEF s
<1>3. n + 1 \in 1 .. n + 1 /\ s(n + 1) \in Nat
  BY <1>1
<1>4. ASSUME NEW i \in 1 .. n
      PROVE  c <= start[i] /\ start[i] + len[i] = c + s(i + 1) /\ start[i] + len[i] <= c + s(n + 1)
  <2>1. i \in 1 .. n + 1 /\ i + 1 \in 1 .. n + 1 /\ i + 1 <= n + 1
    OBVIOUS
  <2>2. s(i) \in Nat /\ s(i + 1) \in Nat /\ s(i + 1) = s(i) + len[i] /\ len[i] \in Nat
    BY <1>1, <2>1
  <2>3. s(i + 1) <= s(n + 1)
    BY <1>1, <1>3, <2>1
  <2>4. QED
    BY <1>2, <1>3, <2>2, <2>3
<1>5. ASSUME NEW i \in 1 .. n, NEW j \in 1 .. n, i < j
      PROVE  start[i] + len[i] <= start[j]
  <2>1. i + 1 \in 1 .. n + 1 /\ j \in 1 .. n + 1 /\ i + 1 <= j
    BY <1>5
  <2>2. s(i + 1) <= s(j) /\ s(i + 1) \in Nat /\ s(j) \in Nat
    BY <1>1, <2>1
  <2>3. QED
    BY <1>2, <1>4, <2>2
<1>6. ASSUME NEW p \in c + 1 .. c + s(n + 1)
      PROVE  \E i \in 1 .. n : start[i] < p /\ p <= start[i] + len[i]
  <2> DEFINE K == {k \in 1 .. n + 1 : p <= c + s(k)}
  <2>1. K \in SUBSET Nat /\ n + 1 \in K
    BY <1>3
  <2>2. PICK k \in K : \A m \in K : k <= m
    BY <2>1, LeastNumber
  <2>3. k \in 1 .. n + 1 /\ p <= c + s(k) /\ p \in Nat /\ p > c
    BY <1>3, <2>2
  <2>4. k # 1
    BY <1>1, <2>3
  <2>5. k - 1 \in 1 .. n /\ k - 1 \in 1 .. n + 1 /\ (k - 1) + 1 = k
    BY <2>3, <2>4
  <2>6. k - 1 \notin K
    <3> HIDE DEF K
    <3>1. QED
      BY <2>2, <2>3, <2>5
  <2>7. ~ (p <= c + s(k - 1)) /\ s(k - 1) \in Nat
    BY <1>1, <2>5, <2>6
  <2>8. start[k - 1] = c + s(k - 1) /\ start[k - 1] + len[k - 1] = c + s(k)
    BY <1>2, <1>4, <2>5
  <2>9. QED
    BY <2>3, <2>5, <2>7, <2>8
<1>7. Tiles(start, len, n, c, c + s(n + 1))
  BY <1>3, <1>4, <1>5, <1>6 DEF Tiles
<1>8. QED
  BY <1>7 DEF s
(* Lists of known length, and two of them joined.                          *)
LEMMA ListIs ==
  ASSUME NEW S, NEW n \in Nat, NEW s \in [1 .. n -> S]
  PROVE  s \in Seq(S) /\ Len(s) = n /\ DOMAIN s = 1 .. n
OBVIOUS

Joined(u, s, m, t, n, S) ==
  /\ u \in [1 .. m + n -> S]
  /\ \A i \in 1 .. m : u[i] = s[i]
  /\ \A i \in 1 .. n : u[m + i] = t[i]

(* Concatenation joins.                                                  *)
LEMMA JoinIs ==
  ASSUME NEW S, NEW m \in Nat, NEW s \in [1 .. m -> S], NEW n \in Nat, NEW t \in [1 .. n -> S]
  PROVE  Joined(s \o t, s, m, t, n, S)
<1>1. s \in Seq(S) /\ Len(s) = m /\ t \in Seq(S) /\ Len(t) = n
  BY ListIs
<1>2. s \o t \in Seq(S) /\ Len(s \o t) = m + n
  BY <1>1
<1> DEFINE u == s \o t
           k == m + n
<1> HIDE DEF u
<1>a. u \in Seq(S) /\ Len(u) = k
  BY <1>2 DEF u
<1> HIDE DEF k
<1>b. u \in [1 .. k -> S]
  BY <1>a
<1>3. s \o t \in [1 .. m + n -> S]
  BY <1>b DEF u, k
<1>4. \A i \in 1 .. m : (s \o t)[i] = s[i]
  BY <1>1
<1>5. \A i \in 1 .. n : (s \o t)[m + i] = t[i]
  BY <1>1
<1>6. QED
  BY <1>3, <1>4, <1>5 DEF Joined

(* Two tilings, the second from where the first ends, are one tiling.    *)
LEMMA TilesJoin ==
  ASSUME NEW m \in Nat, NEW n \in Nat, NEW lo, NEW mid, NEW hi,
         NEW start1, NEW len1, Tiles(start1, len1, m, lo, mid),
         NEW start2, NEW len2, Tiles(start2, len2, n, mid, hi)
  PROVE  Tiles(start1 \o start2, len1 \o len2, m + n, lo, hi)
<1> DEFINE start == start1 \o start2
           len == len1 \o len2
<1>1. /\ start1 \in [1 .. m -> Nat] /\ len1 \in [1 .. m -> Nat]
      /\ start2 \in [1 .. n -> Nat] /\ len2 \in [1 .. n -> Nat]
      /\ lo \in Nat /\ mid \in Nat /\ hi \in Nat /\ lo <= mid /\ mid <= hi
  BY DEF Tiles
<1>a. Joined(start, start1, m, start2, n, Nat) /\ Joined(len, len1, m, len2, n, Nat)
  BY <1>1, JoinIs
<1>2. /\ start \in [1 .. m + n -> Nat]
      /\ \A i \in 1 .. m : start[i] = start1[i]
      /\ \A i \in 1 .. n : start[m + i] = start2[i]
  BY <1>a DEF Joined
<1>3. /\ len \in [1 .. m + n -> Nat]
      /\ \A i \in 1 .. m : len[i] = len1[i]
      /\ \A i \in 1 .. n : len[m + i] = len2[i]
  BY <1>a DEF Joined
<1> HIDE DEF start, len
<1>4. /\ \A i \in 1 .. m : lo <= start[i] /\ start[i] + len[i] <= mid
      /\ \A i \in 1 .. n : mid <= start[m + i] /\ start[m + i] + len[m + i] <= hi
  BY <1>2, <1>3 DEF Tiles
<1>5. \A i \in 1 .. m + n : i \in 1 .. m \/ (i - m \in 1 .. n /\ m + (i - m) = i)
  OBVIOUS
<1>6. ASSUME NEW i \in 1 .. m + n PROVE lo <= start[i] /\ start[i] + len[i] <= hi
  <2>1. CASE i \in 1 .. m
    <3>1. lo <= start[i] /\ start[i] + len[i] <= mid /\ start[i] \in Nat /\ len[i] \in Nat
      BY <1>2, <1>3, <1>4, <2>1
    <3>2. QED
      BY <1>1, <3>1
  <2>2. CASE i - m \in 1 .. n /\ m + (i - m) = i
    <3>1. mid <= start[i] /\ start[i] + len[i] <= hi /\ start[i] \in Nat /\ len[i] \in Nat
      BY <1>2, <1>3, <1>4, <2>2
    <3>2. QED
      BY <1>1, <3>1
  <2>3. QED
    BY <1>5, <2>1, <2>2
<1>7. ASSUME NEW i \in 1 .. m + n, NEW j \in 1 .. m + n, i < j
      PROVE  start[i] + len[i] <= start[j]
  <2>1. start[i] \in Nat /\ len[i] \in Nat /\ start[j] \in Nat
    BY <1>2, <1>3
  <2>2. CASE i \in 1 .. m /\ j \in 1 .. m
    <3>1. start1[i] + len1[i] <= start1[j]
      BY <1>7, <2>2 DEF Tiles
    <3>2. QED
      BY <1>2, <1>3, <2>2, <3>1
  <2>3. CASE i \in 1 .. m /\ j - m \in 1 .. n /\ m + (j - m) = j
    <3>1. start[i] + len[i] <= mid /\ mid <= start[j]
      BY <1>4, <2>3
    <3>2. QED
      BY <1>1, <2>1, <3>1
  <2>4. CASE i - m \in 1 .. n /\ m + (i - m) = i /\ j - m \in 1 .. n /\ m + (j - m) = j
    <3>1. i - m < j - m
      BY <1>7
    <3>2. start2[i - m] + len2[i - m] <= start2[j - m]
      BY <2>4, <3>1 DEF Tiles
    <3>3. start[i] = start2[i - m] /\ len[i] = len2[i - m] /\ start[j] = start2[j - m]
      BY <1>2, <1>3, <2>4
    <3>4. QED
      BY <3>2, <3>3
  <2>5. ~ (i - m \in 1 .. n /\ j \in 1 .. m)
    BY <1>7
  <2>6. QED
    BY <1>5, <2>2, <2>3, <2>4, <2>5
<1>8. ASSUME NEW p \in lo + 1 .. hi
      PROVE  \E i \in 1 .. m + n : start[i] < p /\ p <= start[i] + len[i]
  <2>1. CASE p <= mid
    <3>1. p \in lo + 1 .. mid
      BY <1>1, <2>1
    <3>2. PICK i \in 1 .. m : start1[i] < p /\ p <= start1[i] + len1[i]
      BY <3>1 DEF Tiles
    <3>3. i \in 1 .. m + n /\ start[i] = start1[i] /\ len[i] = len1[i]
      BY <1>2, <1>3
    <3>4. QED
      BY <3>2, <3>3
  <2>2. CASE ~ (p <= mid)
    <3>1. p \in mid + 1 .. hi
      BY <1>1, <2>2
    <3>2. PICK i \in 1 .. n : start2[i] < p /\ p <= start2[i] + len2[i]
      BY <3>1 DEF Tiles
    <3>3. m + i \in 1 .. m + n /\ start[m + i] = start2[i] /\ len[m + i] = len2[i]
      BY <1>2, <1>3
    <3>4. QED
      BY <3>2, <3>3
  <2>3. QED
    BY <2>1, <2>2
<1>9. lo <= hi
  BY <1>1
<1>10. QED
  BY <1>1, <1>2, <1>3, <1>6, <1>7, <1>8, <1>9 DEF Tiles, start, len

(* Sizes.                                                                  *)
sizes == [a \in Adapter |-> Size(a)]

(* There are finitely many adapters, each of a size.                     *)
LEMMA SizesNat ==
  /\ IsFiniteSet(Adapter) /\ sizes \in [Adapter -> Nat]
  /\ \A a \in Adapter : sizes[a] = Size(a) /\ Size(a) \in Nat
BY AdapterAssumption DEF sizes, Size

(* SizeOf is the sum of the sizes.                                       *)
LEMMA SizeOfIs ==
  ASSUME NEW A \in SUBSET Adapter
  PROVE  SizeOf(A) = SumOver(sizes, A)
<1> DEFINE h == CHOOSE k : k = [s \in SUBSET A |->
                  IF s = {} THEN 0 ELSE 4 * adapter_r[Some(s)] + k[s \ {Some(s)}]]
           e == [a \in A |-> sizes[a]]
<1>1. SizeOf(A) = h[A]
  BY DEF SizeOf, Size, MapThenSumSet, MapThenFoldSet, Some
<1>2. IsFiniteSet(A) /\ e \in [A -> Nat]
  BY SizesNat, FS_Subset
<1>3. PICK k : IsFold(k, e, A)
  BY <1>2, FoldExists
<1>4. \A s \in SUBSET A : s # {} => e[Some(s)] = 4 * adapter_r[Some(s)]
  BY DEF Some, sizes, Size
<1>5. k = [s \in SUBSET A |->
             IF s = {} THEN 0 ELSE 4 * adapter_r[Some(s)] + k[s \ {Some(s)}]]
  BY <1>3, <1>4 DEF IsFold, Step
<1>6. h = [s \in SUBSET A |->
             IF s = {} THEN 0 ELSE 4 * adapter_r[Some(s)] + h[s \ {Some(s)}]]
  BY <1>5
<1> HIDE DEF h
<1>7. IsFold(h, e, A)
  BY <1>4, <1>6 DEF IsFold, Step
<1>8. \A a \in A : e[a] = sizes[a]
  OBVIOUS
<1> HIDE DEF e
<1>9. h[A] = SumOver(sizes, A)
  BY <1>7, <1>8, SizesNat, FoldComputes
<1>10. QED
  BY <1>1, <1>9

(* What a list of different adapters needs, added up along the list.       *)
LEMMA SizesAdd ==
  ASSUME NEW n \in Nat, NEW s \in [1 .. n -> Adapter],
         \A i, j \in 1 .. n : s[i] = s[j] => i = j,
         NEW len \in [1 .. n -> Nat], \A i \in 1 .. n : len[i] = Size(s[i])
  PROVE  SumBefore(len, n + 1) = SizeOf({s[i] : i \in 1 .. n})
<1> DEFINE I == 1 .. n
           A == {s[i] : i \in I}
<1>1. IsFiniteSet(I) /\ I \in SUBSET I
  BY FirstNumbers
<1>2. /\ s \in Injection(I, Adapter) /\ A \in SUBSET Adapter
      /\ \A i \in I : len[i] = sizes[s[i]]
  BY SizesNat DEF Injection, IsInjective
<1>3. A = {s[i] : i \in I}
  OBVIOUS
<1>4. SumBefore(len, n + 1) = SumOver(len, I)
  <2>1. (n + 1) - 1 = n
    OBVIOUS
  <2>2. QED
    BY <2>1 DEF SumBefore, SumOver
<1>5. /\ len \in [I -> Nat] /\ IsFiniteSet(Adapter) /\ sizes \in [Adapter -> Nat]
      /\ \A i \in I : len[i] = sizes[s[i]]
  BY <1>2, SizesNat
<1>6. SumOver(len, I) = SumOver(sizes, A)
  <2> DEFINE f == sizes
  <2>1. /\ IsFiniteSet(Adapter) /\ f \in [Adapter -> Nat]
        /\ IsFiniteSet(I) /\ s \in Injection(I, Adapter)
        /\ len \in [I -> Nat] /\ (\A i \in I : len[i] = f[s[i]])
        /\ I \in SUBSET I /\ A = {s[i] : i \in I}
    BY <1>1, <1>2, <1>3, <1>5
  <2> HIDE DEF I, A, f
  <2>2. SumOver(len, I) = SumOver(f, A)
    BY ONLY <2>1, SumImage, SMTT(30)
  <2>3. QED
    BY <2>2 DEF f
<1> HIDE DEF I, A
<1>7. SizeOf(A) = SumOver(sizes, A)
  BY <1>2, SizeOfIs
<1>8. QED
  BY <1>4, <1>6, <1>7 DEF A, I

-----------------------------------------------------------------------------
(* The index of the loaded adapters is their list's, which has each once.  *)
Filed(dirs, idx) ==
  /\ dirs \in Seq(Adapter)
  /\ \A i, j \in 1 .. Len(dirs) : dirs[i] = dirs[j] => i = j
  /\ DOMAIN idx = {dirs[i] : i \in 1 .. Len(dirs)}
  /\ \A i \in 1 .. Len(dirs) : idx[dirs[i]] = i

(* Each has its own piece of a_loc, as long as it is large, and no cell is *)
(* there twice.                                                            *)
Filling(dirs, start, len, locs) ==
  /\ Tiles(start, len, Len(dirs), 0, Len(locs))
  /\ \A i \in 1 .. Len(dirs) : len[i] = Size(dirs[i])
  /\ locs \in Seq(Pool!Cells)
  /\ \A p, q \in 1 .. Len(locs) : locs[p] = locs[q] => p = q

Listed(locs) == {locs[p] : p \in 1 .. Len(locs)}

(* The free cells, those of a_loc and the rows are the pool, once each.    *)
Shared(mem, count, rws, used) ==
  /\ mem \subseteq Pool!Cells /\ used \subseteq Pool!Cells /\ rws \subseteq SUBSET Pool!Cells
  /\ Pool!Cells \subseteq mem \cup used \cup UNION rws
  /\ mem \cap used = {}
  /\ \A row \in rws : row \cap mem = {} /\ row \cap used = {}
  /\ \A row1, row2 \in rws : row1 # row2 => row1 \cap row2 = {}
  /\ count = Cardinality(mem)

ArraysInv ==
  /\ Filed(adapter_dirs, idx_map)
  /\ Filling(adapter_dirs, a_start, a_len, a_loc)
  /\ Len(a_loc) = SizeOf(DOMAIN idx_map)
  /\ Shared(idle, idle_count, rows, Listed(a_loc))
  /\ in_use \subseteq DOMAIN idx_map

(* The pool and its parts are finite sets of numbers.                    *)
LEMMA PoolCells ==
  /\ IsFiniteSet(Pool!Cells) /\ Cardinality(Pool!Cells) = pool_size
  /\ Pool!Cells \in SUBSET Nat
  /\ \A S \in SUBSET Pool!Cells : IsFiniteSet(S) /\ Cardinality(S) \in Nat /\ S \in SUBSET Nat
<1>1. pool_size \in Nat /\ Pool!Cells = 0 .. pool_size - 1
  BY AdapterAssumption DEF Pool!Cells
<1>2. IsFiniteSet(Pool!Cells) /\ Cardinality(Pool!Cells) = pool_size
  BY <1>1, FS_Interval, 0 \in Int, pool_size - 1 \in Int
<1>3. Pool!Cells \in SUBSET Nat
  BY <1>1
<1>4. QED
  BY <1>2, <1>3, FS_Subset, FS_CardinalityType

(* The instance of MemoryPool counts as this module does.                *)
LEMMA SameCardinality ==
  \A S : Pool!Cardinality(S) = Cardinality(S)
BY DEF Pool!Cardinality, Cardinality

(* alloc selects as many free cells as it was asked for.                 *)
LEMMA LowestIs ==
  ASSUME idle \subseteq Pool!Cells, idle_count = Cardinality(idle),
         NEW n \in Nat, Pool!HasRoom(n)
  PROVE  /\ Pool!Lowest(n) \subseteq idle /\ Pool!Lowest(n) \in SUBSET Nat
         /\ IsFiniteSet(Pool!Lowest(n))
         /\ Cardinality(Pool!Lowest(n)) = n
<1>1. Pool!Lowest(n) = Least(idle, n)
  BY SameCardinality DEF Pool!Lowest, Least, Rank
<1>2. Pool!Lowest(n) \subseteq idle
  BY DEF Pool!Lowest
<1>3. IsFiniteSet(idle) /\ Cardinality(idle) \in Nat /\ idle \in SUBSET Nat
  <2>1. idle \in SUBSET Pool!Cells
    OBVIOUS
  <2>2. QED
    BY <2>1, PoolCells, Zenon
<1>4. n \in 0 .. Cardinality(idle)
  BY <1>3 DEF Pool!HasRoom
<1>5. Cardinality(Least(idle, n)) = n
  BY <1>3, <1>4, LeastSized
<1>6. IsFiniteSet(Pool!Lowest(n))
  BY <1>2, <1>3, FS_Subset
<1>7. Pool!Lowest(n) \in SUBSET Nat
  BY <1>2, <1>3
<1>8. QED
  BY <1>1, <1>2, <1>5, <1>6, <1>7

(* The pool's ways to change.                                              *)
LEMMA CellsTaken ==
  ASSUME NEW mem, NEW count, NEW rws, NEW used, Shared(mem, count, rws, used),
         NEW L, L \subseteq mem
  PROVE  /\ Shared(mem \ L, count - Cardinality(L), rws, used \cup L)
         /\ Shared(mem \ L, count - Cardinality(L), rws \cup {L}, used)
<1>1. IsFiniteSet(mem) /\ mem \subseteq Pool!Cells
  BY PoolCells DEF Shared
<1>2. Cardinality(mem \ L) = Cardinality(mem) - Cardinality(mem \cap L) /\ mem \cap L = L
  BY <1>1, FS_Difference
<1>3. Cardinality(mem \ L) = count - Cardinality(L)
  BY <1>2 DEF Shared
<1>4. QED
  BY <1>3 DEF Shared

(* Cells of the adapters or a row can come back.                         *)
LEMMA CellsBack ==
  ASSUME NEW mem, NEW count, NEW rws, NEW used, Shared(mem, count, rws, used),
         NEW L
  PROVE  /\ L \subseteq used => Shared(mem \cup L, count + Cardinality(L), rws, used \ L)
         /\ L \in rws => Shared(mem \cup L, count + Cardinality(L), rws \ {L}, used)
<1>1. IsFiniteSet(mem) /\ mem \subseteq Pool!Cells
  BY PoolCells DEF Shared
<1>2. ASSUME L \subseteq used \/ L \in rws
      PROVE  Cardinality(mem \cup L) = count + Cardinality(L)
  <2>1. L \subseteq Pool!Cells /\ mem \cap L = {}
    BY <1>2 DEF Shared
  <2>2. IsFiniteSet(L) /\ Cardinality(L) \in Nat /\ Cardinality(mem) \in Nat
    BY <1>1, <2>1, PoolCells
  <2>3. Cardinality(mem \cup L) = Cardinality(mem) + Cardinality(L) - Cardinality({})
    BY <1>1, <2>1, <2>2, FS_Union
  <2>4. QED
    BY <2>2, <2>3, FS_EmptySet DEF Shared
<1>3. ASSUME L \subseteq used
      PROVE  Shared(mem \cup L, count + Cardinality(L), rws, used \ L)
  BY <1>2, <1>3 DEF Shared
<1>4. ASSUME L \in rws
      PROVE  Shared(mem \cup L, count + Cardinality(L), rws \ {L}, used)
  <2>1. L \subseteq Pool!Cells /\ L \cap used = {}
    BY <1>4 DEF Shared
  <2>2. Pool!Cells \subseteq (mem \cup L) \cup used \cup UNION (rws \ {L})
    BY <1>4 DEF Shared
  <2>3. \A row \in rws \ {L} : row \cap L = {}
    BY <1>4 DEF Shared
  <2>4. QED
    BY <1>2, <1>4, <2>1, <2>2, <2>3 DEF Shared
<1>5. QED
  BY <1>3, <1>4

(* The same cells in the same order.                                       *)
Same(x, y) == x = y

(* Two slices with the same cells at the same places are the same.       *)
LEMMA SamePiece ==
  ASSUME NEW S, NEW locs1 \in Seq(S), NEW locs2 \in Seq(S), NEW st1 \in Nat, NEW st2 \in Nat,
         NEW n \in Nat, \A k \in 1 .. n : locs1[st1 + k] = locs2[st2 + k]
  PROVE  Same(SubSeq(locs1, st1 + 1, st1 + n), SubSeq(locs2, st2 + 1, st2 + n))
<1>1. (st1 + n) - (st1 + 1) + 1 = n /\ (st2 + n) - (st2 + 1) + 1 = n
  OBVIOUS
<1>2. SubSeq(locs1, st1 + 1, st1 + n) = [k \in 1 .. n |-> locs1[k + (st1 + 1) - 1]]
  BY <1>1
<1>3. SubSeq(locs2, st2 + 1, st2 + n) = [k \in 1 .. n |-> locs2[k + (st2 + 1) - 1]]
  BY <1>1
<1>4. ASSUME NEW k \in 1 .. n PROVE locs1[k + (st1 + 1) - 1] = locs2[k + (st2 + 1) - 1]
  <2>1. k + (st1 + 1) - 1 = st1 + k /\ k + (st2 + 1) - 1 = st2 + k
    OBVIOUS
  <2>2. QED
    BY <2>1
<1>5. QED
  BY <1>2, <1>3, <1>4 DEF Same

-----------------------------------------------------------------------------
(* Loading: the arrays grow at their ends.                                 *)
Fresh(new, idx) ==
  /\ new \in Seq(Adapter)
  /\ \A i, j \in 1 .. Len(new) : new[i] = new[j] => i = j
  /\ \A i \in 1 .. Len(new) : new[i] \notin DOMAIN idx

JoinedIndex(dirs, idx, new) ==
  [a \in DOMAIN idx \cup Range(new) |->
     IF a \in DOMAIN idx THEN idx[a]
     ELSE Len(dirs) + CHOOSE i \in DOMAIN new : new[i] = a]

FiledWith(dirs, idx, new, idx2) ==
  /\ Filed(dirs \o new, idx2)
  /\ DOMAIN idx2 = DOMAIN idx \cup {new[i] : i \in 1 .. Len(new)}
  /\ \A a \in DOMAIN idx : idx2[a] = idx[a]

(* The new adapters are filed behind those that are there.               *)
LEMMA FiledJoin ==
  ASSUME NEW dirs, NEW idx, Filed(dirs, idx), NEW new, Fresh(new, idx)
  PROVE  FiledWith(dirs, idx, new, JoinedIndex(dirs, idx, new))
<1> DEFINE idx2 == JoinedIndex(dirs, idx, new)
           m == Len(dirs)
           n == Len(new)
           all == dirs \o new
<1>1. /\ m \in Nat /\ n \in Nat
      /\ dirs \in [1 .. m -> Adapter] /\ new \in [1 .. n -> Adapter] /\ DOMAIN new = 1 .. n
      /\ all \in Seq(Adapter) /\ Len(all) = m + n
  BY DEF Filed, Fresh
<1>2. Joined(all, dirs, m, new, n, Adapter)
  BY <1>1, JoinIs
<1>3. /\ \A i \in 1 .. m : all[i] = dirs[i]
      /\ \A i \in 1 .. n : all[m + i] = new[i]
      /\ all \in [1 .. m + n -> Adapter]
  BY <1>2 DEF Joined
<1>4. /\ \A i, j \in 1 .. m : dirs[i] = dirs[j] => i = j
      /\ DOMAIN idx = {dirs[i] : i \in 1 .. m}
      /\ \A i \in 1 .. m : idx[dirs[i]] = i
  BY DEF Filed
<1>5. /\ \A i, j \in 1 .. n : new[i] = new[j] => i = j
      /\ \A i \in 1 .. n : new[i] \notin DOMAIN idx
  BY DEF Fresh
<1>6. Range(new) = {new[i] : i \in 1 .. n}
  BY <1>1 DEF Range
<1>7. /\ DOMAIN idx2 = DOMAIN idx \cup {new[i] : i \in 1 .. n}
      /\ \A a \in DOMAIN idx : idx2[a] = idx[a]
      /\ \A a \in Range(new) \ DOMAIN idx : idx2[a] = m + CHOOSE i \in 1 .. n : new[i] = a
  BY <1>1, <1>6 DEF JoinedIndex
<1> HIDE DEF m, n, all, idx2
<1>8. ASSUME NEW a \in DOMAIN idx PROVE idx2[a] = idx[a]
  BY <1>7
<1>9. ASSUME NEW i \in 1 .. n PROVE idx2[new[i]] = m + i
  <2>1. (CHOOSE j \in 1 .. n : new[j] = new[i]) = i
    BY <1>5
  <2>2. new[i] \in Range(new) \ DOMAIN idx
    BY <1>5, <1>6
  <2>3. QED
    BY <1>7, <2>1, <2>2
<1>10. \A i \in 1 .. m + n : i \in 1 .. m \/ (i - m \in 1 .. n /\ m + (i - m) = i)
  BY <1>1
<1>11. ASSUME NEW i \in 1 .. m + n PROVE idx2[all[i]] = i /\ all[i] \in DOMAIN idx2
  <2>1. CASE i \in 1 .. m
    BY <1>3, <1>4, <1>7, <1>8, <2>1
  <2>2. CASE i - m \in 1 .. n /\ m + (i - m) = i
    <3>1. all[i] = new[i - m] /\ idx2[new[i - m]] = m + (i - m)
      BY <1>3, <1>9, <2>2
    <3>2. QED
      BY <1>7, <2>2, <3>1
  <2>3. QED
    BY <1>10, <2>1, <2>2
<1>12. \A i, j \in 1 .. m + n : all[i] = all[j] => i = j
  BY <1>11
<1>13. ASSUME NEW a \in DOMAIN idx2 PROVE \E i \in 1 .. m + n : all[i] = a
  <2>1. CASE \E i \in 1 .. m : dirs[i] = a
    BY <1>1, <1>3, <2>1
  <2>2. CASE \E i \in 1 .. n : new[i] = a
    <3>1. PICK i \in 1 .. n : new[i] = a
      BY <2>2
    <3>2. m + i \in 1 .. m + n /\ all[m + i] = a
      BY <1>1, <1>3, <3>1
    <3>3. QED
      BY <3>2
  <2>3. QED
    BY <1>4, <1>7, <2>1, <2>2
<1>14. DOMAIN idx2 = {all[i] : i \in 1 .. m + n}
  <2> DEFINE D == DOMAIN idx2
  <2>1. /\ \A i \in 1 .. m + n : all[i] \in D
        /\ \A a \in D : \E i \in 1 .. m + n : all[i] = a
    BY <1>11, <1>13
  <2> HIDE DEF D
  <2>2. D = {all[i] : i \in 1 .. m + n}
    BY <2>1
  <2>3. QED
    BY <2>2 DEF D
<1>15. Filed(all, idx2)
  BY <1>1, <1>11, <1>12, <1>14 DEF Filed
<1>16. QED
  BY <1>7, <1>8, <1>15 DEF all, n, idx2, FiledWith

(* The new entries' pieces follow those that are there, in new cells.      *)
Adds(new, start2, len2, locs, L) ==
  /\ new \in Seq(Adapter)
  /\ len2 \in [1 .. Len(new) -> Nat]
  /\ \A i \in 1 .. Len(new) : len2[i] = Size(new[i])
  /\ start2 \in [1 .. Len(new) -> Nat]
  /\ \A i \in 1 .. Len(new) : start2[i] = Len(locs) + SumBefore(len2, i)
  /\ L \subseteq Pool!Cells /\ L \cap Listed(locs) = {}
  /\ Cardinality(L) = SumBefore(len2, Len(new) + 1)

(* The arrays stay in order when they grow at their ends.                *)
LEMMA FillingJoin ==
  ASSUME NEW dirs \in Seq(Adapter), NEW start, NEW len, NEW locs, Filling(dirs, start, len, locs),
         NEW new, NEW start2, NEW len2, NEW L, Adds(new, start2, len2, locs, L)
  PROVE  /\ Filling(dirs \o new, start \o start2, len \o len2, locs \o Sorted(L))
         /\ Len(locs \o Sorted(L)) = Len(locs) + Cardinality(L)
         /\ Listed(locs \o Sorted(L)) = Listed(locs) \cup L
<1>0. /\ new \in Seq(Adapter)
      /\ len2 \in [1 .. Len(new) -> Nat]
      /\ \A i \in 1 .. Len(new) : len2[i] = Size(new[i])
      /\ start2 \in [1 .. Len(new) -> Nat]
      /\ \A i \in 1 .. Len(new) : start2[i] = Len(locs) + SumBefore(len2, i)
      /\ L \subseteq Pool!Cells /\ L \cap Listed(locs) = {}
      /\ Cardinality(L) = SumBefore(len2, Len(new) + 1)
  BY DEF Adds
<1> DEFINE m == Len(dirs)
           n == Len(new)
           h == Len(locs)
           c == Cardinality(L)
           s == Sorted(L)
           all == locs \o s
           d == dirs \o new
           ln == len \o len2
<1>1. L \in SUBSET Nat /\ IsFiniteSet(L)
  BY <1>0, PoolCells
<1>2. /\ c \in Nat /\ s \in [1 .. c -> L]
      /\ \A k, l \in 1 .. c : s[k] = s[l] => k = l
      /\ \A x \in L : \E k \in 1 .. c : s[k] = x
  BY <1>1, SortedIs
<1>3. /\ h \in Nat /\ locs \in [1 .. h -> Pool!Cells] /\ s \in [1 .. c -> Pool!Cells]
      /\ \A p, q \in 1 .. h : locs[p] = locs[q] => p = q
      /\ m \in Nat /\ n \in Nat
  BY <1>0, <1>2 DEF Filling
<1>4. Joined(all, locs, h, s, c, Pool!Cells)
  BY <1>2, <1>3, JoinIs
<1>5. /\ all \in [1 .. h + c -> Pool!Cells]
      /\ \A p \in 1 .. h : all[p] = locs[p]
      /\ \A p \in 1 .. c : all[h + p] = s[p]
  BY <1>4 DEF Joined
<1>6. all \in Seq(Pool!Cells) /\ Len(all) = h + c
  <2>1. h + c \in Nat
    BY <1>2, <1>3
  <2> HIDE DEF all
  <2>2. QED
    BY <1>5, <2>1, ListIs
<1>7. Tiles(start2, len2, n, h, h + c)
  BY <1>0, <1>3, PiecesTile
<1>8. Tiles(start \o start2, ln, m + n, 0, h + c)
  <2>1. Tiles(start, len, m, 0, h)
    BY DEF Filling
  <2>2. QED
    BY <1>3, <1>7, <2>1, TilesJoin
<1>9. Joined(d, dirs, m, new, n, Adapter) /\ Joined(ln, len, m, len2, n, Nat) /\ Len(d) = m + n
  <2>1. len \in [1 .. m -> Nat] /\ dirs \in [1 .. m -> Adapter] /\ new \in [1 .. n -> Adapter]
    BY <1>0 DEF Filling, Tiles
  <2>2. Joined(d, dirs, m, new, n, Adapter)
    BY <1>3, <2>1, JoinIs
  <2>3. Joined(ln, len, m, len2, n, Nat)
    BY <1>0, <1>3, <2>1, JoinIs
  <2>4. Len(d) = m + n
    BY <1>0
  <2>5. QED
    BY <2>2, <2>3, <2>4
<1>10. ASSUME NEW i \in 1 .. m + n PROVE ln[i] = Size(d[i])
  <2>1. /\ \A k \in 1 .. m : ln[k] = len[k] /\ d[k] = dirs[k] /\ len[k] = Size(dirs[k])
        /\ \A k \in 1 .. n : ln[m + k] = len2[k] /\ d[m + k] = new[k] /\ len2[k] = Size(new[k])
    BY <1>0, <1>9 DEF Joined, Filling
  <2> HIDE DEF ln, d
  <2>2. CASE i \in 1 .. m
    BY <2>1, <2>2
  <2>3. CASE i \notin 1 .. m
    <3>1. i - m \in 1 .. n /\ m + (i - m) = i
      BY <1>3, <2>3
    <3>2. QED
      BY <2>1, <3>1
  <2>4. QED
    BY <2>2, <2>3
<1> HIDE DEF m, n, h, c, s, all, d, ln
<1>11. \A p \in 1 .. h + c : p \in 1 .. h \/ (p - h \in 1 .. c /\ h + (p - h) = p)
  BY <1>2, <1>3
<1>12. Listed(locs) = {locs[p] : p \in 1 .. h}
  BY DEF Listed, h
<1>13. ASSUME NEW p \in 1 .. h + c, NEW q \in 1 .. h + c, all[p] = all[q]
       PROVE  p = q
  <2>1. \A x \in 1 .. h, y \in 1 .. h + c : y - h \in 1 .. c /\ h + (y - h) = y => all[x] # all[y]
    <3> SUFFICES ASSUME NEW x \in 1 .. h, NEW y \in 1 .. h + c,
                        y - h \in 1 .. c, h + (y - h) = y, all[x] = all[y]
                 PROVE  FALSE
      OBVIOUS
    <3>1. all[x] = locs[x] /\ locs[x] \in Listed(locs)
      BY <1>5, <1>12
    <3>2. all[y] = s[y - h] /\ s[y - h] \in L
      BY <1>2, <1>5
    <3>3. QED
      BY <1>0, <3>1, <3>2
  <2>2. CASE p \in 1 .. h /\ q \in 1 .. h
    BY <1>3, <1>5, <1>13, <2>2
  <2>3. CASE p - h \in 1 .. c /\ h + (p - h) = p /\ q - h \in 1 .. c /\ h + (q - h) = q
    <3>1. all[p] = s[p - h] /\ all[q] = s[q - h]
      BY <1>5, <2>3
    <3>2. p - h = q - h
      BY <1>2, <1>13, <2>3, <3>1
    <3>3. QED
      BY <2>3, <3>2
  <2>4. QED
    BY <1>11, <1>13, <2>1, <2>2, <2>3
<1>14. Listed(all) = Listed(locs) \cup L
  <2>1. ASSUME NEW p \in 1 .. h + c PROVE all[p] \in Listed(locs) \cup L
    <3>1. CASE p \in 1 .. h
      BY <1>5, <1>12, <3>1
    <3>2. CASE p - h \in 1 .. c /\ h + (p - h) = p
      <4>1. all[p] = s[p - h] /\ s[p - h] \in L
        BY <1>2, <1>5, <3>2
      <4>2. QED
        BY <4>1
    <3>3. QED
      BY <1>11, <3>1, <3>2
  <2>2. ASSUME NEW x \in Listed(locs) PROVE \E p \in 1 .. h + c : all[p] = x
    <3>1. PICK p \in 1 .. h : locs[p] = x
      BY <1>12
    <3>2. p \in 1 .. h + c /\ all[p] = x
      BY <1>2, <1>3, <1>5, <3>1
    <3>3. QED
      BY <3>2
  <2>3. ASSUME NEW x \in L PROVE \E p \in 1 .. h + c : all[p] = x
    <3>1. PICK p \in 1 .. c : s[p] = x
      BY <1>2
    <3>2. h + p \in 1 .. h + c /\ all[h + p] = x
      BY <1>2, <1>3, <1>5, <3>1
    <3>3. QED
      BY <3>2
  <2>4. Listed(all) = {all[p] : p \in 1 .. h + c}
    BY <1>6 DEF Listed
  <2>5. QED
    BY <2>1, <2>2, <2>3, <2>4
<1>15. Filling(d, start \o start2, ln, all)
  BY <1>6, <1>8, <1>9, <1>10, <1>13 DEF Filling
<1>16. QED
  BY <1>6, <1>14, <1>15 DEF d, ln, all, s, h, c

(* What a loaded adapter's slice is, read off the arrays.                  *)
SliceIn(locs, start, len, i) == SubSeq(locs, start[i] + 1, start[i] + len[i])

(* Where every adapter's cells lie does not change while it is loaded.     *)
Kept ==
  \A a \in DOMAIN idx_map \cap DOMAIN idx_map' : CellsOf(a)' = CellsOf(a)

(* It suffices to compare slices.                                        *)
LEMMA KeptWhen ==
  ASSUME \A a \in DOMAIN idx_map \cap DOMAIN idx_map' :
           Same(SliceIn(a_loc, a_start, a_len, idx_map[a]),
                SliceIn(a_loc', a_start', a_len', idx_map'[a]))
  PROVE  Kept
<1>1. ASSUME NEW a \in DOMAIN idx_map \cap DOMAIN idx_map' PROVE CellsOf(a)' = CellsOf(a)
  BY <1>1 DEF Same, SliceIn, CellsOf, Slice
<1>2. QED
  BY <1>1 DEF Kept

(* Different adapters need room for all of them.                         *)
LEMMA SizeOfUnion ==
  ASSUME NEW A \in SUBSET Adapter, NEW B \in SUBSET Adapter, A \cap B = {}
  PROVE  SizeOf(A \cup B) = SizeOf(A) + SizeOf(B)
<1>1. SumOver(sizes, A \cup B) = SumOver(sizes, A) + SumOver(sizes, B)
  BY SizesNat, SumUnion
<1>2. A \cup B \in SUBSET Adapter
  OBVIOUS
<1>3. SizeOf(A \cup B) = SumOver(sizes, A \cup B)
  BY <1>2, SizeOfIs
<1>4. SizeOf(A) = SumOver(sizes, A) /\ SizeOf(B) = SumOver(sizes, B)
  BY SizeOfIs
<1>5. QED
  BY <1>1, <1>3, <1>4

(* Loading keeps the arrays in order and moves no loaded adapter.        *)
LEMMA AddKeeps ==
  ASSUME ArraysInv, NEW new, Fresh(new, idx_map), AddAdapters(new), rows' = rows,
         in_use' \subseteq DOMAIN idx_map \cup Range(new)
  PROVE  ArraysInv' /\ Kept
<1> DEFINE n == Len(new)
           len2 == [i \in DOMAIN new |-> Size(new[i])]
           start2 == [i \in DOMAIN new |-> Len(a_loc) + SumBefore(len2, i)]
           need == SizeOf(Range(new))
           L == Pool!Lowest(need)
           fresh == {new[i] : i \in 1 .. n}
<1>1. /\ n \in Nat /\ new \in [1 .. n -> Adapter] /\ DOMAIN new = 1 .. n /\ new \in Seq(Adapter)
      /\ \A i, j \in 1 .. n : new[i] = new[j] => i = j
      /\ \A i \in 1 .. n : new[i] \notin DOMAIN idx_map
  BY DEF Fresh
<1>2. Range(new) = fresh /\ fresh \in SUBSET Adapter
  BY <1>1 DEF Range
<1>3. /\ len2 \in [1 .. n -> Nat]
      /\ \A i \in 1 .. n : len2[i] = Size(new[i])
  BY <1>1, SizesNat
<1>4. SumBefore(len2, n + 1) = need /\ need \in Nat
  <2> HIDE DEF len2, n
  <2>1. SumBefore(len2, n + 1) = SizeOf({new[i] : i \in 1 .. n})
    BY <1>1, <1>3, SizesAdd
  <2>2. n + 1 \in 1 .. n + 1
    BY <1>1
  <2>3. SumBefore(len2, n + 1) \in Nat
    BY <1>1, <1>3, <2>2, SumBeforeIs
  <2>4. QED
    BY <1>2, <2>1, <2>3
<1>5. /\ Shared(idle, idle_count, rows, Listed(a_loc))
      /\ Filed(adapter_dirs, idx_map)
      /\ Filling(adapter_dirs, a_start, a_len, a_loc)
      /\ Len(a_loc) = SizeOf(DOMAIN idx_map)
      /\ in_use \subseteq DOMAIN idx_map
  BY DEF ArraysInv
<1>6. /\ Pool!HasRoom(need) /\ idle' = idle \ L
      /\ idle_count' = idle_count - Cardinality(L)
      /\ a_start' = a_start \o start2 /\ a_len' = a_len \o len2
      /\ a_loc' = a_loc \o Sorted(L) /\ adapter_dirs' = adapter_dirs \o new
      /\ idx_map' = [a \in DOMAIN idx_map \cup Range(new) |->
                       IF a \in DOMAIN idx_map THEN idx_map[a]
                       ELSE Len(adapter_dirs) + CHOOSE i \in DOMAIN new : new[i] = a]
  BY SameCardinality DEF AddAdapters, AppendArrays, Pool!Mark
<1> HIDE DEF need, L
<1>7. L \subseteq idle /\ IsFiniteSet(L) /\ Cardinality(L) = need
  BY <1>4, <1>5, <1>6, LowestIs DEF Shared, L
<1>8. L \subseteq Pool!Cells /\ L \cap Listed(a_loc) = {}
  BY <1>5, <1>7 DEF Shared
<1>9. Len(a_loc) \in Nat /\ a_loc \in Seq(Pool!Cells)
  BY <1>5 DEF Filling
<1>10. /\ start2 \in [1 .. n -> Nat]
       /\ \A i \in 1 .. n : start2[i] = Len(a_loc) + SumBefore(len2, i)
  <2> HIDE DEF len2, n
  <2>1. \A i \in 1 .. n : i \in 1 .. n + 1
    BY <1>1
  <2>2. \A i \in 1 .. n : SumBefore(len2, i) \in Nat
    BY <1>1, <1>3, <2>1, SumBeforeIs
  <2>3. QED
    BY <1>1, <1>9, <2>2
<1> HIDE DEF len2, start2, n
<1>11. /\ Filling(adapter_dirs \o new, a_start \o start2, a_len \o len2, a_loc \o Sorted(L))
       /\ Len(a_loc \o Sorted(L)) = Len(a_loc) + Cardinality(L)
       /\ Listed(a_loc \o Sorted(L)) = Listed(a_loc) \cup L
  <2>1. adapter_dirs \in Seq(Adapter)
    BY <1>5 DEF Filed
  <2>2. Cardinality(L) = SumBefore(len2, n + 1)
    BY <1>4, <1>7
  <2>3. Adds(new, start2, len2, a_loc, L)
    BY <1>1, <1>3, <1>8, <1>10, <2>2 DEF n, Adds
  <2>4. QED
    BY <1>5, <2>1, <2>3, FillingJoin
<1>12. /\ Filed(adapter_dirs', idx_map')
       /\ DOMAIN idx_map' = DOMAIN idx_map \cup fresh
       /\ \A a \in DOMAIN idx_map : idx_map'[a] = idx_map[a]
  <2> DEFINE j == JoinedIndex(adapter_dirs, idx_map, new)
  <2>1. FiledWith(adapter_dirs, idx_map, new, j)
    BY <1>5, FiledJoin
  <2>2. idx_map' = j /\ adapter_dirs' = adapter_dirs \o new
    BY <1>6 DEF JoinedIndex
  <2> HIDE DEF j
  <2>3. QED
    BY <2>1, <2>2 DEF n, FiledWith
<1>13. Len(a_loc') = SizeOf(DOMAIN idx_map')
  <2>1. DOMAIN idx_map \in SUBSET Adapter /\ DOMAIN idx_map \cap fresh = {}
    BY <1>1, <1>5 DEF Filed
  <2> DEFINE D == DOMAIN idx_map
  <2> HIDE DEF D, fresh
  <2>2. SizeOf(D \cup fresh) = SizeOf(D) + SizeOf(fresh)
    BY <1>2, <2>1, SizeOfUnion DEF D
  <2>3. SizeOf(fresh) = need
    BY <1>2 DEF need
  <2>4. QED
    BY <1>5, <1>6, <1>7, <1>11, <1>12, <2>2, <2>3 DEF D
<1>14. Shared(idle', idle_count', rows', Listed(a_loc'))
  <2>1. Shared(idle \ L, idle_count - Cardinality(L), rows, Listed(a_loc) \cup L)
    BY <1>5, <1>7, CellsTaken
  <2>2. QED
    BY <1>6, <1>11, <2>1
<1>15. ArraysInv'
  BY <1>2, <1>6, <1>11, <1>12, <1>13, <1>14 DEF ArraysInv
<1>16. ASSUME NEW a \in DOMAIN idx_map
       PROVE  Same(SliceIn(a_loc, a_start, a_len, idx_map[a]),
                   SliceIn(a_loc', a_start', a_len', idx_map'[a]))
  <2> DEFINE m == Len(adapter_dirs)
             i == idx_map[a]
  <2>1. i \in 1 .. m /\ m \in Nat
    BY <1>5 DEF Filed
  <2>2. /\ a_start \in [1 .. m -> Nat] /\ a_len \in [1 .. m -> Nat]
        /\ a_start[i] + a_len[i] <= Len(a_loc)
    BY <1>5, <2>1 DEF Filling, Tiles
  <2>3. Joined(a_start', a_start, m, start2, n, Nat) /\ Joined(a_len', a_len, m, len2, n, Nat)
    BY <1>1, <1>3, <1>6, <1>10, <2>1, <2>2, JoinIs
  <2>4. a_start'[i] = a_start[i] /\ a_len'[i] = a_len[i]
    BY <2>1, <2>3 DEF Joined
  <2>5. a_loc' \in Seq(Pool!Cells)
    BY <1>6, <1>11 DEF Filling
  <2>6. \A p \in 1 .. Len(a_loc) : a_loc'[p] = a_loc[p]
    <3>1. Sorted(L) \in Seq(Pool!Cells)
      <4>1. L \in SUBSET Nat
        BY <1>8, PoolCells
      <4>2. Cardinality(L) \in Nat /\ Sorted(L) \in [1 .. Cardinality(L) -> L]
        BY <1>7, <4>1, SortedIs
      <4>3. QED
        BY <1>8, <4>2
    <3>2. QED
      BY <1>6, <1>9, <3>1
  <2>7. \A k \in 1 .. a_len[i] : a_loc[a_start[i] + k] = a_loc'[a_start[i] + k]
    <3> TAKE k \in 1 .. a_len[i]
    <3>1. a_start[i] \in Nat /\ a_len[i] \in Nat
      BY <2>1, <2>2
    <3>2. a_start[i] + k \in 1 .. Len(a_loc)
      BY <1>9, <2>2, <3>1
    <3>3. QED
      BY <2>6, <3>2
  <2>8. a_start[i] \in Nat /\ a_len[i] \in Nat
    BY <2>1, <2>2
  <2> HIDE DEF i
  <2>9. Same(SubSeq(a_loc, a_start[i] + 1, a_start[i] + a_len[i]),
             SubSeq(a_loc', a_start[i] + 1, a_start[i] + a_len[i]))
    BY <1>9, <2>5, <2>7, <2>8, SamePiece
  <2>10. idx_map'[a] = i
    BY <1>12 DEF i
  <2>11. QED
    BY <2>4, <2>9, <2>10 DEF SliceIn, i
<1>17. Kept
  BY <1>16, KeptWhen
<1>18. QED
  BY <1>15, <1>17

-----------------------------------------------------------------------------
(* The rows of the cache, and the ways to offload.                         *)
LEMMA TakeKeeps ==
  ASSUME ArraysInv, NEW k \in RowSizes, TakeRow(k)
  PROVE  ArraysInv' /\ Kept
<1> DEFINE L == Pool!Lowest(k)
<1>1. /\ Shared(idle, idle_count, rows, Listed(a_loc))
      /\ Pool!HasRoom(k) /\ idle' = idle \ L
      /\ idle_count' = idle_count - Cardinality(L)
      /\ rows' = rows \cup {L}
      /\ UNCHANGED <<adapter_dirs, idx_map, a_start, a_len, a_loc, in_use>>
  BY SameCardinality DEF ArraysInv, TakeRow, Pool!Mark, arrayVars
<1>2. L \subseteq idle
  BY DEF Pool!Lowest
<1> HIDE DEF L
<1>3. Shared(idle', idle_count', rows', Listed(a_loc)')
  <2>1. Shared(idle \ L, idle_count - Cardinality(L), rows \cup {L}, Listed(a_loc))
    BY <1>1, <1>2, CellsTaken
  <2>2. QED
    BY <1>1, <2>1
<1>4. ArraysInv'
  BY <1>1, <1>3 DEF ArraysInv
<1>5. Kept
  BY <1>1 DEF Kept, CellsOf, Slice
<1>6. QED
  BY <1>4, <1>5

(* A row goes back to the free cells.                                    *)
LEMMA GiveKeeps ==
  ASSUME ArraysInv, NEW row \in rows, GiveRow(row)
  PROVE  ArraysInv' /\ Kept
<1>1. /\ Shared(idle, idle_count, rows, Listed(a_loc))
      /\ idle' = idle \cup row
      /\ idle_count' = idle_count + Cardinality(row)
      /\ rows' = rows \ {row}
      /\ UNCHANGED <<adapter_dirs, idx_map, a_start, a_len, a_loc, in_use>>
  BY DEF ArraysInv, GiveRow, Pool!Free, arrayVars
<1>2. Shared(idle', idle_count', rows', Listed(a_loc)')
  <2>1. Shared(idle \cup row, idle_count + Cardinality(row), rows \ {row}, Listed(a_loc))
    BY <1>1, CellsBack
  <2>2. QED
    BY <1>1, <2>1
<1>3. ArraysInv'
  BY <1>1, <1>2 DEF ArraysInv
<1>4. Kept
  BY <1>1 DEF Kept, CellsOf, Slice
<1>5. QED
  BY <1>3, <1>4

(* Nothing of the arrays and of the pool changes.                          *)
LEMMA RestKeeps ==
  ASSUME ArraysInv, UNCHANGED <<arrayVars, idle, idle_count, rows>>,
         in_use' \subseteq DOMAIN idx_map
  PROVE  ArraysInv' /\ Kept
<1>1. UNCHANGED <<adapter_dirs, idx_map, a_start, a_len, a_loc, idle, idle_count, rows>>
  BY DEF arrayVars
<1>2. ArraysInv'
  BY <1>1 DEF ArraysInv
<1>3. Kept
  BY <1>1 DEF Kept, CellsOf, Slice
<1>4. QED
  BY <1>2, <1>3

(* A list without repetition is as long as the set of its members.         *)
LEMMA ListedSize ==
  ASSUME NEW S, NEW locs \in Seq(S), \A p, q \in 1 .. Len(locs) : locs[p] = locs[q] => p = q
  PROVE  Cardinality(Listed(locs)) = Len(locs)
<1> DEFINE I == 1 .. Len(locs)
           f == [p \in I |-> locs[p]]
<1>1. IsFiniteSet(I) /\ Cardinality(I) = Len(locs)
  BY FirstNumbers
<1>2. f \in Bijection(I, Listed(locs))
  BY DEF Bijection, Injection, Surjection, IsInjective, Listed
<1> HIDE DEF I, f
<1>3. Cardinality(Listed(locs)) = Cardinality(I)
  BY <1>1, <1>2, FS_Bijection DEF ExistsBijection
<1>4. QED
  BY <1>1, <1>3

(* No adapters need no room.                                             *)
LEMMA SizeOfNone == SizeOf({}) = 0
BY SizesNat, SizeOfIs, SumEmpty

(* Empty arrays are in order.                                            *)
LEMMA EmptyArrays ==
  /\ Filed(<<>>, << >>)
  /\ Filling(<<>>, <<>>, <<>>, <<>>)
  /\ Listed(<<>>) = {}
<1>1. 1 .. 0 = {} /\ Len(<<>>) = 0 /\ \A S : <<>> \in Seq(S)
  OBVIOUS
<1>2. <<>> \in [1 .. 0 -> Nat]
  OBVIOUS
<1>3. Tiles(<<>>, <<>>, 0, 0, 0)
  BY <1>1, <1>2 DEF Tiles
<1>4. QED
  BY <1>1, <1>3 DEF Filed, Filling, Listed

(* Everything is offloaded: the count that is freed is that of the cells.*)
LEMMA OffloadAllKeeps ==
  ASSUME ArraysInv, OffloadAll, rows' = rows, in_use' = {}
  PROVE  ArraysInv' /\ Kept
<1> DEFINE L == Listed(a_loc)
<1>1. Shared(idle, idle_count, rows, L) /\ Filling(adapter_dirs, a_start, a_len, a_loc)
  BY DEF ArraysInv
<1>2. Cardinality(L) = Len(a_loc)
  BY <1>1, ListedSize DEF Filling
<1>3. DOMAIN a_loc = 1 .. Len(a_loc)
  BY <1>1 DEF Filling
<1>4. {a_loc[i] : i \in DOMAIN a_loc} = L
  BY <1>3 DEF Listed
<1>5. /\ idle' = idle \cup L /\ idle_count' = idle_count + Cardinality(L)
      /\ adapter_dirs' = <<>> /\ idx_map' = << >>
      /\ a_start' = <<>> /\ a_len' = <<>> /\ a_loc' = <<>>
  BY <1>2, <1>4 DEF OffloadAll, Pool!Free
<1> HIDE DEF L
<1>6. Shared(idle', idle_count', rows', Listed(a_loc'))
  <2>1. Shared(idle \cup L, idle_count + Cardinality(L), rows, L \ L)
    BY <1>1, CellsBack
  <2>2. L \ L = Listed(<<>>)
    BY EmptyArrays
  <2>3. QED
    BY <1>5, <2>1, <2>2
<1>7. Len(a_loc') = SizeOf(DOMAIN idx_map') /\ DOMAIN idx_map' = {}
  BY <1>5, SizeOfNone
<1>8. Filed(adapter_dirs', idx_map') /\ Filling(adapter_dirs', a_start', a_len', a_loc')
  BY <1>5, EmptyArrays
<1>9. ArraysInv'
  BY <1>6, <1>7, <1>8 DEF ArraysInv
<1>10. Kept
  BY <1>7 DEF Kept
<1>11. QED
  BY <1>9, <1>10

(* The copy kernel's blocks: what it writes is one piece, place by place.  *)
Blocked(x) ==
  \E i \in 0 .. x, o \in 0 .. COPY_BLOCK - 1 : i + o = x /\ i % COPY_BLOCK = 0

(* Every offset lies in a block that starts at a multiple of COPY_BLOCK. *)
LEMMA BlockOf ==
  ASSUME NEW x \in Nat
  PROVE  Blocked(x)
<1>1. COPY_BLOCK \in Nat /\ COPY_BLOCK > 0
  BY AdapterAssumption
<1> DEFINE q == x \div COPY_BLOCK
           r == x % COPY_BLOCK
<1>2. q \in Int /\ r \in 0 .. COPY_BLOCK - 1 /\ x = COPY_BLOCK * q + r
  BY <1>1, SMTT(30)
<1>3. q >= 0
  BY <1>1, <1>2, SMTT(30)
<1>4. x - r = COPY_BLOCK * q
  BY <1>1, <1>2
<1>5. (COPY_BLOCK * q) % COPY_BLOCK = 0
  BY <1>1, <1>2, SMTT(30)
<1>6. QED
  <2> DEFINE i == x - r
  <2>1. i \in 0 .. x /\ i % COPY_BLOCK = 0 /\ i + r = x
    BY <1>1, <1>2, <1>3, <1>4, <1>5, SMTT(30)
  <2> HIDE DEF i, r
  <2>2. QED
    BY <1>2, <2>1 DEF Blocked

(* The last block of a length that is a multiple ends with it.           *)
LEMMA BlocksEnd ==
  ASSUME NEW i \in Nat, NEW n \in Nat, i < n, i % COPY_BLOCK = 0, n % COPY_BLOCK = 0
  PROVE  i + COPY_BLOCK <= n
<1>1. COPY_BLOCK \in Nat /\ COPY_BLOCK > 0
  BY AdapterAssumption
<1> DEFINE p == i \div COPY_BLOCK
           q == n \div COPY_BLOCK
<1>2. p \in Int /\ q \in Int /\ i = COPY_BLOCK * p /\ n = COPY_BLOCK * q
  BY <1>1, SMTT(30)
<1> HIDE DEF p, q
<1>3. p + 1 <= q
  BY <1>1, <1>2, SMTT(30)
<1>4. COPY_BLOCK * (p + 1) <= COPY_BLOCK * q
  BY <1>1, <1>2, <1>3, SMTT(30)
<1>5. COPY_BLOCK * (p + 1) = COPY_BLOCK * p + COPY_BLOCK
  BY <1>1, <1>2, SMTT(30)
<1>6. QED
  BY <1>1, <1>2, <1>4, <1>5

(* One program copies the whole piece, place by place, and nothing else. *)
LEMMA CopyIs ==
  ASSUME NEW old \in Nat, NEW n \in Nat, NEW new \in Nat,
         n <= COPY_BLOCK \/ n % COPY_BLOCK = 0
  PROVE  /\ \A j \in 1 .. n : <<new + j, old + j>> \in CopyStores(old, n, new)
         /\ \A s \in CopyStores(old, n, new) : \E j \in 1 .. n : s = <<new + j, old + j>>
<1>1. COPY_BLOCK \in Nat /\ COPY_BLOCK > 0
  BY AdapterAssumption
<1>2. ASSUME NEW j \in 1 .. n
      PROVE  <<new + j, old + j>> \in CopyStores(old, n, new)
  <2> DEFINE x == j - 1
  <2>1. x \in Nat /\ j = x + 1
    OBVIOUS
  <2> HIDE DEF x
  <2>2. Blocked(x)
    BY <2>1, BlockOf
  <2>3. PICK i \in 0 .. x, o \in 0 .. COPY_BLOCK - 1 : i + o = x /\ i % COPY_BLOCK = 0
    BY <2>2 DEF Blocked
  <2> DEFINE A == {k \in 0 .. n - 1 : k % COPY_BLOCK = 0}
             B == {k \in 0 .. COPY_BLOCK - 1 : k < n}
  <2>4. i \in A
    BY <2>1, <2>3
  <2>5. o \in B
    BY <2>1, <2>3
  <2>6. <<new + i + o + 1, old + i + o + 1>> \in CopyStores(old, n, new)
    <3>1. CopyStores(old, n, new) = {<<new + k + l + 1, old + k + l + 1>> : k \in A, l \in B}
      BY DEF CopyStores
    <3> HIDE DEF A, B
    <3>2. QED
      BY <2>4, <2>5, <3>1
  <2>7. new + i + o + 1 = new + j /\ old + i + o + 1 = old + j
    BY <1>1, <2>1, <2>3
  <2>8. QED
    BY <2>6, <2>7
<1>3. ASSUME NEW s \in CopyStores(old, n, new)
      PROVE  \E j \in 1 .. n : s = <<new + j, old + j>>
  <2>1. PICK i \in {k \in 0 .. n - 1 : k % COPY_BLOCK = 0},
             o \in {k \in 0 .. COPY_BLOCK - 1 : k < n} :
               s = <<new + i + o + 1, old + i + o + 1>>
    BY DEF CopyStores
  <2>2. i \in Nat /\ o \in Nat /\ i < n /\ o < n /\ o < COPY_BLOCK /\ i % COPY_BLOCK = 0
    BY <1>1, <2>1
  <2>3. i + o + 1 \in 1 .. n
    <3>1. CASE n % COPY_BLOCK = 0
      <4>1. i + COPY_BLOCK <= n
        BY <2>2, <3>1, BlocksEnd
      <4>2. QED
        BY <1>1, <2>2, <4>1
    <3>2. CASE n <= COPY_BLOCK
      <4>1. i < COPY_BLOCK
        BY <1>1, <2>2, <3>2
      <4>2. i = 0
        BY <1>1, <2>2, <4>1, SMTT(30)
      <4>3. QED
        BY <2>2, <4>2
    <3>3. QED
      BY <3>1, <3>2
  <2>4. new + i + o + 1 = new + (i + o + 1) /\ old + i + o + 1 = old + (i + o + 1)
    BY <2>2
  <2>5. QED
    BY <2>1, <2>3, <2>4
<1>4. QED
  BY <1>2, <1>3

-----------------------------------------------------------------------------
(* The cells of one adapter, as a set.                                     *)
Piece(locs, start, len, i) == {locs[start[i] + j] : j \in 1 .. len[i]}

(* Every place of a piece is a place of a_loc.                           *)
LEMMA PlaceIn ==
  ASSUME NEW dirs \in Seq(Adapter), NEW start, NEW len, NEW locs, Filling(dirs, start, len, locs),
         NEW i \in 1 .. Len(dirs)
  PROVE  /\ start[i] \in Nat /\ len[i] \in Nat
         /\ \A j \in 1 .. len[i] : start[i] + j \in 1 .. Len(locs)
<1>1. /\ start \in [1 .. Len(dirs) -> Nat] /\ len \in [1 .. Len(dirs) -> Nat]
      /\ start[i] + len[i] <= Len(locs) /\ Len(locs) \in Nat
  BY DEF Filling, Tiles
<1>2. start[i] \in Nat /\ len[i] \in Nat
  BY <1>1
<1>3. QED
  BY <1>1, <1>2

(* A slice is the piece in order.                                        *)
LEMMA SliceIs ==
  ASSUME NEW dirs \in Seq(Adapter), NEW start, NEW len, NEW locs, Filling(dirs, start, len, locs),
         NEW i \in 1 .. Len(dirs)
  PROVE  /\ SliceIn(locs, start, len, i) \in Seq(Pool!Cells)
         /\ Len(SliceIn(locs, start, len, i)) = len[i]
         /\ \A k \in 1 .. len[i] : SliceIn(locs, start, len, i)[k] = locs[start[i] + k]
<1> DEFINE a == start[i]
           n == len[i]
           s == SubSeq(locs, a + 1, a + n)
<1>1. a \in Nat /\ n \in Nat /\ \A j \in 1 .. n : a + j \in 1 .. Len(locs)
  BY PlaceIn
<1>2. locs \in Seq(Pool!Cells)
  BY DEF Filling
<1> HIDE DEF a, n
<1>3. (a + n) - (a + 1) + 1 = n
  BY <1>1
<1>4. s = [k \in 1 .. n |-> locs[k + (a + 1) - 1]]
  BY <1>1, <1>3
<1>5. ASSUME NEW k \in 1 .. n PROVE k + (a + 1) - 1 = a + k
  BY <1>1
<1>6. ASSUME NEW k \in 1 .. n PROVE s[k] = locs[a + k] /\ s[k] \in Pool!Cells
  <2>1. s[k] = locs[a + k]
    BY <1>4, <1>5
  <2>2. a + k \in 1 .. Len(locs)
    BY <1>1
  <2>3. locs[a + k] \in Pool!Cells
    BY <1>2, <2>2
  <2>4. QED
    BY <2>1, <2>3
<1>7. s = [k \in 1 .. n |-> s[k]]
  BY <1>4
<1> HIDE DEF s
<1>8. s \in [1 .. n -> Pool!Cells]
  BY <1>6, <1>7
<1>9. s \in Seq(Pool!Cells) /\ Len(s) = n
  BY <1>1, <1>8, ListIs
<1>10. QED
  BY <1>6, <1>9 DEF s, a, n, SliceIn

(* Pieces are as large as their lengths, disjoint, and all of a_loc.     *)
LEMMA PieceIs ==
  ASSUME NEW dirs \in Seq(Adapter), NEW start, NEW len, NEW locs, Filling(dirs, start, len, locs)
  PROVE  /\ \A i \in 1 .. Len(dirs) :
              /\ {SliceIn(locs, start, len, i)[k] : k \in 1 .. len[i]} = Piece(locs, start, len, i)
              /\ Piece(locs, start, len, i) \subseteq Listed(locs)
              /\ IsFiniteSet(Piece(locs, start, len, i))
              /\ Cardinality(Piece(locs, start, len, i)) = len[i]
         /\ \A i, j \in 1 .. Len(dirs) :
              i # j => Piece(locs, start, len, i) \cap Piece(locs, start, len, j) = {}
         /\ \A x \in Listed(locs) : \E i \in 1 .. Len(dirs) : x \in Piece(locs, start, len, i)
<1> DEFINE P(i) == Piece(locs, start, len, i)
           I == 1 .. Len(dirs)
<1>1. locs \in Seq(Pool!Cells) /\ \A p, q \in 1 .. Len(locs) : locs[p] = locs[q] => p = q
  BY DEF Filling
<1>2. ASSUME NEW i \in I
      PROVE  /\ {SliceIn(locs, start, len, i)[k] : k \in 1 .. len[i]} = P(i)
             /\ P(i) \subseteq Listed(locs)
             /\ IsFiniteSet(P(i))
             /\ Cardinality(P(i)) = len[i]
  <2> DEFINE s == SliceIn(locs, start, len, i)
             n == len[i]
  <2>1. /\ s \in Seq(Pool!Cells) /\ Len(s) = n
        /\ \A k \in 1 .. n : s[k] = locs[start[i] + k]
    BY SliceIs
  <2>2. start[i] \in Nat /\ n \in Nat /\ \A j \in 1 .. n : start[i] + j \in 1 .. Len(locs)
    BY PlaceIn
  <2> HIDE DEF s
  <2>3. {s[k] : k \in 1 .. n} = P(i)
    BY <2>1 DEF Piece
  <2>4. P(i) \subseteq Listed(locs)
    BY <2>2 DEF Piece, Listed
  <2>5. P(i) = Listed(s)
    BY <2>1, <2>3 DEF Listed
  <2>6. \A k, l \in 1 .. Len(s) : s[k] = s[l] => k = l
    <3> SUFFICES ASSUME NEW k \in 1 .. n, NEW l \in 1 .. n, s[k] = s[l] PROVE k = l
      BY <2>1
    <3>1. start[i] + k = start[i] + l
      BY <1>1, <2>1, <2>2
    <3>2. QED
      BY <2>2, <3>1
  <2>7. Cardinality(Listed(s)) = Len(s)
    BY <2>1, <2>6, ListedSize
  <2>8. P(i) \in SUBSET Pool!Cells
    BY <1>1, <2>4 DEF Listed
  <2>9. IsFiniteSet(P(i))
    <3> HIDE DEF P
    <3>1. QED
      BY <2>8, PoolCells
  <2>10. QED
    BY <2>1, <2>3, <2>4, <2>5, <2>7, <2>9 DEF s
<1>3. ASSUME NEW i \in I, NEW j \in I, i < j PROVE P(i) \cap P(j) = {}
  <2> SUFFICES ASSUME NEW x \in P(i), x \in P(j) PROVE FALSE
    OBVIOUS
  <2>1. PICK k \in 1 .. len[i] : x = locs[start[i] + k]
    BY DEF Piece
  <2>2. PICK l \in 1 .. len[j] : x = locs[start[j] + l]
    BY DEF Piece
  <2>3. /\ start[i] \in Nat /\ len[i] \in Nat /\ start[i] + k \in 1 .. Len(locs)
        /\ start[j] \in Nat /\ len[j] \in Nat /\ start[j] + l \in 1 .. Len(locs)
    BY PlaceIn
  <2>4. start[i] + k = start[j] + l
    BY <1>1, <2>1, <2>2, <2>3
  <2>5. start[i] + len[i] <= start[j]
    BY <1>3 DEF Filling, Tiles
  <2>6. QED
    BY <2>3, <2>4, <2>5
<1>4. ASSUME NEW i \in I, NEW j \in I, i # j PROVE P(i) \cap P(j) = {}
  <2>1. i < j \/ j < i
    BY <1>4
  <2> HIDE DEF P
  <2>2. QED
    BY <1>3, <2>1
<1>5. ASSUME NEW x \in Listed(locs) PROVE \E i \in I : x \in P(i)
  <2>1. PICK p \in 1 .. Len(locs) : x = locs[p]
    BY DEF Listed
  <2>2. p \in 0 + 1 .. Len(locs)
    OBVIOUS
  <2>3. PICK i \in I : start[i] < p /\ p <= start[i] + len[i]
    BY <2>2 DEF Filling, Tiles
  <2>4. start[i] \in Nat /\ len[i] \in Nat
    BY PlaceIn
  <2>5. p - start[i] \in 1 .. len[i] /\ start[i] + (p - start[i]) = p
    BY <2>3, <2>4
  <2>6. x \in P(i)
    BY <2>1, <2>5 DEF Piece
  <2>7. QED
    BY <2>6
<1>6. QED
  BY <1>2, <1>4, <1>5

-----------------------------------------------------------------------------
(* What is left of the arrays, moved together.                             *)
Compacted(new, left, start, len, c) ==
  /\ new \in [1 .. SumBefore(len, c + 1) -> Pool!Cells]
  /\ \A k \in 1 .. c : \A j \in 1 .. len[k] :
       new[start[k] + j] = a_loc[a_start[left[k]] + j]

(* Together the programs fill the new a_loc, each piece from its old one.*)
LEMMA CopiedIs ==
  ASSUME CopyFits,
         adapter_dirs \in Seq(Adapter), Filling(adapter_dirs, a_start, a_len, a_loc),
         NEW c \in Nat, NEW left \in [1 .. c -> 1 .. Len(adapter_dirs)],
         NEW len \in [1 .. c -> Nat], \A k \in 1 .. c : len[k] = a_len[left[k]],
         NEW start, Tiles(start, len, c, 0, SumBefore(len, c + 1)),
         NEW new \in Copied(left, start, len)
  PROVE  Compacted(new, left, start, len, c)
<1> DEFINE K == 1 .. c
           h == SumBefore(len, c + 1)
           old(k) == a_start[left[k]]
           OneCopy(k) == CopyStores(old(k), len[k], start[k])
           allCopies == UNION {CopyStores(a_start[left[k]], len[k], start[k]) : k \in DOMAIN left}
           from == [to \in 1 .. SumBefore(len, Len(len) + 1) |->
                      {s[2] : s \in {t \in allCopies : t[1] = to}}]
           contested == {to \in DOMAIN from : \E i, j \in from[to] : i # j}
           winner(w, to) == IF to \in contested THEN w[to] ELSE CHOOSE i \in from[to] : TRUE
<1>1. DOMAIN left = K /\ Len(len) = c
  BY ListIs
<1>2. PICK w : /\ \A to \in contested : w[to] \in from[to]
               /\ new = [to \in DOMAIN from |-> a_loc[winner(w, to)]]
  <2>1. new \in Outcomes(from)
    BY DEF Copied
  <2> HIDE DEF from
  <2>2. QED
    BY <2>1 DEF Outcomes
<1>3. ASSUME NEW k \in K
      PROVE  /\ old(k) \in Nat /\ len[k] \in Nat /\ start[k] \in Nat
             /\ \A j \in 1 .. len[k] : old(k) + j \in 1 .. Len(a_loc)
             /\ len[k] <= COPY_BLOCK \/ len[k] % COPY_BLOCK = 0
  <2>1. left[k] \in 1 .. Len(adapter_dirs) /\ len[k] = a_len[left[k]]
    OBVIOUS
  <2>2. /\ a_start[left[k]] \in Nat /\ a_len[left[k]] \in Nat
        /\ \A j \in 1 .. a_len[left[k]] : a_start[left[k]] + j \in 1 .. Len(a_loc)
    BY <2>1, PlaceIn
  <2>3. start[k] \in Nat
    BY DEF Tiles
  <2>4. len[k] = Size(adapter_dirs[left[k]]) /\ adapter_dirs[left[k]] \in Adapter
    BY <2>1 DEF Filling
  <2>5. len[k] <= COPY_BLOCK \/ len[k] % COPY_BLOCK = 0
    BY <2>4 DEF CopyFits
  <2>6. QED
    BY <2>1, <2>2, <2>3, <2>5
<1>4. ASSUME NEW k \in K
      PROVE  /\ \A j \in 1 .. len[k] : <<start[k] + j, old(k) + j>> \in OneCopy(k)
             /\ \A s \in OneCopy(k) : \E j \in 1 .. len[k] : s = <<start[k] + j, old(k) + j>>
  BY <1>3, CopyIs
<1> DEFINE pieces == UNION {OneCopy(k) : k \in K}
<1>5. allCopies = pieces /\ DOMAIN from = 1 .. h
  BY <1>1
<1> HIDE DEF OneCopy, allCopies
<1>6. ASSUME NEW k \in K, NEW j \in 1 .. len[k]
      PROVE  /\ <<start[k] + j, old(k) + j>> \in allCopies
             /\ \A s \in allCopies : s[1] = start[k] + j => s[2] = old(k) + j
  <2>1. <<start[k] + j, old(k) + j>> \in allCopies
    BY <1>4, <1>5
  <2>2. ASSUME NEW s \in allCopies, s[1] = start[k] + j PROVE s[2] = old(k) + j
    <3>1. PICK l \in K : s \in OneCopy(l)
      BY <1>5
    <3>2. PICK i \in 1 .. len[l] : s = <<start[l] + i, old(l) + i>>
      BY <1>4, <3>1
    <3>3. start[l] + i = start[k] + j
      BY <2>2, <3>2
    <3>4. start[l] \in Nat /\ len[l] \in Nat /\ start[k] \in Nat /\ len[k] \in Nat
      BY <1>3
    <3>5. /\ l < k => start[l] + len[l] <= start[k]
          /\ k < l => start[k] + len[k] <= start[l]
      BY DEF Tiles
    <3>6. l = k
      <4>1. i \in Int /\ 1 <= i /\ i <= len[l] /\ j \in Int /\ 1 <= j /\ j <= len[k]
        BY <3>4
      <4> DEFINE a == start[l]
                 b == start[k]
                 x == len[l]
                 y == len[k]
      <4>2. ~ (a + x <= b) /\ ~ (b + y <= a)
        <5>1. a \in Nat /\ b \in Nat /\ x \in Nat /\ y \in Nat /\ a + i = b + j /\ i <= x /\ j <= y
          BY <3>3, <3>4, <4>1
        <5> HIDE DEF a, b, x, y
        <5>2. QED
          BY <4>1, <5>1
      <4>3. l \in Nat /\ k \in Nat
        OBVIOUS
      <4>4. QED
        BY <3>5, <4>2, <4>3
    <3>7. i = j
      <4>1. start[l] = start[k]
        BY <3>6
      <4>2. i \in Int /\ j \in Int
        OBVIOUS
      <4>3. QED
        BY <3>3, <3>4, <4>1, <4>2, SMTT(20)
    <3>8. QED
      BY <3>2, <3>6, <3>7
  <2>3. QED
    BY <2>1, <2>2
<1>7. ASSUME NEW k \in K, NEW j \in 1 .. len[k]
      PROVE  start[k] + j \in 1 .. h
  <2>1. start[k] \in Nat /\ len[k] \in Nat /\ h \in Nat /\ start[k] + len[k] <= h
    BY <1>3 DEF Tiles
  <2> HIDE DEF h
  <2>2. QED
    BY <2>1
<1> HIDE DEF h
<1>8. ASSUME NEW k \in K, NEW j \in 1 .. len[k]
      PROVE  new[start[k] + j] = a_loc[old(k) + j]
  <2> DEFINE to == start[k] + j
  <2>1. to \in 1 .. h /\ to \in DOMAIN from
    BY <1>7, <1>5
  <2>2. from[to] = {old(k) + j}
    <3>1. /\ <<to, old(k) + j>> \in allCopies
          /\ \A s \in allCopies : s[1] = to => s[2] = old(k) + j
      BY <1>6
    <3> DEFINE t == <<to, old(k) + j>>
    <3>2. t \in allCopies /\ t[1] = to /\ t[2] = old(k) + j
      BY <3>1
    <3> HIDE DEF t, to
    <3>3. {s[2] : s \in {u \in allCopies : u[1] = to}} = {old(k) + j}
      BY <3>1, <3>2
    <3>4. QED
      BY <2>1, <3>3
  <2> HIDE DEF from
  <2>3. winner(w, to) = old(k) + j
    BY <1>2, <2>2
  <2> HIDE DEF to, winner
  <2>4. QED
    BY <1>2, <2>1, <2>3 DEF to
<1>9. ASSUME NEW p \in 1 .. h PROVE new[p] \in Pool!Cells
  <2>1. p \in 0 + 1 .. h
    OBVIOUS
  <2>2. PICK k \in K : start[k] < p /\ p <= start[k] + len[k]
    BY <2>1 DEF Tiles, h
  <2>3. start[k] \in Nat /\ len[k] \in Nat
    BY <1>3
  <2>4. p - start[k] \in 1 .. len[k] /\ start[k] + (p - start[k]) = p
    BY <2>2, <2>3
  <2>5. new[p] = a_loc[old(k) + (p - start[k])] /\ old(k) + (p - start[k]) \in 1 .. Len(a_loc)
    BY <1>3, <1>8, <2>4
  <2>6. a_loc \in Seq(Pool!Cells)
    BY DEF Filling
  <2>7. QED
    BY <2>5, <2>6
<1>10. new = [p \in 1 .. h |-> new[p]]
  <2> HIDE DEF winner, from
  <2>1. QED
    BY <1>2, <1>5
<1>11. new \in [1 .. h -> Pool!Cells]
  BY <1>9, <1>10
<1>12. QED
  BY <1>8, <1>11 DEF Compacted, h

(* Some of the adapters, in the order of left, with their lengths.         *)
Selected(left, len, dirs, c) ==
  /\ c \in Nat /\ left \in [1 .. c -> 1 .. Len(adapter_dirs)]
  /\ \A k, l \in 1 .. c : left[k] = left[l] => k = l
  /\ len \in [1 .. c -> Nat] /\ \A k \in 1 .. c : len[k] = a_len[left[k]]
  /\ dirs \in [1 .. c -> Adapter] /\ \A k \in 1 .. c : dirs[k] = adapter_dirs[left[k]]

(* Each keeps its cells, in their order.                                   *)
StillThere(new, left, start, len, c) ==
  \A k \in 1 .. c :
    /\ Piece(new, start, len, k) = Piece(a_loc, a_start, a_len, left[k])
    /\ Same(SliceIn(a_loc, a_start, a_len, left[k]), SliceIn(new, start, len, k))

(* The arrays compacted to the adapters that stay are in order again.    *)
LEMMA CompactFills ==
  ASSUME adapter_dirs \in Seq(Adapter), Filling(adapter_dirs, a_start, a_len, a_loc),
         NEW left, NEW len, NEW dirs, NEW c, Selected(left, len, dirs, c),
         NEW start, Tiles(start, len, c, 0, SumBefore(len, c + 1)),
         NEW new, Compacted(new, left, start, len, c)
  PROVE  /\ Filling(dirs, start, len, new)
         /\ Len(new) = SumBefore(len, c + 1)
         /\ StillThere(new, left, start, len, c)
<1> DEFINE h == SumBefore(len, c + 1)
           old(k) == a_start[left[k]]
<1>1. /\ c \in Nat /\ left \in [1 .. c -> 1 .. Len(adapter_dirs)]
      /\ \A k, l \in 1 .. c : left[k] = left[l] => k = l
      /\ len \in [1 .. c -> Nat] /\ \A k \in 1 .. c : len[k] = a_len[left[k]]
      /\ dirs \in [1 .. c -> Adapter] /\ \A k \in 1 .. c : dirs[k] = adapter_dirs[left[k]]
  BY DEF Selected
<1>2. new \in [1 .. h -> Pool!Cells] /\ h \in Nat
  BY DEF Compacted, Tiles
<1>3. \A k \in 1 .. c : \A j \in 1 .. len[k] : new[start[k] + j] = a_loc[old(k) + j]
  BY DEF Compacted
<1> HIDE DEF h
<1>4. new \in Seq(Pool!Cells) /\ Len(new) = h /\ Len(dirs) = c
  BY <1>1, <1>2, ListIs
<1>5. a_loc \in Seq(Pool!Cells) /\ \A p, q \in 1 .. Len(a_loc) : a_loc[p] = a_loc[q] => p = q
  BY DEF Filling
<1>6. ASSUME NEW k \in 1 .. c
      PROVE  /\ old(k) \in Nat /\ len[k] \in Nat /\ start[k] \in Nat
             /\ \A j \in 1 .. len[k] : old(k) + j \in 1 .. Len(a_loc)
             /\ left[k] \in 1 .. Len(adapter_dirs)
  <2>1. left[k] \in 1 .. Len(adapter_dirs) /\ len[k] = a_len[left[k]]
    BY <1>1
  <2>2. /\ a_start[left[k]] \in Nat /\ a_len[left[k]] \in Nat
        /\ \A j \in 1 .. a_len[left[k]] : a_start[left[k]] + j \in 1 .. Len(a_loc)
    BY <2>1, PlaceIn
  <2>3. start[k] \in Nat
    BY DEF Tiles
  <2>4. QED
    BY <2>1, <2>2, <2>3
<1>7. ASSUME NEW p \in 1 .. h
      PROVE  \E k \in 1 .. c : \E j \in 1 .. len[k] : p = start[k] + j
  <2>1. p \in 0 + 1 .. h
    OBVIOUS
  <2>2. PICK k \in 1 .. c : start[k] < p /\ p <= start[k] + len[k]
    BY <2>1 DEF Tiles, h
  <2>3. start[k] \in Nat /\ len[k] \in Nat
    BY <1>6
  <2>4. p - start[k] \in 1 .. len[k] /\ p = start[k] + (p - start[k])
    BY <2>2, <2>3
  <2>5. QED
    BY <2>4
<1>8. \A k \in 1 .. c : len[k] = Size(dirs[k])
  <2> TAKE k \in 1 .. c
  <2>1. left[k] \in 1 .. Len(adapter_dirs) /\ len[k] = a_len[left[k]]
        /\ dirs[k] = adapter_dirs[left[k]]
    BY <1>1
  <2>2. a_len[left[k]] = Size(adapter_dirs[left[k]])
    BY <2>1 DEF Filling
  <2>3. QED
    BY <2>1, <2>2
<1>9. ASSUME NEW p \in 1 .. h, NEW q \in 1 .. h, new[p] = new[q] PROVE p = q
  <2>1. PICK k \in 1 .. c : \E j \in 1 .. len[k] : p = start[k] + j
    BY <1>7
  <2>2. PICK j \in 1 .. len[k] : p = start[k] + j
    BY <2>1
  <2>3. PICK l \in 1 .. c : \E i \in 1 .. len[l] : q = start[l] + i
    BY <1>7
  <2>4. PICK i \in 1 .. len[l] : q = start[l] + i
    BY <2>3
  <2>5. a_loc[old(k) + j] = a_loc[old(l) + i]
    BY <1>3, <1>9, <2>2, <2>4
  <2>6. /\ left[k] \in 1 .. Len(adapter_dirs) /\ left[l] \in 1 .. Len(adapter_dirs)
        /\ len[k] = a_len[left[k]] /\ len[l] = a_len[left[l]]
    BY <1>1
  <2>7. /\ a_loc[old(k) + j] \in Piece(a_loc, a_start, a_len, left[k])
        /\ a_loc[old(l) + i] \in Piece(a_loc, a_start, a_len, left[l])
    BY <2>6 DEF Piece
  <2> DEFINE P(x) == Piece(a_loc, a_start, a_len, x)
  <2>8. left[k] = left[l]
    <3>1. \A x, y \in 1 .. Len(adapter_dirs) : x # y => P(x) \cap P(y) = {}
      BY PieceIs
    <3> HIDE DEF P
    <3>2. QED
      BY <2>5, <2>6, <2>7, <3>1 DEF P
  <2>9. k = l
    BY <1>1, <2>8
  <2>10. /\ old(k) \in Nat /\ old(k) + j \in 1 .. Len(a_loc) /\ old(l) + i \in 1 .. Len(a_loc)
    BY <1>6
  <2>11. old(k) + j = old(k) + i
    BY <1>5, <2>5, <2>9, <2>10
  <2>12. j = i
    BY <2>10, <2>11
  <2>13. QED
    BY <2>2, <2>4, <2>9, <2>12
<1>10. Filling(dirs, start, len, new)
  <2>1. dirs \in Seq(Adapter)
    BY <1>1
  <2>2. Tiles(start, len, c, 0, h)
    BY DEF h
  <2>3. QED
    BY <1>4, <1>8, <1>9, <2>1, <2>2 DEF Filling
<1>11. ASSUME NEW k \in 1 .. c
       PROVE  /\ Piece(new, start, len, k) = Piece(a_loc, a_start, a_len, left[k])
              /\ Same(SliceIn(a_loc, a_start, a_len, left[k]), SliceIn(new, start, len, k))
  <2> DEFINE n == len[k]
  <2>1. a_len[left[k]] = n
    BY <1>1
  <2>2. \A j \in 1 .. n : new[start[k] + j] = a_loc[old(k) + j]
    BY <1>3
  <2>3. Piece(new, start, len, k) = Piece(a_loc, a_start, a_len, left[k])
    BY <2>1, <2>2 DEF Piece
  <2>4. old(k) \in Nat /\ start[k] \in Nat /\ n \in Nat
    BY <1>6
  <2> DEFINE a == old(k)
             b == start[k]
  <2> HIDE DEF n, a, b
  <2>5. Same(SubSeq(a_loc, a + 1, a + n), SubSeq(new, b + 1, b + n))
    <3>1. \A j \in 1 .. n : a_loc[a + j] = new[b + j]
      BY <2>2 DEF a, b
    <3>2. a \in Nat /\ b \in Nat /\ n \in Nat
      BY <2>4 DEF a, b
    <3>3. QED
      BY <1>4, <1>5, <3>1, <3>2, SamePiece
  <2>6. QED
    BY <2>1, <2>3, <2>5 DEF SliceIn, a, b, n
<1>12. QED
  BY <1>4, <1>10, <1>11 DEF StillThere, h

SelectedIndex(left, S) ==
  [a \in {adapter_dirs[i] : i \in S} |-> CHOOSE k \in DOMAIN left : adapter_dirs[left[k]] = a]

Chooses(left, S, c) ==
  /\ \A k \in 1 .. c : left[k] \in S
  /\ \A i \in S : \E k \in 1 .. c : left[k] = i

(* The index rebuilt for the adapters that stay is their list's.         *)
LEMMA FiledSelected ==
  ASSUME Filed(adapter_dirs, idx_map),
         NEW left, NEW len, NEW dirs, NEW c, Selected(left, len, dirs, c),
         NEW S \in SUBSET (1 .. Len(adapter_dirs)), Chooses(left, S, c)
  PROVE  Filed(dirs, SelectedIndex(left, S))
<1> DEFINE idx == SelectedIndex(left, S)
           D == {adapter_dirs[i] : i \in S}
<1>1. /\ c \in Nat /\ left \in [1 .. c -> 1 .. Len(adapter_dirs)]
      /\ \A k, l \in 1 .. c : left[k] = left[l] => k = l
      /\ dirs \in [1 .. c -> Adapter] /\ \A k \in 1 .. c : dirs[k] = adapter_dirs[left[k]]
  BY DEF Selected
<1>2. /\ \A k \in 1 .. c : left[k] \in S
      /\ \A i \in S : \E k \in 1 .. c : left[k] = i
  BY DEF Chooses
<1>3. DOMAIN left = 1 .. c /\ dirs \in Seq(Adapter) /\ Len(dirs) = c
  BY <1>1, ListIs
<1>4. \A i, j \in 1 .. Len(adapter_dirs) : adapter_dirs[i] = adapter_dirs[j] => i = j
  BY DEF Filed
<1>5. DOMAIN idx = D /\ \A a \in D : idx[a] = CHOOSE k \in 1 .. c : adapter_dirs[left[k]] = a
  BY <1>3 DEF SelectedIndex
<1>6. \A k, l \in 1 .. c : dirs[k] = dirs[l] => k = l
  <2> SUFFICES ASSUME NEW k \in 1 .. c, NEW l \in 1 .. c, dirs[k] = dirs[l] PROVE k = l
    OBVIOUS
  <2>1. left[k] \in 1 .. Len(adapter_dirs) /\ left[l] \in 1 .. Len(adapter_dirs)
    BY <1>1
  <2>2. left[k] = left[l]
    BY <1>1, <1>4, <2>1
  <2>3. QED
    BY <1>1, <2>2
<1> HIDE DEF idx, D
<1>7. ASSUME NEW k \in 1 .. c PROVE dirs[k] \in D /\ idx[dirs[k]] = k
  <2>1. dirs[k] \in D
    BY <1>1, <1>2 DEF D
  <2>2. (CHOOSE l \in 1 .. c : adapter_dirs[left[l]] = dirs[k]) = k
    <3>1. \A l \in 1 .. c : adapter_dirs[left[l]] = dirs[l]
      BY <1>1
    <3>2. QED
      BY <1>6, <3>1
  <2>3. QED
    BY <1>5, <2>1, <2>2
<1>8. ASSUME NEW a \in D PROVE \E k \in 1 .. c : dirs[k] = a
  <2>1. PICK i \in S : a = adapter_dirs[i]
    BY DEF D
  <2>2. PICK k \in 1 .. c : left[k] = i
    BY <1>2
  <2>3. QED
    BY <1>1, <2>1, <2>2
<1>9. D = {dirs[k] : k \in 1 .. c}
  BY <1>7, <1>8
<1>10. QED
  BY <1>3, <1>5, <1>6, <1>7, <1>9 DEF Filed, idx

(* The cells of the adapters that go, and how many they are.               *)
Freed(gone) == UNION {Piece(a_loc, a_start, a_len, i) : i \in gone}

(* What offload frees is the pieces of those that go, counted exactly.   *)
LEMMA FreedIs ==
  ASSUME adapter_dirs \in Seq(Adapter), Filling(adapter_dirs, a_start, a_len, a_loc),
         NEW gone \in SUBSET (1 .. Len(adapter_dirs))
  PROVE  /\ UNION {{Slice(i)[k] : k \in 1 .. a_len[i]} : i \in gone} = Freed(gone)
         /\ MapThenSumSet(LAMBDA i : a_len[i], gone) = Cardinality(Freed(gone))
         /\ Freed(gone) \subseteq Listed(a_loc)
<1> DEFINE I == 1 .. Len(adapter_dirs)
           P(i) == Piece(a_loc, a_start, a_len, i)
           F == [i \in I |-> P(i)]
<1>1. /\ \A i \in I : /\ {SliceIn(a_loc, a_start, a_len, i)[k] : k \in 1 .. a_len[i]} = P(i)
                      /\ P(i) \subseteq Listed(a_loc)
                      /\ IsFiniteSet(P(i)) /\ Cardinality(P(i)) = a_len[i]
      /\ \A i, j \in I : i # j => P(i) \cap P(j) = {}
  BY PieceIs
<1>2. IsFiniteSet(I) /\ a_len \in [I -> Nat]
  BY FirstNumbers DEF Filling, Tiles
<1>3. \A i : Slice(i) = SliceIn(a_loc, a_start, a_len, i)
  BY DEF Slice, SliceIn
<1> HIDE DEF P
<1>4. /\ \A i \in I : IsFiniteSet(F[i]) /\ Cardinality(F[i]) = a_len[i]
      /\ \A i, j \in I : i # j => F[i] \cap F[j] = {}
      /\ \A i \in gone : F[i] = P(i)
  BY <1>1
<1> HIDE DEF F, I
<1>5. gone \in SUBSET I
  BY DEF I
<1>6. SizedBy(a_len, F, gone)
  BY <1>2, <1>4, <1>5, PartsAdd
<1>7. UNION {F[i] : i \in gone} = Freed(gone)
  BY <1>4 DEF Freed, P
<1>8. MapThenSumSet(LAMBDA i : a_len[i], gone) = SumOver(a_len, gone)
  BY DEF SumOver
<1>9. UNION {{Slice(i)[k] : k \in 1 .. a_len[i]} : i \in gone} = Freed(gone)
  <2>1. \A i \in gone : {Slice(i)[k] : k \in 1 .. a_len[i]} = P(i)
    BY <1>1, <1>3, <1>5
  <2>2. Freed(gone) = UNION {P(i) : i \in gone}
    BY DEF Freed, P
  <2>3. QED
    BY <2>1, <2>2
<1>10. Freed(gone) \subseteq Listed(a_loc)
  BY <1>1, <1>5 DEF Freed, P
<1>11. QED
  BY <1>6, <1>7, <1>8, <1>9, <1>10 DEF SizedBy

(* A partial offload keeps the arrays in order and moves nobody who stays.*)
LEMMA OffloadSomeKeeps ==
  ASSUME CopyFits, ArraysInv, NEW reserve \in SUBSET in_use, OffloadSome(reserve),
         rows' = rows, in_use' = reserve
  PROVE  ArraysInv' /\ Kept
<1> DEFINE I == 1 .. Len(adapter_dirs)
           S == Staying(reserve)
           c == Cardinality(S)
           left == Sorted(S)
           gone == I \ S
           len == [k \in DOMAIN left |-> a_len[left[k]]]
           start == [k \in DOMAIN left |-> SumBefore(len, k)]
           dirs == [k \in DOMAIN left |-> adapter_dirs[left[k]]]
           new == a_loc'
<1>1. /\ Filed(adapter_dirs, idx_map)
      /\ Filling(adapter_dirs, a_start, a_len, a_loc)
      /\ Shared(idle, idle_count, rows, Listed(a_loc))
      /\ in_use \subseteq DOMAIN idx_map
  BY DEF ArraysInv
<1>2. /\ adapter_dirs \in [I -> Adapter] /\ DOMAIN adapter_dirs = I /\ Len(adapter_dirs) \in Nat
      /\ a_len \in [I -> Nat] /\ adapter_dirs \in Seq(Adapter)
  BY <1>1 DEF Filed, Filling, Tiles
<1>3. S \in SUBSET I /\ \A i \in I : adapter_dirs[i] \in reserve => i \in S
  BY <1>2 DEF Staying
<1>4. IsFiniteSet(S) /\ S \in SUBSET Nat /\ I \in SUBSET Nat
  <2>1. IsFiniteSet(I)
    BY <1>2, FirstNumbers
  <2>2. I \in SUBSET Nat
    OBVIOUS
  <2> HIDE DEF S, I
  <2>3. QED
    BY <1>3, <2>1, <2>2, FS_Subset
<1>5. /\ idle' = idle \cup UNION {{Slice(i)[k] : k \in 1 .. a_len[i]} : i \in gone}
      /\ idle_count' = idle_count + MapThenSumSet(LAMBDA i : a_len[i], gone)
      /\ adapter_dirs' = dirs
      /\ idx_map' = SelectedIndex(left, S)
      /\ a_len' = len /\ a_start' = start /\ new \in Copied(left, start, len)
  BY <1>2 DEF OffloadSome, Pool!Free, SelectedIndex
<1> HIDE DEF S
<1>6. /\ c \in Nat /\ left \in [1 .. c -> S]
      /\ \A k, l \in 1 .. c : left[k] = left[l] => k = l
      /\ \A i \in S : \E k \in 1 .. c : left[k] = i
  BY <1>4, SortedIs
<1> HIDE DEF left, c
<1>7. DOMAIN left = 1 .. c /\ left \in [1 .. c -> I]
  BY <1>3, <1>6
<1> HIDE DEF I
<1>8. /\ len \in [1 .. c -> Nat] /\ \A k \in 1 .. c : len[k] = a_len[left[k]]
      /\ dirs \in [1 .. c -> Adapter] /\ \A k \in 1 .. c : dirs[k] = adapter_dirs[left[k]]
      /\ start = [k \in 1 .. c |-> SumBefore(len, k)]
  BY <1>2, <1>7
<1> HIDE DEF len, dirs, start
<1>9. Selected(left, len, dirs, c) /\ Chooses(left, S, c)
  BY <1>6, <1>7, <1>8 DEF Selected, Chooses, I
<1> DEFINE h == SumBefore(len, c + 1)
<1>10. Tiles(start, len, c, 0, h)
  <2>1. \A i \in 1 .. c : i \in 1 .. c + 1
    BY <1>6
  <2>2. \A i \in 1 .. c : SumBefore(len, i) \in Nat
    BY <1>6, <1>8, <2>1, SumBeforeIs
  <2>3. start \in [1 .. c -> Nat] /\ \A i \in 1 .. c : start[i] = 0 + SumBefore(len, i)
    BY <1>8, <2>2
  <2>4. Tiles(start, len, c, 0, 0 + h)
    BY <1>6, <1>8, <2>3, PiecesTile
  <2>5. h \in Nat
    <3>1. c + 1 \in 1 .. c + 1
      BY <1>6
    <3>2. QED
      BY <1>6, <1>8, <3>1, SumBeforeIs
  <2>6. 0 + h = h
    BY <2>5
  <2>7. QED
    BY <2>4, <2>6
<1>11. Compacted(new, left, start, len, c)
  BY <1>1, <1>2, <1>5, <1>6, <1>7, <1>8, <1>10, CopiedIs DEF I
<1> HIDE DEF new
<1>12. /\ Filling(dirs, start, len, new)
       /\ Len(new) = h
       /\ StillThere(new, left, start, len, c)
  BY <1>1, <1>2, <1>9, <1>10, <1>11, CompactFills
<1>13. Filed(dirs, SelectedIndex(left, S))
  BY <1>1, <1>3, <1>9, FiledSelected DEF I
<1>14. dirs \in Seq(Adapter) /\ Len(dirs) = c
  BY <1>6, <1>8, ListIs
<1>15. h = SizeOf(DOMAIN SelectedIndex(left, S))
  <2>1. /\ \A i, j \in 1 .. c : dirs[i] = dirs[j] => i = j
        /\ DOMAIN SelectedIndex(left, S) = {dirs[i] : i \in 1 .. c}
    BY <1>13, <1>14 DEF Filed
  <2>2. \A i \in 1 .. c : len[i] = Size(dirs[i])
    BY <1>12, <1>14 DEF Filling
  <2>3. SumBefore(len, c + 1) = SizeOf({dirs[i] : i \in 1 .. c})
    <3>1. /\ c \in Nat /\ dirs \in [1 .. c -> Adapter] /\ len \in [1 .. c -> Nat]
          /\ \A i, j \in 1 .. c : dirs[i] = dirs[j] => i = j
          /\ \A i \in 1 .. c : len[i] = Size(dirs[i])
      BY <1>6, <1>8, <2>1, <2>2
    <3>2. QED
      BY ONLY <3>1, SizesAdd, SMTT(30)
  <2>4. QED
    BY <2>1, <2>3
<1>16. gone \in SUBSET I
  OBVIOUS
<1> DEFINE F == Freed(gone)
<1>17. /\ idle' = idle \cup F /\ idle_count' = idle_count + Cardinality(F)
       /\ F \subseteq Listed(a_loc)
  <2>1. /\ UNION {{Slice(i)[k] : k \in 1 .. a_len[i]} : i \in gone} = Freed(gone)
        /\ MapThenSumSet(LAMBDA i : a_len[i], gone) = Cardinality(Freed(gone))
        /\ Freed(gone) \subseteq Listed(a_loc)
    BY <1>1, <1>2, <1>16, FreedIs DEF I
  <2>2. QED
    BY <1>5, <2>1
<1>18. Listed(new) = Listed(a_loc) \ F
  <2> DEFINE P(i) == Piece(a_loc, a_start, a_len, i)
             Q(k) == Piece(new, start, len, k)
  <2>1. /\ \A i \in I : P(i) \subseteq Listed(a_loc)
        /\ \A i, j \in I : i # j => P(i) \cap P(j) = {}
        /\ \A x \in Listed(a_loc) : \E i \in I : x \in P(i)
    BY <1>1, <1>2, PieceIs DEF I
  <2>2. /\ \A k \in 1 .. c : Q(k) \subseteq Listed(new)
        /\ \A x \in Listed(new) : \E k \in 1 .. c : x \in Q(k)
    BY <1>12, <1>14, PieceIs
  <2>3. \A k \in 1 .. c : Q(k) = P(left[k])
    BY <1>12 DEF StillThere
  <2>4. F = UNION {P(i) : i \in gone}
    BY DEF Freed
  <2> HIDE DEF P, Q, F
  <2>5. ASSUME NEW x \in Listed(new) PROVE x \in Listed(a_loc) \ F
    <3>1. PICK k \in 1 .. c : x \in Q(k)
      BY <2>2
    <3>2. x \in P(left[k]) /\ left[k] \in S /\ left[k] \in I
      BY <1>6, <1>7, <2>3, <3>1
    <3>3. x \in Listed(a_loc)
      BY <2>1, <3>2
    <3>4. \A i \in gone : x \notin P(i)
      BY <2>1, <3>2
    <3>5. QED
      BY <2>4, <3>3, <3>4
  <2>6. ASSUME NEW x \in Listed(a_loc) \ F PROVE x \in Listed(new)
    <3>1. PICK i \in I : x \in P(i)
      BY <2>1
    <3>2. i \in S
      BY <2>4, <3>1
    <3>3. PICK k \in 1 .. c : left[k] = i
      BY <1>6, <3>2
    <3>4. x \in Q(k)
      BY <2>3, <3>1, <3>3
    <3>5. QED
      BY <2>2, <3>4
  <2>7. QED
    BY <2>5, <2>6
<1> HIDE DEF F
<1>19. Shared(idle', idle_count', rows', Listed(a_loc'))
  <2>1. Shared(idle \cup F, idle_count + Cardinality(F), rows, Listed(a_loc) \ F)
    BY <1>1, <1>17, CellsBack
  <2>2. QED
    BY <1>5, <1>17, <1>18, <2>1 DEF new
<1>20. in_use' \subseteq DOMAIN idx_map'
  <2>1. DOMAIN idx_map' = {adapter_dirs[i] : i \in S}
    BY <1>5 DEF SelectedIndex
  <2>2. DOMAIN idx_map = {adapter_dirs[i] : i \in I}
    BY <1>1 DEF Filed, I
  <2>3. QED
    BY <1>1, <1>3, <2>1, <2>2
<1>21. ArraysInv'
  BY <1>5, <1>12, <1>13, <1>15, <1>19, <1>20 DEF ArraysInv, new
<1>22. ASSUME NEW a \in DOMAIN idx_map \cap DOMAIN idx_map'
       PROVE  Same(SliceIn(a_loc, a_start, a_len, idx_map[a]),
                   SliceIn(a_loc', a_start', a_len', idx_map'[a]))
  <2>1. DOMAIN idx_map' = {dirs[k] : k \in 1 .. c} /\ \A k \in 1 .. c : idx_map'[dirs[k]] = k
    BY <1>5, <1>13, <1>14 DEF Filed
  <2>2. PICK k \in 1 .. c : a = dirs[k]
    BY <2>1
  <2>3. idx_map'[a] = k
    BY <2>1, <2>2
  <2>4. idx_map[a] = left[k]
    <3>1. left[k] \in I /\ a = adapter_dirs[left[k]]
      BY <1>7, <1>8, <2>2
    <3>2. QED
      BY <1>1, <3>1 DEF Filed, I
  <2>5. Same(SliceIn(a_loc, a_start, a_len, left[k]), SliceIn(new, start, len, k))
    BY <1>12 DEF StillThere
  <2>6. QED
    BY <1>5, <2>3, <2>4, <2>5 DEF new
<1>23. Kept
  BY <1>22, KeptWhen
<1>24. QED
  BY <1>21, <1>23

-----------------------------------------------------------------------------
(* The steps.                                                              *)
LEMMA OrderIs ==
  ASSUME NEW S \in SUBSET Adapter, NEW s \in SetToSeqs(S)
  PROVE  /\ s \in Seq(Adapter) /\ Range(s) = S
         /\ \A i, j \in 1 .. Len(s) : s[i] = s[j] => i = j
<1> DEFINE n == Cardinality(S)
           D == 1 .. n
<1>1. IsFiniteSet(S) /\ n \in Nat
  BY SizesNat, FS_Subset, FS_CardinalityType
<1>2. s \in [D -> S] /\ \A i, j \in D : i # j => s[i] # s[j]
  BY DEF SetToSeqs
<1>3. IsFiniteSet(D) /\ Cardinality(D) = n
  BY <1>1, FirstNumbers
<1> HIDE DEF D
<1>4. s \in Injection(D, S)
  BY <1>2 DEF Injection, IsInjective
<1>5. s \in Surjection(D, S)
  BY <1>1, <1>3, <1>4, FS_Injection
<1> HIDE DEF n
<1>6. s \in Seq(S) /\ Len(s) = n /\ DOMAIN s = D
  BY <1>1, <1>2, ListIs DEF D
<1>7. Range(s) = S
  BY <1>2, <1>5 DEF Range, Surjection
<1>8. s \in Seq(Adapter)
  <2>1. s \in [1 .. n -> Adapter]
    BY <1>2 DEF D
  <2>2. QED
    BY <1>1, <2>1, ListIs
<1>9. QED
  BY <1>2, <1>6, <1>7, <1>8 DEF D

(* The adapters to load are not loaded and come once each.               *)
LEMMA OrderFresh ==
  ASSUME NEW S \in SUBSET Adapter, \A a \in S : IsNew(a), NEW new \in SetToSeqs(S)
  PROVE  Fresh(new, idx_map) /\ Range(new) = S
<1>1. /\ new \in Seq(Adapter) /\ Range(new) = S
      /\ \A i, j \in 1 .. Len(new) : new[i] = new[j] => i = j
  BY OrderIs
<1>2. \A i \in 1 .. Len(new) : new[i] \in Range(new)
  BY <1>1 DEF Range
<1>3. \A i \in 1 .. Len(new) : new[i] \notin DOMAIN idx_map
  BY <1>1, <1>2 DEF IsNew
<1>4. QED
  BY <1>1, <1>3 DEF Fresh

(* load_adapters for a batch loads all that the batch lacks.             *)
LEMMA LoadKeeps ==
  ASSUME ArraysInv, NEW dirs \in SUBSET Adapter, LoadAdapters(dirs)
  PROVE  ArraysInv' /\ Kept
<1> DEFINE S == {a \in dirs : IsNew(a)}
<1>1. PICK new \in SetToSeqs(S) : AddAdapters(new)
  BY DEF LoadAdapters
<1>2. in_use' = in_use \cup dirs /\ rows' = rows
  BY DEF LoadAdapters
<1>3. S \in SUBSET Adapter /\ \A a \in S : IsNew(a)
  OBVIOUS
<1>4. \A a \in dirs : a \in DOMAIN idx_map \/ a \in S
  BY DEF IsNew
<1> HIDE DEF S
<1>5. Fresh(new, idx_map) /\ Range(new) = S
  BY <1>3, OrderFresh
<1>6. in_use' \subseteq DOMAIN idx_map \cup Range(new)
  BY <1>2, <1>4, <1>5 DEF ArraysInv
<1>7. QED
  BY <1>1, <1>2, <1>5, <1>6, AddKeeps

(* A prefetch, whatever it stops at, loads adapters that were not there. *)
LEMMA PrefetchKeeps ==
  ASSUME ArraysInv, NEW dirs \in SUBSET Adapter, PrefetchAdapters(dirs)
  PROVE  ArraysInv' /\ Kept
<1>1. PICK seen \in SUBSET dirs :
        /\ \E new \in SetToSeqs({a \in seen : IsNew(a)}) : AddAdapters(new)
        /\ UNCHANGED <<rows, in_use>>
  BY DEF PrefetchAdapters
<1> DEFINE S == {a \in seen : IsNew(a)}
<1>2. PICK new \in SetToSeqs(S) : AddAdapters(new)
  BY <1>1
<1>3. S \in SUBSET Adapter /\ \A a \in S : IsNew(a)
  OBVIOUS
<1> HIDE DEF S
<1>4. Fresh(new, idx_map)
  BY <1>3, OrderFresh
<1>5. in_use' \subseteq DOMAIN idx_map \cup Range(new) /\ rows' = rows
  BY <1>1 DEF ArraysInv
<1>6. QED
  BY <1>2, <1>4, <1>5, AddKeeps

(* offload_adapters: a reserve as large as the list is the list.         *)
LEMMA OffloadKeeps ==
  ASSUME CopyFits, ArraysInv, NEW reserve \in SUBSET in_use, OffloadAdapters(reserve)
  PROVE  ArraysInv' /\ Kept
<1>1. in_use' = reserve /\ rows' = rows
  BY DEF OffloadAdapters
<1>2. CASE UNCHANGED <<arrayVars, idle, idle_count>>
  <2>1. in_use' \subseteq DOMAIN idx_map
    BY <1>1 DEF ArraysInv
  <2>2. UNCHANGED <<arrayVars, idle, idle_count, rows>>
    BY <1>1, <1>2
  <2>3. QED
    BY <2>1, <2>2, RestKeeps
<1>3. CASE reserve = {} /\ OffloadAll
  BY <1>1, <1>3, OffloadAllKeeps
<1>4. CASE OffloadSome(reserve)
  BY <1>1, <1>4, OffloadSomeKeeps
<1>5. QED
  BY <1>2, <1>3, <1>4 DEF OffloadAdapters

(* Every step keeps the arrays in order and the loaded adapters in place.*)
LEMMA ArraysStep ==
  ASSUME CopyFits, ArraysInv, [AdapterNext]_adapterVars
  PROVE  ArraysInv' /\ Kept
<1>1. ASSUME NEW dirs \in SUBSET Adapter, LoadAdapters(dirs) PROVE ArraysInv' /\ Kept
  BY <1>1, LoadKeeps
<1>2. ASSUME NEW dirs \in SUBSET Adapter, PrefetchAdapters(dirs) PROVE ArraysInv' /\ Kept
  BY <1>2, PrefetchKeeps
<1>3. ASSUME NEW reserve \in SUBSET in_use, OffloadAdapters(reserve) PROVE ArraysInv' /\ Kept
  BY <1>3, OffloadKeeps
<1>4. ASSUME NEW n \in RowSizes, TakeRow(n) PROVE ArraysInv' /\ Kept
  BY <1>4, TakeKeeps
<1>5. ASSUME NEW row \in rows, GiveRow(row) PROVE ArraysInv' /\ Kept
  BY <1>5, GiveKeeps
<1>6. CASE UNCHANGED adapterVars
  <2>1. UNCHANGED <<arrayVars, idle, idle_count, rows>> /\ in_use' = in_use
    BY <1>6 DEF adapterVars
  <2>2. in_use' \subseteq DOMAIN idx_map
    BY <2>1 DEF ArraysInv
  <2>3. QED
    BY <2>1, <2>2, RestKeeps
<1>7. QED
  BY <1>1, <1>2, <1>3, <1>4, <1>5, <1>6 DEF AdapterNext

(* At the start nothing is loaded and the whole pool is free.            *)
LEMMA ArraysInit ==
  ASSUME AdapterInit
  PROVE  ArraysInv
<1>1. /\ adapter_dirs = <<>> /\ idx_map = << >> /\ a_start = <<>> /\ a_len = <<>> /\ a_loc = <<>>
      /\ idle = Pool!Cells /\ idle_count = pool_size /\ rows = {} /\ in_use = {}
  BY DEF AdapterInit, Pool!PoolInit
<1>2. Shared(Pool!Cells, pool_size, {}, {})
  BY PoolCells DEF Shared
<1>3. Len(<<>>) = SizeOf(DOMAIN << >>)
  BY SizeOfNone
<1>4. QED
  BY <1>1, <1>2, <1>3, EmptyArrays DEF ArraysInv

-----------------------------------------------------------------------------
(* How many cells different users have.                                    *)
card(S) == [C \in S |-> Cardinality(C)]

(* The sum over users is that of their numbers of cells.                 *)
LEMMA CardSum ==
  ASSUME NEW users, IsFiniteSet(users), \A C \in users : IsFiniteSet(C)
  PROVE  MapThenSumSet(LAMBDA C : Cardinality(C), users) = SumOver(card(users), users)
<1> DEFINE h == CHOOSE k : k = [s \in SUBSET users |->
                  IF s = {} THEN 0 ELSE Cardinality(Some(s)) + k[s \ {Some(s)}]]
           e == card(users)
<1>1. MapThenSumSet(LAMBDA C : Cardinality(C), users) = h[users]
  BY DEF MapThenSumSet, MapThenFoldSet, Some
<1>2. e \in [users -> Nat]
  BY FS_CardinalityType DEF card
<1>3. PICK k : IsFold(k, e, users)
  BY <1>2, FoldExists
<1>4. \A s \in SUBSET users : s # {} => e[Some(s)] = Cardinality(Some(s))
  BY DEF Some, card
<1>5. k = [s \in SUBSET users |->
             IF s = {} THEN 0 ELSE Cardinality(Some(s)) + k[s \ {Some(s)}]]
  BY <1>3, <1>4 DEF IsFold, Step
<1>6. h = [s \in SUBSET users |->
             IF s = {} THEN 0 ELSE Cardinality(Some(s)) + h[s \ {Some(s)}]]
  BY <1>5
<1> HIDE DEF h
<1>7. IsFold(h, e, users)
  BY <1>4, <1>6 DEF IsFold, Step
<1>8. \A C \in users : e[C] = e[C]
  OBVIOUS
<1>9. users \in SUBSET users
  OBVIOUS
<1> HIDE DEF e
<1>10. h[users] = SumOver(e, users)
  BY <1>2, <1>7, <1>8, <1>9, FoldComputes
<1>11. QED
  BY <1>1, <1>10 DEF e

(* Users that share the pool without overlap have its cells together.    *)
LEMMA UsersAdd ==
  ASSUME NEW users \in SUBSET (SUBSET Pool!Cells), UNION users = Pool!Cells,
         \A C, D \in users : C # D => C \cap D = {}
  PROVE  MapThenSumSet(LAMBDA C : Cardinality(C), users) = pool_size
<1> DEFINE f == card(users)
           F == [C \in users |-> C]
<1>1. IsFiniteSet(users) /\ \A C \in users : IsFiniteSet(C) /\ Cardinality(C) \in Nat
  <2>1. IsFiniteSet(SUBSET Pool!Cells)
    BY PoolCells, FS_SUBSET
  <2>2. IsFiniteSet(users)
    BY <2>1, FS_Subset
  <2>3. QED
    BY <2>2, PoolCells
<1>2. /\ f \in [users -> Nat]
      /\ \A C \in users : IsFiniteSet(F[C]) /\ Cardinality(F[C]) = f[C]
      /\ \A C, D \in users : C # D => F[C] \cap F[D] = {}
      /\ users \in SUBSET users
  BY <1>1 DEF card
<1>3. UNION {F[C] : C \in users} = Pool!Cells
  OBVIOUS
<1>4. MapThenSumSet(LAMBDA C : Cardinality(C), users) = SumOver(f, users)
  BY <1>1, CardSum
<1> HIDE DEF f, F
<1>5. SizedBy(f, F, users)
  BY <1>1, <1>2, PartsAdd
<1>6. QED
  BY <1>3, <1>4, <1>5, PoolCells DEF SizedBy

(* The invariant proved is stronger than the one that is checked.        *)
LEMMA InvAgrees ==
  ASSUME ArraysInv
  PROVE  ArraysAgree
<1> DEFINE I == 1 .. Len(adapter_dirs)
           P(i) == Piece(a_loc, a_start, a_len, i)
           Own(a) == {CellsOf(a)[k] : k \in 1 .. Size(a)}
           users == {Own(a) : a \in DOMAIN idx_map} \cup rows \cup {idle}
<1>1. /\ Filed(adapter_dirs, idx_map)
      /\ Filling(adapter_dirs, a_start, a_len, a_loc)
      /\ Shared(idle, idle_count, rows, Listed(a_loc))
      /\ Len(a_loc) = SizeOf(DOMAIN idx_map)
      /\ in_use \subseteq DOMAIN idx_map
  BY DEF ArraysInv
<1>2. /\ adapter_dirs \in Seq(Adapter) /\ DOMAIN adapter_dirs = I
      /\ DOMAIN idx_map = {adapter_dirs[i] : i \in I}
      /\ \A i \in I : idx_map[adapter_dirs[i]] = i
      /\ \A i \in I : a_len[i] = Size(adapter_dirs[i])
  BY <1>1 DEF Filed, Filling
<1>3. /\ \A i \in I : /\ {SliceIn(a_loc, a_start, a_len, i)[k] : k \in 1 .. a_len[i]} = P(i)
                      /\ P(i) \subseteq Listed(a_loc)
      /\ \A i, j \in I : i # j => P(i) \cap P(j) = {}
      /\ \A x \in Listed(a_loc) : \E i \in I : x \in P(i)
  BY <1>1, <1>2, PieceIs
<1>4. ASSUME NEW i \in I PROVE Own(adapter_dirs[i]) = P(i)
  <2>1. CellsOf(adapter_dirs[i]) = SliceIn(a_loc, a_start, a_len, i)
    BY <1>2 DEF CellsOf, Slice, SliceIn
  <2>2. Size(adapter_dirs[i]) = a_len[i]
    BY <1>2
  <2>3. QED
    BY <1>3, <2>1, <2>2
<1> HIDE DEF P, Own
<1>5. {Own(a) : a \in DOMAIN idx_map} = {P(i) : i \in I}
  <2> DEFINE D == DOMAIN idx_map
  <2>1. /\ \A a \in D : \E i \in I : a = adapter_dirs[i]
        /\ \A i \in I : adapter_dirs[i] \in D
    BY <1>2
  <2> HIDE DEF D, I
  <2>2. {Own(a) : a \in D} = {P(i) : i \in I}
    BY <1>4, <2>1
  <2>3. QED
    BY <2>2 DEF D
<1>6. users = {P(i) : i \in I} \cup rows \cup {idle}
  BY <1>5
<1> HIDE DEF users, I
<1>7. UNION users = Pool!Cells
  BY <1>1, <1>3, <1>6 DEF Shared
<1>8. users \in SUBSET (SUBSET Pool!Cells)
  BY <1>7
<1>9. \A C, D \in users : C # D => C \cap D = {}
  BY <1>1, <1>3, <1>6 DEF Shared
<1>10. MapThenSumSet(LAMBDA C : Cardinality(C), users) = pool_size
  BY <1>7, <1>8, <1>9, UsersAdd
<1>11. idle_count = Cardinality(idle)
  BY <1>1 DEF Shared
<1>12. QED
  BY <1>1, <1>2, <1>7, <1>10, <1>11 DEF ArraysAgree, users, Own

(* If the copy kernel can copy every adapter (CopyFits: ranks up to 64 and *)
(* multiples of 64): whatever is loaded, prefetched and offloaded, in any  *)
(* order and around whatever the key-value cache takes and gives back, the *)
(* arrays describe the loaded adapters and share the pool with the rows,   *)
(* cell by cell.  Without it TLC refutes ArraysAgree (CopyOverruns.cfg).   *)
THEOREM AdaptersKeepTheirArrays ==
  ASSUME CopyFits
  PROVE  AdapterSpec => []ArraysAgree
<1>1. AdapterInit => ArraysInv
  BY ArraysInit
<1>2. ArraysInv /\ [AdapterNext]_adapterVars => ArraysInv'
  BY ArraysStep
<1>3. ArraysInv => ArraysAgree
  BY InvAgrees
<1>4. QED
  BY <1>1, <1>2, <1>3, PTL DEF AdapterSpec

(* If the copy kernel can copy every adapter, no step moves the cells of   *)
(* one that stays loaded, or reorders them: its weights need not be copied *)
(* again.                                                                  *)
THEOREM AdaptersKeepTheirCells ==
  ASSUME CopyFits
  PROVE  AdapterSpec => WeightsStay
<1>1. AdapterInit => ArraysInv
  BY ArraysInit
<1>2. ArraysInv /\ [AdapterNext]_adapterVars => ArraysInv'
  BY ArraysStep
<1>3. ArraysInv /\ [AdapterNext]_adapterVars
      => [\A a \in DOMAIN idx_map \cap DOMAIN idx_map' : CellsOf(a)' = CellsOf(a)]_adapterVars
  BY ArraysStep DEF Kept
<1>4. QED
  BY <1>1, <1>2, <1>3, PTL DEF AdapterSpec, WeightsStay

-----------------------------------------------------------------------------
(* The kernels (Launches): parts laid one after another, tiles.            *)

LEMMA RunningSum ==
  ASSUME NEW n \in Nat, NEW f \in [0 .. n - 1 -> Nat]
  PROVE  /\ SumTo(f, 0) = 0
         /\ \A i \in 0 .. n : SumTo(f, i) \in Nat
         /\ \A i \in 0 .. n - 1 : SumTo(f, i + 1) = SumTo(f, i) + f[i]
         /\ \A i, j \in 0 .. n : i <= j => SumTo(f, i) <= SumTo(f, j)
<1> DEFINE I == 0 .. n - 1
<1>1. IsFiniteSet(I)
  <2>1. 0 \in Int /\ n - 1 \in Int
    OBVIOUS
  <2>2. QED
    BY <2>1, FS_Interval
<1>2. \A i : SumTo(f, i) = SumOver(f, 0 .. i - 1)
  BY DEF SumTo, SumOver
<1>3. SumTo(f, 0) = 0
  <2>1. 0 .. 0 - 1 = {}
    OBVIOUS
  <2> HIDE DEF I
  <2>2. SumOver(f, {}) = 0
    BY <1>1, SumEmpty DEF I
  <2>3. QED
    BY <1>2, <2>1, <2>2
<1>4. ASSUME NEW i \in 0 .. n PROVE SumTo(f, i) \in Nat
  <2>1. 0 .. i - 1 \in SUBSET I
    OBVIOUS
  <2>2. SumOver(f, 0 .. i - 1) \in Nat
    BY <1>1, <2>1, SumNat
  <2>3. QED
    BY <1>2, <2>2
<1>5. ASSUME NEW i \in I
      PROVE  SumTo(f, i + 1) = SumTo(f, i) + f[i]
  <2> DEFINE V == 0 .. (i + 1) - 1
  <2>1. V \in SUBSET I /\ i \in V /\ V \ {i} = 0 .. i - 1
    OBVIOUS
  <2> HIDE DEF I, V
  <2>2. SumOver(f, V) = f[i] + SumOver(f, V \ {i})
    BY <1>1, <2>1, SumTake DEF I
  <2>3. SumOver(f, 0 .. i - 1) \in Nat
    <3>1. i \in 0 .. n
      BY DEF I
    <3>2. QED
      BY <1>2, <1>4, <3>1
  <2>4. f[i] \in Nat
    BY DEF I
  <2>5. SumTo(f, i + 1) = SumOver(f, V) /\ SumTo(f, i) = SumOver(f, 0 .. i - 1)
    BY <1>2 DEF V
  <2>6. SumOver(f, V) = f[i] + SumOver(f, 0 .. i - 1)
    BY <2>1, <2>2
  <2> HIDE <1>2
  <2>7. QED
    BY <2>3, <2>4, <2>5, <2>6
<1>6. ASSUME NEW i \in 0 .. n, NEW j \in 0 .. n, i <= j
      PROVE  SumTo(f, i) <= SumTo(f, j)
  <2>1. /\ 0 .. i - 1 \in SUBSET I /\ 0 .. j - 1 \in SUBSET I
        /\ 0 .. i - 1 \subseteq 0 .. j - 1
    BY <1>6
  <2>2. \A x \in I : f[x] <= f[x]
    OBVIOUS
  <2>3. SumOver(f, 0 .. i - 1) <= SumOver(f, 0 .. j - 1)
    BY <1>1, <2>1, <2>2, SumGrows
  <2>4. QED
    BY <1>2, <2>3
<1>7. QED
  BY <1>3, <1>4, <1>5, <1>6

(* Element i of part b is before the end and in no other part.             *)
Packed(len, n) ==
  \A b, c \in 0 .. n - 1, i, j \in Nat :
    i < len[b] /\ j < len[c] =>
      /\ SumTo(len, b) + i \in 0 .. SumTo(len, n) - 1
      /\ SumTo(len, b) + i = SumTo(len, c) + j => b = c /\ i = j

LEMMA PartsPacked ==
  ASSUME NEW n \in Nat, NEW len \in [0 .. n - 1 -> Nat]
  PROVE  Packed(len, n)
<1> DEFINE s(i) == SumTo(len, i)
<1>1. /\ \A i \in 0 .. n : s(i) \in Nat
      /\ \A i \in 0 .. n - 1 : s(i + 1) = s(i) + len[i]
      /\ \A i, j \in 0 .. n : i <= j => s(i) <= s(j)
  BY RunningSum
<1> HIDE DEF s
<1>2. ASSUME NEW b \in 0 .. n - 1, NEW c \in 0 .. n - 1, NEW i \in Nat, NEW j \in Nat,
             i < len[b], j < len[c]
      PROVE  /\ s(b) + i \in 0 .. s(n) - 1
             /\ s(b) + i = s(c) + j => b = c /\ i = j
  <2>1. /\ b \in 0 .. n /\ c \in 0 .. n /\ n \in 0 .. n /\ b + 1 \in 0 .. n /\ c + 1 \in 0 .. n
        /\ b + 1 <= n
    OBVIOUS
  <2>2. /\ s(b) \in Nat /\ s(c) \in Nat /\ s(n) \in Nat
        /\ s(b + 1) = s(b) + len[b] /\ s(c + 1) = s(c) + len[c]
        /\ len[b] \in Nat /\ len[c] \in Nat
    BY <1>1, <2>1
  <2>3. s(b + 1) <= s(n)
    BY <1>1, <2>1
  <2>4. s(b) + i \in 0 .. s(n) - 1
    BY <1>2, <2>2, <2>3, SMTT(20)
  <2>5. ASSUME b < c, s(b) + i = s(c) + j PROVE FALSE
    <3>1. b + 1 <= c
      BY <2>5
    <3>2. s(b + 1) <= s(c)
      BY <1>1, <2>1, <3>1
    <3>3. QED
      BY <1>2, <2>2, <2>5, <3>2
  <2>6. ASSUME c < b, s(b) + i = s(c) + j PROVE FALSE
    <3>1. c + 1 <= b
      BY <2>6
    <3>2. s(c + 1) <= s(b)
      BY <1>1, <2>1, <3>1
    <3>3. QED
      BY <1>2, <2>2, <2>6, <3>2
  <2>7. ASSUME s(b) + i = s(c) + j PROVE b = c /\ i = j
    <3>1. b = c
      BY <2>5, <2>6, <2>7
    <3>2. QED
      BY <2>2, <2>7, <3>1
  <2>8. QED
    BY <2>4, <2>7
<1>3. QED
  BY <1>2 DEF Packed, s

(* One more in every part moves part b by b.                               *)
LEMMA PartsGrow ==
  ASSUME NEW n \in Nat, NEW f \in [0 .. n - 1 -> Nat], NEW g \in [0 .. n - 1 -> Nat],
         \A i \in 0 .. n - 1 : g[i] = f[i] + 1,
         NEW b \in 0 .. n
  PROVE  SumTo(g, b) = SumTo(f, b) + b
<1> DEFINE D == {i \in 0 .. n : SumTo(g, i) # SumTo(f, i) + i}
<1>f. /\ SumTo(f, 0) = 0
      /\ \A i \in 0 .. n : SumTo(f, i) \in Nat
      /\ \A i \in 0 .. n - 1 : SumTo(f, i + 1) = SumTo(f, i) + f[i]
  BY RunningSum
<1>g. /\ SumTo(g, 0) = 0
      /\ \A i \in 0 .. n : SumTo(g, i) \in Nat
      /\ \A i \in 0 .. n - 1 : SumTo(g, i + 1) = SumTo(g, i) + g[i]
  BY RunningSum
<1>1. SUFFICES ASSUME D # {} PROVE FALSE
  OBVIOUS
<1>2. PICK k \in D : \A m \in D : k <= m
  <2>1. D \in SUBSET Nat
    OBVIOUS
  <2>2. D # {}
    BY <1>1
  <2> HIDE DEF D
  <2>3. \E k \in D : \A m \in D : k <= m
    BY ONLY <2>1, <2>2, LeastNumber
  <2>4. QED
    BY <2>3
<1>3. k \in 0 .. n /\ SumTo(g, k) # SumTo(f, k) + k
  BY <1>2
<1>4. k # 0
  BY <1>f, <1>g, <1>3
<1>5. k - 1 \in 0 .. n - 1 /\ k - 1 \in 0 .. n /\ (k - 1) + 1 = k
  BY <1>3, <1>4
<1>6. k - 1 \notin D
  <2>1. ~ (k <= k - 1)
    BY <1>3
  <2> HIDE DEF D
  <2>2. QED
    BY <1>2, <2>1
<1>7. SumTo(g, k - 1) = SumTo(f, k - 1) + (k - 1)
  BY <1>5, <1>6
<1>8. /\ SumTo(g, k) = SumTo(g, k - 1) + g[k - 1]
      /\ SumTo(f, k) = SumTo(f, k - 1) + f[k - 1]
      /\ SumTo(f, k - 1) \in Nat /\ f[k - 1] \in Nat /\ g[k - 1] = f[k - 1] + 1
  BY <1>f, <1>g, <1>5
<1>9. k \in Nat
  BY <1>3
<1> HIDE DEF D
<1>10. SumTo(g, k) = (SumTo(f, k - 1) + (k - 1)) + (f[k - 1] + 1)
  BY <1>7, <1>8
<1>11. SumTo(g, k) = (SumTo(f, k - 1) + f[k - 1]) + k
  BY <1>8, <1>9, <1>10
<1>12. QED
  BY <1>3, <1>8, <1>11

(* Tiles of a block each do not overlap and end where the last one ends.   *)
LEMMA RowsIn ==
  ASSUME NEW block \in Nat \ {0}, NEW m \in Nat
  PROVE  /\ Rows(m, block) \subseteq Nat
         /\ \A k \in Nat : m < k => \A x \in Rows(m, block) : x < k * block
         /\ \A x \in Rows(m, block) : m * block <= x
<1>1. m * block \in Nat
  BY ProductNat
<1>2. Rows(m, block) \subseteq Nat /\ \A x \in Rows(m, block) : m * block <= x
  BY <1>1 DEF Rows
<1>3. ASSUME NEW k \in Nat, m < k, NEW x \in Rows(m, block)
      PROVE  x < k * block
  <2>1. (m + 1) \in Nat /\ m + 1 <= k
    BY <1>3
  <2>2. block * (m + 1) <= block * k
    BY <2>1, ProductGrows
  <2>3. block * (m + 1) = m * block + block /\ block * k = k * block /\ k * block \in Nat
    BY <1>1, ProductNat
  <2>4. QED
    BY <1>1, <2>2, <2>3 DEF Rows
<1>4. QED
  BY <1>2, <1>3

LEMMA RowsApart ==
  ASSUME NEW block \in Nat \ {0}, NEW m \in Nat, NEW k \in Nat, NEW x,
         x \in Rows(m, block), x \in Rows(k, block)
  PROVE  m = k
<1>1. x \in Nat /\ m * block \in Nat /\ k * block \in Nat
  BY RowsIn, ProductNat
<1>2. ~ (m < k)
  BY <1>1, RowsIn
<1>3. ~ (k < m)
  BY <1>1, RowsIn
<1>4. QED
  BY <1>2, <1>3

(* Tiles whose block divides the length stay within it.                    *)
LEMMA RowsWithin ==
  ASSUME NEW block \in Nat \ {0}, NEW n \in Nat, n % block = 0,
         NEW m \in 0 .. n \div block - 1, NEW x \in Rows(m, block)
  PROVE  x \in 0 .. n - 1
<1>1. n \div block \in Nat /\ (n \div block) * block = n
  BY SMTT(30)
<1>2. m \in Nat /\ m < n \div block
  BY <1>1
<1>3. x \in Nat /\ x < (n \div block) * block
  BY <1>1, <1>2, RowsIn
<1>4. QED
  BY <1>1, <1>3

(* The last of the tiles that cover a length ends less than a block after. *)
LEMMA TilesEnd ==
  ASSUME NEW block \in Nat \ {0}, NEW n \in Nat
  PROVE  /\ CDiv(n, block) \in Nat
         /\ CDiv(n, block) * block <= n + block - 1
         /\ n % block = 0 => CDiv(n, block) = n \div block
<1>1. CDiv(n, block) \in Nat /\ CDiv(n, block) * block <= n + block - 1
  BY SMTT(30) DEF CDiv
<1>2. ASSUME n % block = 0 PROVE CDiv(n, block) = n \div block
  BY <1>2, SMTT(30) DEF CDiv
<1>3. QED
  BY <1>1, <1>2

-----------------------------------------------------------------------------
(* LoRA.                                                                   *)
OutputsAll == UNION {Outputs(slot) : slot \in Slots}

LEMMA SlotBuffers ==
  ASSUME NEW slot \in Slots
  PROVE  /\ delta[slot] \in {delta[s] : s \in Slots}
         /\ Outputs(slot) \subseteq OutputsAll
BY DEF OutputsAll

LEMMA WholeStores ==
  ASSUME NEW slot \in Slots
  PROVE  /\ DOMAIN [a \in Outputs(slot) |-> <<Base(a)>>] \subseteq OutputsAll
         /\ DOMAIN [a \in Outputs(slot) |-> Append(Load(a), <<"rotated">>)] \subseteq OutputsAll
         /\ DOMAIN Bmm(slot) \subseteq OutputsAll
<1>1. DOMAIN Bmm(slot) = {<<slot, row, n>> : row \in Tokens, n \in 0 .. EMBED - 1}
  BY DEF Bmm
<1>2. {<<slot, row, n>> : row \in Tokens, n \in 0 .. EMBED - 1} = Outputs(slot)
  <2> DEFINE T == Tokens
             E == 0 .. EMBED - 1
  <2>1. Outputs(slot) = {slot} \X T \X E
    BY DEF Outputs
  <2> HIDE DEF T, E
  <2>2. {<<slot, row, n>> : row \in T, n \in E} = {slot} \X T \X E
    OBVIOUS
  <2>3. QED
    BY <2>1, <2>2 DEF T, E
<1>3. QED
  BY <1>1, <1>2, SlotBuffers

(* A block per output and row.                                             *)
LEMMA BgmvShrinkOwn ==
  ASSUME NEW slot \in Slots, NEW p \in BgmvShrinkGrid, NEW r \in BgmvShrinkGrid
  PROVE  /\ DOMAIN BgmvShrink(p, slot) \subseteq Deltas(lora)
         /\ p # r => DOMAIN BgmvShrink(p, slot) \cap DOMAIN BgmvShrink(r, slot) = {}
<1> DEFINE T == Tokens
           D == 0 .. lora.max_lora_dim - 1
           place(q) == <<delta[slot], q[2], q[1]>>
<1>1. p \in D \X T /\ r \in D \X T
  BY DEF BgmvShrinkGrid
<1>2. Deltas(lora) = {delta[s] : s \in Slots} \X T \X D
  BY DEF Deltas, Tokens
<1>3. ASSUME NEW q PROVE DOMAIN BgmvShrink(q, slot) \subseteq {place(q)}
  BY DEF BgmvShrink
<1> HIDE DEF T, D
<1>4. place(p) \in Deltas(lora)
  BY <1>1, <1>2, SlotBuffers
<1>5. p # r => place(p) # place(r)
  BY <1>1
<1>6. QED
  BY <1>3, <1>4, <1>5

LEMMA BgmvExpandOwn ==
  ASSUME NEW slot \in Slots, NEW p \in BgmvExpandGrid, NEW r \in BgmvExpandGrid
  PROVE  /\ DOMAIN BgmvExpand(p, slot) \subseteq Outputs(slot)
         /\ p # r => DOMAIN BgmvExpand(p, slot) \cap DOMAIN BgmvExpand(r, slot) = {}
<1> DEFINE T == Tokens
           G == 0 .. EMBED \div TILE_OUT - 1
           E == 0 .. EMBED - 1
           At(q) == {<<slot, q[2], n>> : n \in Rows(q[1], TILE_OUT)}
<1>1. p \in G \X T /\ r \in G \X T
  BY DEF BgmvExpandGrid
<1>2. Outputs(slot) = {slot} \X T \X E
  BY DEF Outputs
<1>3. ASSUME NEW q PROVE DOMAIN BgmvExpand(q, slot) = At(q)
  BY DEF BgmvExpand
<1>4. EMBED \in Nat /\ TILE_OUT \in Nat \ {0} /\ EMBED % TILE_OUT = 0
  BY RankAssumption DEF RankAssumption
<1>5. ASSUME NEW q \in G \X T PROVE q[1] \in G /\ q[1] \in Nat /\ q[2] \in T
  OBVIOUS
<1>6. ASSUME NEW m \in G, NEW n \in Rows(m, TILE_OUT) PROVE n \in E
  BY <1>4, RowsWithin
<1>7. ASSUME NEW m \in G, NEW k \in G, NEW n \in Rows(m, TILE_OUT), n \in Rows(k, TILE_OUT)
      PROVE  m = k
  BY <1>4, <1>7, RowsApart
<1> HIDE DEF T, G, E
<1>8. At(p) \subseteq {slot} \X T \X E
  BY <1>1, <1>6
<1>9. ASSUME p # r, NEW a, a \in At(p), a \in At(r) PROVE FALSE
  <2>1. PICK n \in Rows(p[1], TILE_OUT) : a = <<slot, p[2], n>>
    BY <1>9
  <2>2. PICK k \in Rows(r[1], TILE_OUT) : a = <<slot, r[2], k>>
    BY <1>9
  <2>3. n = k /\ p[2] = r[2]
    BY <2>1, <2>2
  <2>4. p[1] = r[1]
    BY <1>1, <1>7, <2>3
  <2>5. QED
    BY <1>1, <1>9, <2>3, <2>4
<1>10. QED
  BY <1>2, <1>3, <1>8, <1>9

(* The record of a forward of n requests; in a prefill their rows follow   *)
(* one another, and decode has no use for where they start.                *)
RecordOK(st, n) ==
  /\ n \in Nat /\ DOMAIN st.req_bins = 0 .. n - 1
  /\ st.b_seq_len \in [0 .. n - 1 -> Nat]
  /\ st.max_lora_dim \in {rank[a] : a \in DOMAIN rank}
  /\ st.max_lora_dim >= WIDE => st.max_lora_dim % SHRINK_N = 0
  /\ st.is_prefill =>
       /\ DOMAIN st.request = 0 .. SumTo(st.b_seq_len, n) - 1
       /\ \A b \in 0 .. n - 1 : st.b_start_loc[b] = SumTo(st.b_seq_len, b)

(* A row is in one block of one request.                                   *)
LEMMA BlockRowsOwn ==
  ASSUME NEW n, RecordOK(lora, n), lora.is_prefill,
         NEW b \in Requests, NEW c \in Requests, NEW m \in Nat, NEW k \in Nat,
         NEW row \in BlockRows(b, m)
  PROVE  /\ row \in Tokens
         /\ row \in BlockRows(c, k) => b = c /\ m = k
<1> DEFINE len == lora.b_seq_len
           N == 0 .. n - 1
           total == SumTo(len, n)
<1>1. /\ n \in Nat /\ len \in [N -> Nat] /\ b \in N /\ c \in N
      /\ DOMAIN lora.request = 0 .. total - 1
      /\ lora.b_start_loc[b] = SumTo(len, b) /\ lora.b_start_loc[c] = SumTo(len, c)
  BY DEF RecordOK, Requests
<1>2. TILE_M \in Nat \ {0}
  BY RankAssumption DEF RankAssumption
<1>3. Packed(len, n)
  BY <1>1, PartsPacked
<1>4. Rows(m, TILE_M) \subseteq Nat /\ Rows(k, TILE_M) \subseteq Nat
  BY <1>2, RowsIn
<1>5. PICK i \in Nat : i \in Rows(m, TILE_M) /\ i < len[b] /\ row = SumTo(len, b) + i
  BY <1>1, <1>4 DEF BlockRows
<1>6. row \in 0 .. total - 1
  BY <1>1, <1>3, <1>5 DEF Packed
<1>7. ASSUME row \in BlockRows(c, k) PROVE b = c /\ m = k
  <2>1. PICK j \in Nat : j \in Rows(k, TILE_M) /\ j < len[c] /\ row = SumTo(len, c) + j
    BY <1>1, <1>4, <1>7 DEF BlockRows
  <2>2. b = c /\ i = j
    BY <1>1, <1>3, <1>5, <2>1 DEF Packed
  <2>3. m = k
    BY <1>2, <1>5, <2>1, <2>2, RowsApart
  <2>4. QED
    BY <2>2, <2>3
<1>8. QED
  BY <1>1, <1>6, <1>7 DEF Tokens

(* What the programs of lora_prefill store to: a block of rows and one of  *)
(* columns.                                                                *)
BlockStores(name, q, block) ==
  {<<name, row, j>> : row \in BlockRows(q[1], q[3]), j \in Rows(q[2], block)}

LEMMA BlocksOwn ==
  ASSUME NEW n, RecordOK(lora, n), lora.is_prefill, NEW name,
         NEW block \in Nat \ {0}, NEW width \in Nat, width % block = 0,
         NEW blocks, NEW p \in Requests \X (0 .. CDiv(width, block) - 1) \X RowBlocks(blocks),
         NEW r \in Requests \X (0 .. CDiv(width, block) - 1) \X RowBlocks(blocks)
  PROVE  /\ BlockStores(name, p, block) \subseteq {name} \X Tokens \X (0 .. width - 1)
         /\ p # r => BlockStores(name, p, block) \cap BlockStores(name, r, block) = {}
<1> DEFINE G == 0 .. CDiv(width, block) - 1
           M == RowBlocks(blocks)
           E == 0 .. width - 1
<1>1. CDiv(width, block) = width \div block
  BY TilesEnd
<1>2. G \subseteq Nat /\ M \subseteq Nat
  BY DEF RowBlocks
<1>3. ASSUME NEW g \in G, NEW j \in Rows(g, block) PROVE j \in E
  BY <1>1, RowsWithin
<1>4. ASSUME NEW g \in G, NEW h \in G, NEW j \in Rows(g, block), j \in Rows(h, block)
      PROVE  g = h
  BY <1>2, <1>4, RowsApart
<1> HIDE DEF G, M, E
<1>5. /\ p[1] \in Requests /\ p[2] \in G /\ p[3] \in M /\ p = <<p[1], p[2], p[3]>>
      /\ r[1] \in Requests /\ r[2] \in G /\ r[3] \in M /\ r = <<r[1], r[2], r[3]>>
  BY DEF G, M
<1>6. p[3] \in Nat /\ r[3] \in Nat
  BY <1>2, <1>5
<1>7. \A row \in BlockRows(p[1], p[3]) : row \in Tokens
  BY <1>5, <1>6, BlockRowsOwn
<1>8. \A row \in BlockRows(p[1], p[3]) :
        row \in BlockRows(r[1], r[3]) => p[1] = r[1] /\ p[3] = r[3]
  BY <1>5, <1>6, BlockRowsOwn
<1>9. BlockStores(name, p, block) \subseteq {name} \X Tokens \X E
  BY <1>3, <1>5, <1>7 DEF BlockStores
<1>10. ASSUME NEW a, a \in BlockStores(name, p, block), a \in BlockStores(name, r, block)
       PROVE  p = r
  <2>1. PICK row \in BlockRows(p[1], p[3]), j \in Rows(p[2], block) : a = <<name, row, j>>
    BY <1>10 DEF BlockStores
  <2>2. row \in BlockRows(r[1], r[3]) /\ j \in Rows(r[2], block)
    BY <1>10, <2>1 DEF BlockStores
  <2>3. p[1] = r[1] /\ p[3] = r[3] /\ p[2] = r[2]
    BY <1>4, <1>5, <1>8, <2>1, <2>2
  <2>4. QED
    BY <1>5, <2>3
<1>11. QED
  BY <1>9, <1>10 DEF E

LEMMA ShrinkOwn ==
  ASSUME NEW n, RecordOK(lora, n), lora.is_prefill, lora.max_lora_dim >= WIDE,
         NEW slot \in Slots, NEW p \in ShrinkGrid, NEW r \in ShrinkGrid
  PROVE  /\ DOMAIN ShrinkFwd(p, slot) \subseteq Deltas(lora)
         /\ p # r => DOMAIN ShrinkFwd(p, slot) \cap DOMAIN ShrinkFwd(r, slot) = {}
<1> DEFINE width == lora.max_lora_dim
           name == delta[slot]
<1>1. PICK a \in DOMAIN rank : width = rank[a]
  BY DEF RecordOK
<1>2. width \in Nat /\ SHRINK_N \in Nat \ {0} /\ width % SHRINK_N = 0
  BY <1>1, RankAssumption DEF RankAssumption, RecordOK
<1>3. \A q : DOMAIN ShrinkFwd(q, slot) = BlockStores(name, q, SHRINK_N)
  BY DEF ShrinkFwd, BlockStores
<1>4. Deltas(lora) = {delta[s] : s \in Slots} \X Tokens \X (0 .. width - 1)
  BY DEF Deltas, Tokens
<1> HIDE DEF width, name
<1>5. /\ BlockStores(name, p, SHRINK_N) \subseteq {name} \X Tokens \X (0 .. width - 1)
      /\ p # r => BlockStores(name, p, SHRINK_N) \cap BlockStores(name, r, SHRINK_N) = {}
  BY <1>2, BlocksOwn DEF ShrinkGrid, width
<1>6. {name} \X Tokens \X (0 .. width - 1) \subseteq Deltas(lora)
  BY <1>4, SlotBuffers DEF name
<1>7. QED
  BY <1>3, <1>5, <1>6

LEMMA ExpandOwn ==
  ASSUME NEW n, RecordOK(lora, n), lora.is_prefill,
         NEW slot \in Slots, NEW p \in ExpandGrid, NEW r \in ExpandGrid
  PROVE  /\ DOMAIN ExpandFwd(p, slot) \subseteq Outputs(slot)
         /\ p # r => DOMAIN ExpandFwd(p, slot) \cap DOMAIN ExpandFwd(r, slot) = {}
<1>1. EMBED \in Nat /\ EXPAND_N \in Nat \ {0} /\ EMBED % EXPAND_N = 0
  BY RankAssumption DEF RankAssumption
<1>2. \A q : DOMAIN ExpandFwd(q, slot) = BlockStores(slot, q, EXPAND_N)
  BY DEF ExpandFwd, BlockStores
<1>3. /\ BlockStores(slot, p, EXPAND_N) \subseteq {slot} \X Tokens \X (0 .. EMBED - 1)
      /\ p # r => BlockStores(slot, p, EXPAND_N) \cap BlockStores(slot, r, EXPAND_N) = {}
  BY <1>1, BlocksOwn DEF ExpandGrid
<1>4. QED
  BY <1>2, <1>3 DEF Outputs

(* The launches of a forward belong to its engine, and lora_prefill only   *)
(* runs prefills of wide adapters.                                         *)
KernelsOf(e) ==
  {"mm", "rotary"} \cup
    (IF e = "bmm" THEN {"bmm"}
     ELSE IF e = "bgmv" THEN {"bgmv_shrink", "bgmv_expand"} ELSE {"shrink_fwd", "expand_fwd"})

LoraInv ==
  /\ \E n : RecordOK(lora, n)
  /\ engine \in {"bgmv", "triton", "bmm"}
  /\ engine = "triton" => lora.is_prefill /\ lora.max_lora_dim >= WIDE
  /\ launches \in Seq(KernelsOf(engine) \X Slots) /\ launches # <<>>

LEMMA LoraStoresApart ==
  ASSUME LoraInv, NEW p \in Programs(Head(launches)), NEW r \in Programs(Head(launches))
  PROVE  /\ DOMAIN Stores(Head(launches), p) \subseteq Deltas(lora) \cup OutputsAll
         /\ p # r => DOMAIN Stores(Head(launches), p) \cap DOMAIN Stores(Head(launches), r) = {}
<1> DEFINE l == Head(launches)
           kernel == l[1]
           slot == l[2]
<1>1. kernel \in KernelsOf(engine) /\ slot \in Slots
  <2>1. l \in KernelsOf(engine) \X Slots
    BY DEF LoraInv
  <2> HIDE DEF l
  <2>2. QED
    BY <2>1
<1>2. PICK n : RecordOK(lora, n)
  BY DEF LoraInv
<1>3. p \in Programs(l) /\ r \in Programs(l)
  OBVIOUS
<1> HIDE DEF l
<1>4. Outputs(slot) \subseteq OutputsAll
  BY <1>1, SlotBuffers
<1>5. CASE kernel \in {"mm", "rotary", "bmm"}
  <2>1. Programs(l) = {<<0>>}
    BY <1>5 DEF Programs
  <2>2. p = r
    BY <1>3, <2>1
  <2>3. DOMAIN Stores(l, p) \subseteq OutputsAll
    <3>1. CASE kernel = "mm"
      <4>1. Stores(l, p) = [a \in Outputs(slot) |-> <<Base(a)>>]
        BY <3>1 DEF Stores
      <4>2. QED
        BY <1>1, <4>1, WholeStores
    <3>2. CASE kernel = "rotary"
      <4>1. Stores(l, p) = [a \in Outputs(slot) |-> Append(Load(a), <<"rotated">>)]
        BY <3>2 DEF Stores
      <4>2. QED
        BY <1>1, <4>1, WholeStores
    <3>3. CASE kernel = "bmm"
      <4>1. Stores(l, p) = Bmm(slot)
        BY <3>3 DEF Stores
      <4>2. QED
        BY <1>1, <4>1, WholeStores
    <3>4. QED
      BY <1>5, <3>1, <3>2, <3>3
  <2>4. QED
    BY <2>2, <2>3 DEF l
<1>6. CASE kernel = "bgmv_shrink"
  <2>1. Programs(l) = BgmvShrinkGrid /\ \A q : Stores(l, q) = BgmvShrink(q, slot)
    BY <1>6 DEF Programs, Stores
  <2>2. /\ DOMAIN BgmvShrink(p, slot) \subseteq Deltas(lora)
        /\ p # r => DOMAIN BgmvShrink(p, slot) \cap DOMAIN BgmvShrink(r, slot) = {}
    BY <1>1, <1>3, <2>1, BgmvShrinkOwn
  <2>3. QED
    BY <2>1, <2>2 DEF l
<1>7. CASE kernel = "bgmv_expand"
  <2>1. Programs(l) = BgmvExpandGrid /\ \A q : Stores(l, q) = BgmvExpand(q, slot)
    BY <1>7 DEF Programs, Stores
  <2>2. /\ DOMAIN BgmvExpand(p, slot) \subseteq Outputs(slot)
        /\ p # r => DOMAIN BgmvExpand(p, slot) \cap DOMAIN BgmvExpand(r, slot) = {}
    BY <1>1, <1>3, <2>1, BgmvExpandOwn
  <2>3. QED
    BY <1>4, <2>1, <2>2 DEF l
<1>8. CASE kernel \in {"shrink_fwd", "expand_fwd"}
  <2>0. lora.is_prefill /\ lora.max_lora_dim >= WIDE
    BY <1>1, <1>8 DEF LoraInv, KernelsOf
  <2>1. CASE kernel = "shrink_fwd"
    <3>1. Programs(l) = ShrinkGrid /\ \A q : Stores(l, q) = ShrinkFwd(q, slot)
      BY <2>1 DEF Programs, Stores
    <3>2. /\ DOMAIN ShrinkFwd(p, slot) \subseteq Deltas(lora)
          /\ p # r => DOMAIN ShrinkFwd(p, slot) \cap DOMAIN ShrinkFwd(r, slot) = {}
      BY <1>1, <1>2, <1>3, <2>0, <3>1, ShrinkOwn
    <3>3. QED
      BY <3>1, <3>2 DEF l
  <2>2. CASE kernel = "expand_fwd"
    <3>1. Programs(l) = ExpandGrid /\ \A q : Stores(l, q) = ExpandFwd(q, slot)
      BY <2>2 DEF Programs, Stores
    <3>2. /\ DOMAIN ExpandFwd(p, slot) \subseteq Outputs(slot)
          /\ p # r => DOMAIN ExpandFwd(p, slot) \cap DOMAIN ExpandFwd(r, slot) = {}
      BY <1>1, <1>2, <1>3, <2>0, <3>1, ExpandOwn
    <3>3. QED
      BY <1>4, <3>1, <3>2 DEF l
  <2>3. QED
    BY <1>8, <2>1, <2>2
<1>9. QED
  BY <1>1, <1>5, <1>6, <1>7, <1>8 DEF KernelsOf

LEMMA LoraInvOwn == LoraInv => LoraStoresStayOwn
<1> SUFFICES ASSUME LoraInv, grid = Programs(Head(launches))
             PROVE  LET writes == [p \in grid |-> DOMAIN Stores(Head(launches), p)]
                    IN  \A p, r \in grid :
                          /\ writes[p] \subseteq Deltas(lora) \cup OutputsAll
                          /\ p # r => writes[p] \cap writes[r] = {}
  BY DEF LoraStoresStayOwn, OutputsAll
<1>1. \A p, r \in grid :
        /\ DOMAIN Stores(Head(launches), p) \subseteq Deltas(lora) \cup OutputsAll
        /\ p # r => DOMAIN Stores(Head(launches), p) \cap DOMAIN Stores(Head(launches), r) = {}
  BY LoraStoresApart
<1>2. QED
  BY <1>1

(* The largest of finitely many numbers.                                   *)
LEMMA LargestOf ==
  ASSUME NEW n \in Nat \ {0}, NEW f \in [1 .. n -> Nat]
  PROVE  \E m \in {f[b] : b \in 1 .. n} : \A b \in 1 .. n : f[b] <= m
<1> DEFINE Has(k) == \E m \in {f[b] : b \in 1 .. k} : \A b \in 1 .. k : f[b] <= m
           D == {k \in Nat : k <= n /\ k # 0 /\ ~Has(k)}
<1>1. SUFFICES ASSUME D # {} PROVE FALSE
  <2> HIDE DEF Has
  <2>1. D = {} => Has(n)
    OBVIOUS
  <2>2. QED
    BY <2>1 DEF Has
<1>2. PICK k \in D : \A m \in D : k <= m
  <2>1. D \in SUBSET Nat
    OBVIOUS
  <2>2. D # {}
    BY <1>1
  <2> HIDE DEF D
  <2>3. \E k \in D : \A m \in D : k <= m
    BY ONLY <2>1, <2>2, LeastNumber
  <2>4. QED
    BY <2>3
<1>3. k \in 1 .. n
  BY <1>2
<1>4. k # 1
  <2>1. f[1] \in {f[b] : b \in 1 .. 1} /\ \A b \in 1 .. 1 : f[b] <= f[1]
    BY <1>3
  <2>2. QED
    BY <1>2, <2>1
<1>5. k - 1 \in 1 .. n /\ k - 1 \in Nat
  BY <1>3, <1>4
<1>6. k - 1 \notin D
  <2>1. ~ (k <= k - 1)
    BY <1>3
  <2> HIDE DEF D
  <2>2. QED
    BY <1>2, <2>1
<1>7. PICK c \in 1 .. k - 1 : \A b \in 1 .. k - 1 : f[b] <= f[c]
  BY <1>5, <1>6
<1>8. \E d \in {c, k} : f[c] <= f[d] /\ f[k] <= f[d]
  <2>1. f[c] \in Nat /\ f[k] \in Nat
    BY <1>3, <1>7
  <2>2. f[c] <= f[k] \/ f[k] <= f[c]
    BY <2>1
  <2>3. QED
    BY <2>1, <2>2
<1>9. PICK d \in 1 .. k : f[c] <= f[d] /\ f[k] <= f[d]
  BY <1>3, <1>7, <1>8
<1>10. \A b \in 1 .. k : f[b] <= f[d]
  <2>1. ASSUME NEW b \in 1 .. k PROVE f[b] <= f[d]
    <3>1. b = k \/ b \in 1 .. k - 1
      BY <1>3
    <3>2. f[b] \in Nat /\ f[c] \in Nat /\ f[d] \in Nat
      BY <1>3, <1>7
    <3>3. QED
      BY <1>7, <1>9, <3>1, <3>2
  <2>2. QED
    BY <2>1
<1>11. ~ \E m \in {f[b] : b \in 1 .. k} : \A b \in 1 .. k : f[b] <= m
  BY <1>2
<1> DEFINE K == 1 .. k
<1>12. d \in K /\ (\A b \in K : f[b] <= f[d]) /\ ~ \E m \in {f[b] : b \in K} : \A b \in K : f[b] <= m
  BY <1>9, <1>10, <1>11
<1> HIDE DEF K, D
<1>13. QED
  BY <1>12

LEMMA RecordIsOK ==
  ASSUME NEW batch \in LoraBatches, NEW dirs, NEW prefill \in BOOLEAN
  PROVE  /\ RecordOK(State(batch, dirs, prefill), Len(batch))
         /\ State(batch, dirs, prefill).is_prefill = prefill
<1> DEFINE st == State(batch, dirs, prefill)
           n == Len(batch)
           N == 0 .. n - 1
           len == [b \in N |-> IF prefill THEN batch[b + 1][2] ELSE 1]
           widths == {rank[batch[b][1]] : b \in DOMAIN batch}
           ranks == [b \in 1 .. n |-> rank[batch[b][1]]]
<1>1. /\ batch \in Seq((DOMAIN rank) \X (Nat \ {0})) /\ batch # <<>>
      /\ n \in Nat \ {0} /\ DOMAIN batch = 1 .. n
  BY BatchAssumption DEF BatchAssumption
<1>2. \A b \in 1 .. n : batch[b][1] \in DOMAIN rank /\ batch[b][2] \in Nat
  BY <1>1
<1>3. ranks \in [1 .. n -> Nat]
  BY <1>2, RankAssumption DEF RankAssumption
<1>4. widths = {ranks[b] : b \in 1 .. n}
  BY <1>1
<1>5. \E m \in widths : \A b \in DOMAIN batch : rank[batch[b][1]] <= m
  <2>1. \E m \in {ranks[b] : b \in 1 .. n} : \A b \in 1 .. n : ranks[b] <= m
    <3> HIDE DEF n, ranks
    <3>1. QED
      BY <1>1, <1>3, LargestOf
  <2>2. QED
    BY <1>1, <1>4, <2>1
<1>6. st.max_lora_dim = CHOOSE m \in widths : \A b \in DOMAIN batch : rank[batch[b][1]] <= m
  BY DEF State
<1>7. st.max_lora_dim \in {rank[a] : a \in DOMAIN rank}
  <2>1. st.max_lora_dim \in widths
    <3> HIDE DEF st, widths
    <3>1. QED
      BY <1>5, <1>6
  <2>2. widths \subseteq {rank[a] : a \in DOMAIN rank}
    BY <1>1, <1>2
  <2>3. QED
    BY <2>1, <2>2
<1>8. st.b_seq_len = [b \in N |-> batch[b + 1][2]]
  BY DEF State
<1>9. st.b_seq_len \in [N -> Nat]
  <2>1. \A b \in N : b + 1 \in 1 .. n
    BY <1>1
  <2>2. QED
    BY <1>2, <1>8, <2>1
<1>10. st.is_prefill = prefill /\ DOMAIN st.req_bins = N
  BY DEF State
<1>11. /\ DOMAIN st.request = 0 .. SumTo(len, n) - 1
       /\ st.b_start_loc = [b \in N |-> SumTo(len, b)]
  BY DEF State
<1>12. prefill => len = st.b_seq_len
  BY <1>8
<1>13. st.max_lora_dim >= WIDE => st.max_lora_dim % SHRINK_N = 0
  <2>1. /\ st.max_lora_dim \in widths
        /\ \A b \in DOMAIN batch : rank[batch[b][1]] <= st.max_lora_dim
    <3> HIDE DEF st, widths
    <3>1. QED
      BY <1>5, <1>6
  <2>2. PICK b \in DOMAIN batch : st.max_lora_dim = rank[batch[b][1]]
    BY <2>1
  <2> DEFINE a == batch[b][1]
  <2>3. rank[a] >= WIDE => rank[a] % SHRINK_N = 0
    <3> HIDE DEF st
    <3>1. a \in {batch[c][1] : c \in DOMAIN batch}
      BY <2>2
    <3>2. \A c \in DOMAIN batch : rank[batch[c][1]] <= rank[a]
      BY <2>1, <2>2
    <3> HIDE DEF a
    <3>3. QED
      BY <3>1, <3>2, BatchAssumption DEF BatchAssumption
  <2> HIDE DEF st
  <2>4. QED
    BY <2>2, <2>3
<1>14. QED
  BY <1>1, <1>7, <1>9, <1>10, <1>11, <1>12, <1>13 DEF RecordOK

(* The launches of a layer.                                                *)
LEMMA LayerLaunches ==
  ASSUME NEW e
  PROVE  /\ LoraGetQkv(e) \o LoraGetO(e) \in Seq(KernelsOf(e) \X Slots)
         /\ LoraGetQkv(e) \o LoraGetO(e) # <<>>
<1> DEFINE L == KernelsOf(e) \X Slots
<1>1. /\ \A slot \in Slots : <<<<"mm", slot>>>> \in Seq(L) /\ <<<<"rotary", slot>>>> \in Seq(L)
      /\ {"q", "k", "v", "o"} = Slots
  BY DEF KernelsOf, Slots
<1>2. ASSUME NEW slot \in Slots PROVE Adapt(e, slot) \in Seq(L)
  <2>1. CASE e = "bmm"
    <3>1. <<"bmm", slot>> \in L
      BY <2>1 DEF KernelsOf
    <3> HIDE DEF L
    <3>2. QED
      BY <2>1, <3>1 DEF Adapt
  <2>2. CASE e = "bgmv"
    <3>1. <<"bgmv_shrink", slot>> \in L /\ <<"bgmv_expand", slot>> \in L
      BY <2>2 DEF KernelsOf
    <3> HIDE DEF L
    <3>2. QED
      BY <2>2, <3>1 DEF Adapt
  <2>3. CASE e # "bmm" /\ e # "bgmv"
    <3>1. <<"shrink_fwd", slot>> \in L /\ <<"expand_fwd", slot>> \in L
      BY <2>3 DEF KernelsOf
    <3> HIDE DEF L
    <3>2. QED
      BY <2>3, <3>1 DEF Adapt
  <2>4. QED
    BY <2>1, <2>2, <2>3
<1>3. Len(<<<<"mm", "q">>>>) = 1
  OBVIOUS
<1> HIDE DEF L
<1>4. LoraGetO(e) \in Seq(L)
  <2> DEFINE s == <<<<"mm", "o">>>>
             t == Adapt(e, "o")
  <2>1. LoraGetO(e) = s \o t
    BY DEF LoraGetO
  <2>2. s \in Seq(L) /\ t \in Seq(L)
    BY <1>1, <1>2
  <2> HIDE DEF s, t
  <2>3. QED
    BY <2>1, <2>2
<1>5. /\ <<<<"mm", "q">>>> \in Seq(L) /\ <<<<"rotary", "q">>>> \in Seq(L)
      /\ <<<<"mm", "k">>>> \in Seq(L) /\ <<<<"rotary", "k">>>> \in Seq(L)
      /\ <<<<"mm", "v">>>> \in Seq(L)
      /\ Adapt(e, "q") \in Seq(L) /\ Adapt(e, "k") \in Seq(L) /\ Adapt(e, "v") \in Seq(L)
  BY <1>1, <1>2
<1>6. \A s, t \in Seq(L) : s \o t \in Seq(L) /\ Len(s \o t) = Len(s) + Len(t)
  OBVIOUS
<1> DEFINE one(kernel, slot) == <<<<kernel, slot>>>>
           s2 == one("mm", "q") \o Adapt(e, "q")
           s3 == s2 \o one("rotary", "q")
           s4 == s3 \o one("mm", "k")
           s5 == s4 \o Adapt(e, "k")
           s6 == s5 \o one("rotary", "k")
           s7 == s6 \o one("mm", "v")
           s8 == s7 \o Adapt(e, "v")
           s9 == s8 \o LoraGetO(e)
<1>7. LoraGetQkv(e) \o LoraGetO(e) = s9
  BY DEF LoraGetQkv
<1>8. /\ one("mm", "q") \in Seq(L) /\ one("rotary", "q") \in Seq(L)
      /\ one("mm", "k") \in Seq(L) /\ one("rotary", "k") \in Seq(L)
      /\ one("mm", "v") \in Seq(L) /\ Len(one("mm", "v")) = 1
  BY <1>5
<1> HIDE DEF one
<1>9. s2 \in Seq(L) /\ s3 \in Seq(L)
  BY <1>5, <1>6, <1>8
<1> HIDE DEF s3
<1>10. s4 \in Seq(L) /\ s5 \in Seq(L)
  BY <1>5, <1>6, <1>8, <1>9
<1> HIDE DEF s5
<1>11. s6 \in Seq(L)
  BY <1>6, <1>8, <1>10
<1> HIDE DEF s6
<1>12. s7 \in Seq(L) /\ Len(s7) = Len(s6) + 1
  BY <1>6, <1>8, <1>11
<1> HIDE DEF s7
<1>13. s8 \in Seq(L) /\ Len(s8) = Len(s7) + Len(Adapt(e, "v"))
  BY <1>5, <1>6, <1>12
<1> HIDE DEF s8
<1>14. s9 \in Seq(L) /\ Len(s9) = Len(s8) + Len(LoraGetO(e))
  BY <1>4, <1>6, <1>13
<1> HIDE DEF s9
<1>15. s9 # <<>>
  <2>1. /\ Len(s6) \in Nat /\ Len(Adapt(e, "v")) \in Nat /\ Len(LoraGetO(e)) \in Nat
        /\ Len(<<>>) = 0
    BY <1>4, <1>5, <1>11
  <2>2. QED
    BY <1>12, <1>13, <1>14, <2>1
<1>16. QED
  BY <1>7, <1>14, <1>15 DEF L

LEMMA LoraBegins == LoraInit => LoraInv
<1> SUFFICES ASSUME LoraInit PROVE LoraInv
  OBVIOUS
<1>1. PICK batch \in LoraBatches, dirs \in AdapterOrders, prefill \in BOOLEAN, bmm \in BOOLEAN :
        /\ lora = State(batch, dirs, prefill)
        /\ engine = Engine(lora, bmm)
        /\ launches = LoraGetQkv(engine) \o LoraGetO(engine)
  BY DEF LoraInit
<1>2. RecordOK(lora, Len(batch))
  BY <1>1, RecordIsOK
<1>3. engine \in {"bgmv", "triton", "bmm"}
  BY <1>1 DEF Engine
<1>4. \A a \in DOMAIN rank : rank[a] \in Nat
  BY RankAssumption DEF RankAssumption
<1>5. engine = "triton" => lora.is_prefill /\ lora.max_lora_dim >= WIDE
  BY <1>1 DEF Engine
<1>6. launches \in Seq(KernelsOf(engine) \X Slots) /\ launches # <<>>
  BY <1>1, LayerLaunches
<1>7. QED
  BY <1>2, <1>3, <1>5, <1>6 DEF LoraInv

LEMMA LoraStep == LoraInv /\ [LoraNext]_loraVars => LoraInv'
<1> SUFFICES ASSUME LoraInv, [LoraNext]_loraVars PROVE LoraInv'
  OBVIOUS
<1>1. ASSUME UNCHANGED <<lora, engine>>,
             launches' \in Seq(KernelsOf(engine) \X Slots) /\ launches' # <<>>
      PROVE  LoraInv'
  BY <1>1 DEF LoraInv, RecordOK
<1>2. CASE \E p \in grid : RunLora(p)
  BY <1>1, <1>2 DEF RunLora, Run, engineVars, LoraInv
<1>3. CASE NextLora
  <2>1. /\ UNCHANGED <<lora, engine>> /\ Len(launches) > 1 /\ launches' = Tail(launches)
    BY <1>3 DEF NextLora, Launch, engineVars
  <2>2. launches' \in Seq(KernelsOf(engine) \X Slots) /\ launches' # <<>>
    <3> DEFINE L == KernelsOf(engine) \X Slots
    <3>1. launches \in Seq(L)
      BY DEF LoraInv
    <3> HIDE DEF L
    <3>2. Tail(launches) \in Seq(L) /\ Len(Tail(launches)) = Len(launches) - 1
      BY <2>1, <3>1
    <3>3. Len(Tail(launches)) > 0
      BY <2>1, <3>1, <3>2
    <3>4. \A s \in Seq(L) : Len(s) > 0 => s # <<>>
      OBVIOUS
    <3>5. QED
      BY <2>1, <3>2, <3>3, <3>4 DEF L
  <2>3. QED
    BY <1>1, <2>1, <2>2
<1>4. CASE NextLayer
  <2>1. /\ lora' = [lora EXCEPT !.layer = @ + 1] /\ engine' = engine
        /\ launches' = LoraGetQkv(engine) \o LoraGetO(engine)
    BY <1>4 DEF NextLayer
  <2>2. launches' \in Seq(KernelsOf(engine') \X Slots) /\ launches' # <<>>
    BY <2>1, LayerLaunches
  <2>3. \A n : RecordOK(lora, n) => RecordOK(lora', n)
    BY <2>1 DEF RecordOK
  <2>4. lora'.is_prefill = lora.is_prefill /\ lora'.max_lora_dim = lora.max_lora_dim
    BY <2>1
  <2>5. QED
    BY <2>1, <2>2, <2>3, <2>4 DEF LoraInv
<1>5. CASE UNCHANGED loraVars
  BY <1>1, <1>5 DEF loraVars, engineVars, launchVars, LoraInv
<1>6. QED
  BY <1>2, <1>3, <1>4, <1>5 DEF LoraNext

(* No program of a launch of a LoRA layer, of whichever engine, stores     *)
(* outside the layer's deltas and outputs, or where another one of the     *)
(* launch stores: no row of a request is written for another request.      *)
THEOREM LoraStoresAreOwn == LoraSpec => []LoraStoresStayOwn
<1>1. LoraSpec => []LoraInv
  BY LoraBegins, LoraStep, PTL DEF LoraSpec
<1>2. QED
  BY <1>1, LoraInvOwn, PTL

-----------------------------------------------------------------------------
(* What the LoRA kernels compute (LoraLayer): a request's own LoRA.         *)

(* What joining one sequence after another makes, and FlattenSeq of it.    *)
JoinsTo(g, seqs, n) ==
  /\ DOMAIN seqs = 1 .. n /\ Len(seqs) = n
  /\ g[1] = seqs[1] /\ \A i \in 2 .. n : g[i] = g[i - 1] \o seqs[i]

LEMMA FlattenBy ==
  ASSUME NEW n \in Nat \ {0}, NEW seqs, NEW g, JoinsTo(g, seqs, n)
  PROVE  FlattenSeq(seqs) = g[n]
<1> USE DEF JoinsTo
<1> DEFINE N == 1 .. n
           f == CHOOSE f : f = [i \in N |-> IF i = 1 THEN seqs[i] ELSE f[i - 1] \o seqs[i]]
           h == [i \in N |-> g[i]]
<1>1. FlattenSeq(seqs) = f[n]
  BY Zenon DEF FlattenSeq
<1>2. h = [i \in N |-> IF i = 1 THEN seqs[i] ELSE h[i - 1] \o seqs[i]]
  <2>1. ASSUME NEW i \in N PROVE h[i] = IF i = 1 THEN seqs[i] ELSE h[i - 1] \o seqs[i]
    <3>1. CASE i = 1
      BY <3>1
    <3>2. CASE i # 1
      <4>1. i \in 2 .. n /\ i - 1 \in N
        BY <3>2
      <4>2. h[i] = g[i] /\ h[i - 1] = g[i - 1]
        BY <4>1
      <4>3. g[i] = g[i - 1] \o seqs[i]
        BY <4>1
      <4> HIDE DEF h
      <4>4. QED
        BY <3>2, <4>2, <4>3, Zenon
    <3>3. QED
      BY <3>1, <3>2
  <2>2. h = [i \in N |-> h[i]]
    OBVIOUS
  <2> HIDE DEF h, N
  <2>3. QED
    BY <2>1, <2>2
<1>3. f = [i \in N |-> IF i = 1 THEN seqs[i] ELSE f[i - 1] \o seqs[i]]
  <2> HIDE DEF h, N
  <2>1. \E u : u = [i \in N |-> IF i = 1 THEN seqs[i] ELSE u[i - 1] \o seqs[i]]
    BY <1>2, Zenon
  <2>2. QED
    BY <2>1, Zenon
<1> HIDE DEF f
<1>4. \A i \in N : f[i] = IF i = 1 THEN seqs[i] ELSE f[i - 1] \o seqs[i]
  BY <1>3, Zenon
<1> DEFINE Bad == {i \in N : f[i] # g[i]}
<1>5. Bad = {}
  <2>1. SUFFICES ASSUME Bad # {} PROVE FALSE
    OBVIOUS
  <2>2. PICK i \in Bad : \A x \in Bad : i <= x
    <3>1. Bad \in SUBSET Nat
      OBVIOUS
    <3>2. Bad # {}
      BY <2>1
    <3> HIDE DEF Bad
    <3>3. \E i \in Bad : \A x \in Bad : i <= x
      BY ONLY <3>1, <3>2, LeastNumber
    <3>4. QED
      BY <3>3
  <2>3. i \in N /\ f[i] # g[i]
    BY <2>2
  <2>4. i # 1
    BY <1>4, <2>3
  <2>5. i \in 2 .. n /\ i - 1 \in N /\ ~(i <= i - 1)
    BY <2>3, <2>4
  <2>6. i - 1 \notin Bad
    BY <2>2, <2>5
  <2>7. f[i - 1] = g[i - 1]
    BY <2>5, <2>6
  <2>8. f[i] = f[i - 1] \o seqs[i]
    BY <1>4, <2>3, <2>4
  <2>9. g[i] = g[i - 1] \o seqs[i]
    BY <2>5
  <2>10. QED
    BY <2>3, <2>7, <2>8, <2>9
<1>6. n \in N
  OBVIOUS
<1> HIDE DEF N
<1>7. f[n] = g[n]
  BY <1>5, <1>6
<1>8. QED
  BY <1>1, <1>7

(* A sum of terms that are there up to a place and none after it.          *)
TermsUpTo(terms, x, m, r) ==
  \A d \in 0 .. m - 1 : terms[d] = IF d < r THEN <<x[d + 1]>> ELSE <<>>
SumsTo(terms, x, m, r) == SumOf(terms, m) = [d \in 1 .. r |-> x[d]]

LEMMA TermsAre ==
  ASSUME NEW m \in Nat \ {0}, NEW r \in 1 .. m, NEW x, NEW terms, TermsUpTo(terms, x, m, r)
  PROVE  SumsTo(terms, x, m, r)
<1>0. \A d \in 0 .. m - 1 : terms[d] = IF d < r THEN <<x[d + 1]>> ELSE <<>>
  BY DEF TermsUpTo
<1> DEFINE seqs == [i \in 1 .. m |-> terms[i - 1]]
           upto(i) == IF i <= r THEN i ELSE r
           g == [i \in 1 .. m |-> [d \in 1 .. upto(i) |-> x[d]]]
<1>1. SumOf(terms, m) = FlattenSeq(seqs)
  BY DEF SumOf
<1>2. DOMAIN seqs = 1 .. m /\ Len(seqs) = m /\ DOMAIN g = 1 .. m
  OBVIOUS
<1>3. \A i \in 1 .. m : seqs[i] = IF i <= r THEN <<x[i]>> ELSE <<>>
  <2>1. ASSUME NEW i \in 1 .. m PROVE seqs[i] = IF i <= r THEN <<x[i]>> ELSE <<>>
    <3>1. i - 1 \in 0 .. m - 1 /\ (i - 1 < r <=> i <= r) /\ (i - 1) + 1 = i
      OBVIOUS
    <3>2. seqs[i] = terms[i - 1]
      OBVIOUS
    <3>3. terms[i - 1] = IF i - 1 < r THEN <<x[(i - 1) + 1]>> ELSE <<>>
      BY <1>0, <3>1
    <3>4. QED
      BY <3>1, <3>2, <3>3
  <2>2. QED
    BY <2>1
<1>4. g[1] = seqs[1]
  <2>1. 1 \in 1 .. m /\ upto(1) = 1 /\ 1 <= r
    OBVIOUS
  <2>2. g[1] = [d \in 1 .. 1 |-> x[d]] /\ seqs[1] = <<x[1]>>
    BY <1>3, <2>1
  <2>3. [d \in 1 .. 1 |-> x[d]] = <<x[1]>>
    OBVIOUS
  <2>4. QED
    BY ONLY <2>2, <2>3
<1>5. ASSUME NEW i \in 2 .. m PROVE g[i] = g[i - 1] \o seqs[i]
  <2>1. i \in 1 .. m /\ i - 1 \in 1 .. m
    OBVIOUS
  <2>2. CASE i <= r
    <3>1. upto(i) = i /\ upto(i - 1) = i - 1
      BY <2>2
    <3>2. g[i] = [d \in 1 .. i |-> x[d]] /\ g[i - 1] = [d \in 1 .. i - 1 |-> x[d]]
      BY <2>1, <3>1
    <3>3. seqs[i] = <<x[i]>>
      BY <1>3, <2>1, <2>2
    <3>4. [d \in 1 .. i - 1 |-> x[d]] \o <<x[i]>> = [d \in 1 .. i |-> x[d]]
      OBVIOUS
    <3>5. QED
      BY <3>2, <3>3, <3>4
  <2>3. CASE ~(i <= r)
    <3>1. upto(i) = r /\ upto(i - 1) = r
      BY <2>3
    <3>2. g[i] = [d \in 1 .. r |-> x[d]] /\ g[i - 1] = [d \in 1 .. r |-> x[d]]
      BY <2>1, <3>1
    <3>3. seqs[i] = <<>>
      BY <1>3, <2>1, <2>3
    <3>4. [d \in 1 .. r |-> x[d]] \o <<>> = [d \in 1 .. r |-> x[d]]
      OBVIOUS
    <3>5. QED
      BY <3>2, <3>3, <3>4
  <2>4. QED
    BY <2>2, <2>3
<1>6. upto(m) = r /\ m \in 1 .. m
  OBVIOUS
<1>7. g[m] = [d \in 1 .. r |-> x[d]]
  BY <1>6
<1> HIDE DEF seqs, g
<1>8. JoinsTo(g, seqs, m)
  BY <1>2, <1>4, <1>5 DEF JoinsTo
<1>9. FlattenSeq(seqs) = g[m]
  BY <1>8, FlattenBy
<1>10. QED
  BY <1>1, <1>7, <1>9 DEF SumsTo

(* Every place is in a part.                                               *)
LEMMA PartsCover ==
  ASSUME NEW n \in Nat, NEW len \in [0 .. n - 1 -> Nat], NEW p \in 0 .. SumTo(len, n) - 1
  PROVE  \E b \in 0 .. n - 1 : \E j \in 0 .. len[b] - 1 : p = SumTo(len, b) + j
<1> DEFINE s(i) == SumTo(len, i)
           D == {i \in 0 .. n : p < s(i)}
<1>1. /\ s(0) = 0 /\ \A i \in 0 .. n : s(i) \in Nat
      /\ \A i \in 0 .. n - 1 : s(i + 1) = s(i) + len[i]
  BY RunningSum
<1> HIDE DEF s
<1>2. n \in D /\ p \in Nat
  <2>1. s(n) \in Nat /\ p \in 0 .. s(n) - 1
    BY <1>1 DEF s
  <2>2. QED
    BY <2>1
<1>3. PICK k \in D : \A m \in D : k <= m
  <2>1. D \in SUBSET Nat /\ D # {}
    BY <1>2
  <2> HIDE DEF D
  <2>2. \E k \in D : \A m \in D : k <= m
    BY ONLY <2>1, LeastNumber
  <2>3. QED
    BY <2>2
<1>4. k \in 0 .. n /\ p < s(k)
  BY <1>3
<1>5. k # 0
  BY <1>1, <1>2, <1>4
<1>6. k - 1 \in 0 .. n - 1 /\ k - 1 \in 0 .. n /\ (k - 1) + 1 = k /\ ~(k <= k - 1)
  BY <1>4, <1>5
<1>7. ~(p < s(k - 1))
  BY <1>3, <1>6
<1> DEFINE b == k - 1
<1>8. /\ b \in 0 .. n - 1 /\ s(b) \in Nat /\ len[b] \in Nat /\ s(b) <= p /\ p < s(b) + len[b]
  BY <1>1, <1>2, <1>4, <1>6, <1>7
<1> HIDE DEF b
<1>9. p - s(b) \in 0 .. len[b] - 1 /\ p = s(b) + (p - s(b))
  BY <1>2, <1>8
<1>10. QED
  BY <1>8, <1>9 DEF s

(* at goes on with t after its first a places.                             *)
GoesOn(at, a, t) == \A j \in 1 .. Len(t) : at[a + j] = t[j]
ExtendedBy(at, a, t) ==
  [p \in 1 .. a |-> at[p]] \o t = [p \in 1 .. a + Len(t) |-> at[p]]

(* Then its first a places, followed by t, are its first a + Len(t).       *)
LEMMA JoinAt ==
  ASSUME NEW a \in Nat, NEW S, NEW t \in Seq(S), NEW at, GoesOn(at, a, t)
  PROVE  ExtendedBy(at, a, t)
<1> DEFINE u == [p \in 1 .. a |-> at[p]]
           v == [p \in 1 .. a + Len(t) |-> at[p]]
<1>1. Len(t) \in Nat /\ Len(u) = a /\ DOMAIN (u \o t) = 1 .. a + Len(t)
  OBVIOUS
<1>2. ASSUME NEW p \in 1 .. a + Len(t) PROVE (u \o t)[p] = v[p]
  <2>1. CASE p <= a
    BY <1>1, <2>1
  <2>2. CASE ~(p <= a)
    <3>1. p - a \in 1 .. Len(t) /\ a + (p - a) = p
      BY <1>1, <2>2
    <3>2. (u \o t)[p] = t[p - a]
      BY <1>1, <2>2
    <3>3. at[a + (p - a)] = t[p - a]
      BY <3>1 DEF GoesOn
    <3>4. QED
      BY <3>1, <3>2, <3>3
  <2>3. QED
    BY <2>1, <2>2
<1>3. u \o t = [p \in 1 .. a + Len(t) |-> (u \o t)[p]]
  BY <1>1
<1>4. v = [p \in 1 .. a + Len(t) |-> v[p]]
  OBVIOUS
<1> HIDE DEF u, v
<1>5. u \o t = v
  BY <1>2, <1>3, <1>4
<1>6. QED
  BY <1>5 DEF u, v, ExtendedBy

(* FlattenSeq lays its sequences one after another.                        *)
LaidAt(seqs, n, b, j) ==
  FlattenSeq(seqs)[SumTo([i \in 0 .. n - 1 |-> Len(seqs[i + 1])], b - 1) + j] = seqs[b][j]

LEMMA FlattenAt ==
  ASSUME NEW S, NEW n \in Nat \ {0}, NEW seqs \in [1 .. n -> Seq(S)],
         NEW b \in 1 .. n, NEW j \in 1 .. Len(seqs[b])
  PROVE  LaidAt(seqs, n, b, j)
<1> DEFINE N == 0 .. n - 1
           len == [i \in N |-> Len(seqs[i + 1])]
           s(i) == SumTo(len, i)
           Is(p, x) == x \in (1 .. n) \X Nat /\ x[2] \in 1 .. Len(seqs[x[1]]) /\ p = s(x[1] - 1) + x[2]
           part(p) == CHOOSE x : Is(p, x)
           at == [p \in Nat |-> seqs[part(p)[1]][part(p)[2]]]
           g == [i \in 1 .. n |-> [p \in 1 .. s(i) |-> at[p]]]
<1>1. \A i \in 1 .. n : seqs[i] \in Seq(S) /\ Len(seqs[i]) \in Nat /\ i - 1 \in N /\ len[i - 1] = Len(seqs[i])
  OBVIOUS
<1>2. len \in [N -> Nat]
  <2>1. \A i \in N : i + 1 \in 1 .. n
    OBVIOUS
  <2>2. QED
    BY <1>1, <2>1
<1>3. /\ s(0) = 0 /\ \A i \in 0 .. n : s(i) \in Nat
      /\ \A i \in N : s(i + 1) = s(i) + len[i]
      /\ \A i, k \in 0 .. n : i <= k => s(i) <= s(k)
  <2> HIDE DEF len
  <2>1. QED
    BY <1>2, RunningSum
<1>4. Packed(len, n)
  <2> HIDE DEF len
  <2>1. QED
    BY <1>2, PartsPacked
<1> HIDE DEF len, N
<1>5. ASSUME NEW c \in 1 .. n, NEW k \in 1 .. Len(seqs[c])
      PROVE  /\ s(c - 1) + k \in Nat /\ at[s(c - 1) + k] = seqs[c][k]
  <2> DEFINE p == s(c - 1) + k
  <2>1. p \in Nat
    BY <1>3
  <2>2. Is(p, <<c, k>>)
    OBVIOUS
  <2>3. ASSUME NEW x, Is(p, x) PROVE x = <<c, k>>
    <3>1. x[1] \in 1 .. n /\ x[2] \in 1 .. Len(seqs[x[1]]) /\ p = s(x[1] - 1) + x[2] /\ x = <<x[1], x[2]>>
      BY <2>3
    <3>2. /\ x[1] - 1 \in 0 .. n - 1 /\ c - 1 \in 0 .. n - 1 /\ x[2] - 1 \in Nat /\ k - 1 \in Nat
          /\ x[2] - 1 < len[x[1] - 1] /\ k - 1 < len[c - 1]
      <4>1. x[1] \in 1 .. n /\ x[2] \in 1 .. Len(seqs[x[1]])
        BY <3>1
      <4>2. Len(seqs[x[1]]) \in Nat /\ len[x[1] - 1] = Len(seqs[x[1]]) /\ len[c - 1] = Len(seqs[c]) /\ Len(seqs[c]) \in Nat
        BY <1>1, <4>1
      <4>3. x[2] - 1 \in Nat /\ x[2] - 1 < Len(seqs[x[1]]) /\ k - 1 \in Nat /\ k - 1 < Len(seqs[c])
        BY <4>1, <4>2, SMTT(20)
      <4>4. x[1] - 1 \in 0 .. n - 1 /\ c - 1 \in 0 .. n - 1
        BY <4>1
      <4>5. QED
        BY <4>2, <4>3, <4>4
    <3>3. s(x[1] - 1) \in Nat /\ s(c - 1) \in Nat
      BY <1>3, <3>2, SMTT(20)
    <3>4. s(x[1] - 1) + (x[2] - 1) = s(c - 1) + (k - 1)
      BY <3>1, <3>3, SMTT(20)
    <3>5. x[1] - 1 = c - 1 /\ x[2] - 1 = k - 1
      <4> DEFINE c1 == x[1] - 1
                 k1 == x[2] - 1
                 c2 == c - 1
                 k2 == k - 1
      <4>1. SumTo(len, c1) + k1 = SumTo(len, c2) + k2
        BY <3>4
      <4>2. c1 \in 0 .. n - 1 /\ c2 \in 0 .. n - 1 /\ k1 \in Nat /\ k2 \in Nat /\ k1 < len[c1] /\ k2 < len[c2]
        BY <3>2
      <4> HIDE DEF c1, c2, k1, k2
      <4>3. c1 = c2 /\ k1 = k2
        BY ONLY <1>4, <4>1, <4>2 DEF Packed
      <4>4. QED
        BY <4>3 DEF c1, c2, k1, k2
    <3>6. x[1] = c /\ x[2] = k
      BY <3>1, <3>5
    <3>7. QED
      BY <3>1, <3>6
  <2>4. at[p] = seqs[part(p)[1]][part(p)[2]]
    BY <2>1
  <2> HIDE DEF Is, p, at
  <2>5. part(p) = <<c, k>>
    <3>1. Is(p, part(p))
      <4>1. \E x : Is(p, x)
        BY <2>2
      <4>2. QED
        BY <4>1, Zenon
    <3> HIDE DEF part
    <3>2. QED
      BY <2>3, <3>1
  <2> HIDE DEF part
  <2>6. at[p] = seqs[c][k]
    BY <2>4, <2>5
  <2>7. QED
    BY <2>1, <2>6 DEF p
<1> HIDE DEF at
<1>6. s(1) = Len(seqs[1]) /\ 1 \in 1 .. n
  <2>1. 1 \in 1 .. n /\ 1 - 1 = 0 /\ 0 + 1 = 1
    OBVIOUS
  <2>2. 0 \in N /\ len[0] = Len(seqs[1]) /\ Len(seqs[1]) \in Nat
    BY <1>1, <2>1
  <2>3. s(0 + 1) = s(0) + len[0]
    BY <1>3, <2>2
  <2>4. QED
    BY <1>3, <2>1, <2>2, <2>3
<1>7. g[1] = seqs[1]
  <2>1. g[1] = [p \in 1 .. Len(seqs[1]) |-> at[p]]
    BY <1>6
  <2>2. \A k \in 1 .. Len(seqs[1]) : at[k] = seqs[1][k]
    <3>1. ASSUME NEW k \in 1 .. Len(seqs[1]) PROVE at[k] = seqs[1][k]
      <4>1. at[s(1 - 1) + k] = seqs[1][k]
        BY <1>5, <1>6
      <4>2. s(1 - 1) + k = k
        BY <1>3
      <4>3. QED
        BY <4>1, <4>2
    <3>2. QED
      BY <3>1
  <2>3. seqs[1] \in Seq(S)
    BY <1>1, <1>6
  <2>4. seqs[1] = [p \in 1 .. Len(seqs[1]) |-> seqs[1][p]]
    BY <2>3
  <2>5. QED
    BY <2>1, <2>2, <2>4
<1>8. ASSUME NEW i \in 2 .. n PROVE g[i] = g[i - 1] \o seqs[i]
  <2>1. i \in 1 .. n /\ i - 1 \in 1 .. n /\ i - 1 \in N /\ i - 1 \in 0 .. n /\ (i - 1) + 1 = i
    BY DEF N
  <2>2. s(i) = s(i - 1) + Len(seqs[i]) /\ s(i - 1) \in Nat
    BY <1>1, <1>3, <2>1
  <2>3. \A k \in 1 .. Len(seqs[i]) : at[s(i - 1) + k] = seqs[i][k]
    BY <1>5, <2>1
  <2>4. seqs[i] \in Seq(S)
    BY <2>1
  <2>5. [p \in 1 .. s(i - 1) |-> at[p]] \o seqs[i] = [p \in 1 .. s(i - 1) + Len(seqs[i]) |-> at[p]]
    <3> DEFINE a == s(i - 1)
               t == seqs[i]
    <3>1. a \in Nat /\ t \in Seq(S) /\ GoesOn(at, a, t)
      BY <2>2, <2>3, <2>4 DEF GoesOn
    <3> HIDE DEF a, t
    <3>2. ExtendedBy(at, a, t)
      BY ONLY <3>1, JoinAt
    <3>3. QED
      BY <3>2 DEF a, t, ExtendedBy
  <2>6. g[i] = [p \in 1 .. s(i) |-> at[p]] /\ g[i - 1] = [p \in 1 .. s(i - 1) |-> at[p]]
    BY <2>1
  <2>7. QED
    BY <2>2, <2>5, <2>6
<1>9. DOMAIN seqs = 1 .. n /\ Len(seqs) = n
  OBVIOUS
<1>10. g[n] = [p \in 1 .. s(n) |-> at[p]]
  OBVIOUS
<1>11. s(b - 1) + j \in 1 .. s(n)
  <2>1. b \in 0 .. n /\ n \in 0 .. n /\ b - 1 \in 0 .. n /\ b - 1 \in N /\ (b - 1) + 1 = b /\ b <= n
    BY DEF N
  <2>2. s(b) = s(b - 1) + Len(seqs[b]) /\ s(b) <= s(n) /\ s(b) \in Nat /\ s(n) \in Nat /\ s(b - 1) \in Nat
    BY <1>1, <1>3, <2>1
  <2>3. QED
    BY <1>1, <2>2
<1> HIDE DEF g, s
<1>12. JoinsTo(g, seqs, n)
  BY <1>7, <1>8, <1>9 DEF JoinsTo
<1>13. FlattenSeq(seqs) = g[n]
  BY <1>12, FlattenBy
<1>14. FlattenSeq(seqs)[s(b - 1) + j] = seqs[b][j]
  BY <1>5, <1>10, <1>11, <1>13
<1>15. QED
  BY <1>14 DEF s, len, N, LaidAt

(* Beyond RecordOK: where a request's adapter is and which rows are whose. *)
RecordServes(st, n) ==
  /\ RecordOK(st, n) /\ n # 0
  /\ st.adapter_dirs \in Seq(DOMAIN rank)
  /\ \A b \in 0 .. n - 1 :
       /\ st.adapters[b] \in DOMAIN rank
       /\ st.req_bins[b] \in DOMAIN st.adapter_dirs
       /\ st.adapter_dirs[st.req_bins[b]] = st.adapters[b]
       /\ rank[st.adapters[b]] <= st.max_lora_dim
       /\ st.b_seq_len[b] <= st.max_b_seq_len
  /\ st.max_b_seq_len \in Nat
  /\ \A row \in DOMAIN st.request : st.request[row] \in 0 .. n - 1
  /\ st.is_prefill =>
       \A b \in 0 .. n - 1 : \A j \in 0 .. st.b_seq_len[b] - 1 :
         st.request[SumTo(st.b_seq_len, b) + j] = b

(* Where adapter i begins in the pool's list of cells.                     *)
LEMMA StartIs ==
  ASSUME NEW n \in Nat \ {0}, NEW len \in [0 .. n - 1 -> Nat],
         \A i \in 1 .. n : len[i - 1] = ALen(i), NEW i \in 1 .. n
  PROVE  AStart(i) = SumTo(len, i - 1)
<1> DEFINE K == 0 .. i - 1
           f == CHOOSE f : f = [k \in K |-> IF k = 0 THEN 0 ELSE f[k - 1] + ALen(k)]
           h == [k \in K |-> SumTo(len, k)]
<1>1. AStart(i) = f[i - 1]
  BY Zenon DEF AStart
<1>2. SumTo(len, 0) = 0 /\ \A k \in 0 .. n - 1 : SumTo(len, k + 1) = SumTo(len, k) + len[k]
  BY RunningSum
<1>3. ASSUME NEW k \in K PROVE h[k] = IF k = 0 THEN 0 ELSE h[k - 1] + ALen(k)
  <2>1. CASE k = 0
    BY <1>2, <2>1
  <2>2. CASE k # 0
    <3>1. k - 1 \in K /\ k \in 1 .. n /\ k - 1 \in 0 .. n - 1 /\ (k - 1) + 1 = k
      BY <2>2
    <3>2. SumTo(len, (k - 1) + 1) = SumTo(len, k - 1) + len[k - 1]
      BY <1>2, <3>1
    <3>3. len[k - 1] = ALen(k)
      BY <3>1
    <3>4. h[k] = SumTo(len, k) /\ h[k - 1] = SumTo(len, k - 1)
      BY <3>1
    <3> HIDE DEF h
    <3>5. QED
      BY <2>2, <3>1, <3>2, <3>3, <3>4
  <2>3. QED
    BY <2>1, <2>2
<1>4. h = [k \in K |-> h[k]]
  OBVIOUS
<1>5. i - 1 \in K /\ h[i - 1] = SumTo(len, i - 1)
  OBVIOUS
<1> HIDE DEF h
<1>6. h = [k \in K |-> IF k = 0 THEN 0 ELSE h[k - 1] + ALen(k)]
  <2> HIDE DEF K
  <2>1. QED
    BY <1>3, <1>4
<1>7. f = [k \in K |-> IF k = 0 THEN 0 ELSE f[k - 1] + ALen(k)]
  <2> HIDE DEF K
  <2>1. \E u : u = [k \in K |-> IF k = 0 THEN 0 ELSE u[k - 1] + ALen(k)]
    BY <1>6, Zenon
  <2>2. QED
    BY <2>1, Zenon
<1> HIDE DEF f
<1>8. \A k \in K : f[k] = IF k = 0 THEN 0 ELSE f[k - 1] + ALen(k)
  BY <1>7, Zenon
<1> DEFINE Bad == {k \in K : f[k] # h[k]}
<1>9. Bad = {}
  <2>1. SUFFICES ASSUME Bad # {} PROVE FALSE
    OBVIOUS
  <2>2. PICK k \in Bad : \A x \in Bad : k <= x
    <3>1. Bad \in SUBSET Nat /\ Bad # {}
      BY <2>1
    <3> HIDE DEF Bad
    <3>2. \E k \in Bad : \A x \in Bad : k <= x
      BY ONLY <3>1, LeastNumber
    <3>3. QED
      BY <3>2
  <2>3. k \in K /\ f[k] # h[k]
    BY <2>2
  <2>4. k # 0
    BY <1>3, <1>8, <2>3
  <2>5. k - 1 \in K /\ ~(k <= k - 1)
    BY <2>3, <2>4
  <2>6. f[k - 1] = h[k - 1]
    BY <2>2, <2>5
  <2>7. f[k] = f[k - 1] + ALen(k) /\ h[k] = h[k - 1] + ALen(k)
    BY <1>3, <1>8, <2>3, <2>4
  <2>8. QED
    BY <2>3, <2>6, <2>7
<1> HIDE DEF K
<1>10. f[i - 1] = h[i - 1]
  BY <1>5, <1>9
<1>11. QED
  BY <1>1, <1>5, <1>10

(* Cell k of an adapter's matrix, in the pool, is the cell it was loaded   *)
(* to, at the place of the matrix.                                         *)
LEMMA CellIs ==
  ASSUME lora.adapter_dirs \in Seq(DOMAIN rank), NEW i \in DOMAIN lora.adapter_dirs,
         NEW slot \in Slots, NEW k \in 0 .. rank[lora.adapter_dirs[i]] - 1
  PROVE  /\ RankSize(i) = rank[lora.adapter_dirs[i]]
         /\ rank[lora.adapter_dirs[i]] * qkvo[slot] + k + 1 \in 1 .. 4 * rank[lora.adapter_dirs[i]]
         /\ Cell(i, slot, k) =
              loc[lora.adapter_dirs[i]][rank[lora.adapter_dirs[i]] * qkvo[slot] + k + 1]
<1> DEFINE dirs == lora.adapter_dirs
           n == Len(dirs)
           a == dirs[i]
           r == rank[a]
           seqs == [x \in 1 .. n |-> loc[dirs[x]]]
           len == [x \in 0 .. n - 1 |-> Len(seqs[x + 1])]
           j == r * qkvo[slot] + k + 1
<1>1. n \in Nat \ {0} /\ DOMAIN dirs = 1 .. n /\ i \in 1 .. n
  OBVIOUS
<1>2. \A x \in 1 .. n : dirs[x] \in DOMAIN rank
  BY <1>1
<1>3. \A x \in 1 .. n : rank[dirs[x]] \in Nat \ {0} /\ Len(loc[dirs[x]]) = 4 * rank[dirs[x]] /\ loc[dirs[x]] \in Seq(Nat)
  BY <1>2, RankAssumption, LocAssumption DEF RankAssumption, LocAssumption
<1>4. r \in Nat \ {0} /\ Len(loc[a]) = 4 * r /\ ALen(i) = 4 * r
  BY <1>1, <1>3 DEF ALen
<1>5. RankSize(i) = r
  BY <1>4 DEF RankSize
<1>6. j \in 1 .. 4 * r
  <2> HIDE DEF r
  <2>1. slot = "q" \/ slot = "k" \/ slot = "v" \/ slot = "o"
    BY DEF Slots
  <2>2. k \in Nat /\ k < r
    BY <1>4 DEF r
  <2>3. qkvo["q"] = 0 /\ qkvo["k"] = 1 /\ qkvo["v"] = 2 /\ qkvo["o"] = 3
    BY DEF qkvo
  <2>4. QED
    BY <1>4, <2>1, <2>2, <2>3
<1>7. seqs \in [1 .. n -> Seq(Nat)] /\ seqs[i] = loc[a]
  BY <1>1, <1>3
<1>8. ALoc = FlattenSeq(seqs)
  BY <1>1 DEF ALoc
<1>9. \A x \in 1 .. n : len[x - 1] = ALen(x)
  <2>1. ASSUME NEW x \in 1 .. n PROVE len[x - 1] = ALen(x)
    <3>1. x - 1 \in 0 .. n - 1 /\ (x - 1) + 1 = x
      OBVIOUS
    <3>2. len[x - 1] = Len(seqs[x])
      BY <3>1
    <3>3. QED
      BY <1>3, <3>2 DEF ALen
  <2>2. QED
    BY <2>1
<1>10. len \in [0 .. n - 1 -> Nat]
  <2>1. \A x \in 0 .. n - 1 : x + 1 \in 1 .. n
    BY <1>1
  <2>2. QED
    BY <1>3, <2>1
<1>11. AStart(i) = SumTo(len, i - 1) /\ SumTo(len, i - 1) \in Nat
  <2> HIDE DEF len, n
  <2>1. AStart(i) = SumTo(len, i - 1)
    BY <1>1, <1>9, <1>10, StartIs
  <2>2. i - 1 \in 0 .. n
    BY <1>1
  <2>3. \A x \in 0 .. n : SumTo(len, x) \in Nat
    BY <1>1, <1>10, RunningSum
  <2>4. QED
    BY <2>1, <2>2, <2>3
<1>12. FlattenSeq(seqs)[SumTo(len, i - 1) + j] = seqs[i][j]
  <2> HIDE DEF n, j
  <2>1. j \in 1 .. Len(seqs[i])
    BY <1>4, <1>6, <1>7
  <2> HIDE DEF seqs
  <2>2. LaidAt(seqs, n, i, j)
    BY <1>1, <1>7, <2>1, FlattenAt
  <2>3. QED
    BY <2>2 DEF LaidAt
<1>13. (ALen(i) \div 4) = r
  BY <1>5 DEF RankSize
<1>14. Cell(i, slot, k) = ALoc[AStart(i) + r * qkvo[slot] + k + 1]
  BY <1>13 DEF Cell
<1>15. AStart(i) + r * qkvo[slot] + k + 1 = SumTo(len, i - 1) + j
  <2>1. r * qkvo[slot] \in Int
    <3>1. qkvo[slot] \in Int
      BY DEF qkvo, Slots
    <3> HIDE DEF r
    <3>2. QED
      BY <1>4, <3>1
  <2> DEFINE y == r * qkvo[slot]
  <2>2. y \in Int /\ k \in Int
    BY <1>4, <2>1
  <2> HIDE DEF y, len
  <2>3. AStart(i) + y + k + 1 = SumTo(len, i - 1) + (y + k + 1)
    BY <1>11, <2>2
  <2>4. QED
    BY <2>3 DEF y
<1> HIDE DEF len, seqs, r
<1>16. Cell(i, slot, k) = loc[a][j]
  BY <1>7, <1>8, <1>12, <1>14, <1>15
<1>17. QED
  BY <1>5, <1>6, <1>16 DEF r

LEMMA DivModOf ==
  ASSUME NEW d \in Nat \ {0}, NEW x \in Nat
  PROVE  /\ x \div d \in Nat /\ x % d \in Nat /\ x % d < d
         /\ (x \div d) * d + (x % d) = x
BY SMTT(30)

LEMMA Divides ==
  ASSUME NEW d \in Nat \ {0}, NEW q \in Nat, NEW s \in 0 .. d - 1
  PROVE  \A x \in Nat : x = q * d + s => x \div d = q /\ x % d = s
<1>0. \A x \in Nat : /\ x \div d \in Nat /\ x % d \in Nat /\ x % d < d
                     /\ (x \div d) * d + (x % d) = x
  BY DivModOf
<1>1. SUFFICES ASSUME NEW x \in Nat, x = q * d + s PROVE x \div d = q /\ x % d = s
  OBVIOUS
<1>2. /\ x \div d \in Nat /\ x % d \in Nat /\ x % d < d
      /\ (x \div d) * d + (x % d) = x
  BY <1>0, <1>1
<1> DEFINE y == x \div d
           z == x % d
<1>3. y \in Nat /\ z \in Nat /\ z < d /\ y * d + z = q * d + s
  BY <1>1, <1>2
<1> HIDE DEF y, z
<1>4. ASSUME NEW u \in Nat, NEW v \in Nat, u < v PROVE u * d + d <= v * d
  <2>1. u + 1 <= v /\ u + 1 \in Nat
    BY <1>4
  <2>2. d * (u + 1) <= d * v
    BY <2>1, ProductGrows
  <2>3. d * (u + 1) = u * d + d /\ d * v = v * d /\ u * d \in Nat /\ v * d \in Nat
    BY ProductNat
  <2>4. QED
    BY <2>2, <2>3
<1>5. y * d \in Nat /\ q * d \in Nat
  BY <1>3, ProductNat
<1>6. y = q
  <2>1. ~(y < q)
    BY <1>3, <1>4, <1>5
  <2>2. ~(q < y)
    BY <1>3, <1>4, <1>5
  <2>3. QED
    BY <1>3, <2>1, <2>2
<1>7. z = s
  BY <1>3, <1>5, <1>6
<1>8. QED
  BY <1>6, <1>7 DEF y, z

(* The cell of a matrix row holds what load_lora_A and load_lora_B put     *)
(* there.                                                                  *)
CellHolds(i, slot, k) ==
  LET a == lora.adapter_dirs[i]
      r == rank[a]
  IN  /\ RankSize(i) = r
      /\ KeyBuffer(Cell(i, slot, k)) = WeightA(a, slot, k)
      /\ \A offset \in 0 .. EMBED - 1 :
           ValueBuffer(Cell(i, slot, k), offset) =
             WeightB(a, slot, (k * EMBED + offset) \div r, (k * EMBED + offset) % r)

LEMMA WeightsIn ==
  ASSUME RanksFit, lora.adapter_dirs \in Seq(DOMAIN rank), NEW i \in DOMAIN lora.adapter_dirs,
         NEW slot \in Slots, NEW k \in 0 .. rank[lora.adapter_dirs[i]] - 1
  PROVE  CellHolds(i, slot, k)
<1> DEFINE a == lora.adapter_dirs[i]
           r == rank[a]
           x == r * qkvo[slot] + k
           cell == Cell(i, slot, k)
<1>1. RankSize(i) = r /\ x + 1 \in 1 .. 4 * r /\ cell = loc[a][x + 1]
  BY CellIs
<1>2. a \in DOMAIN rank /\ r \in Nat \ {0} /\ Len(loc[a]) = 4 * r /\ loc[a] \in Seq(Nat) /\ DOMAIN loc = DOMAIN rank
  BY RankAssumption, LocAssumption DEF RankAssumption, LocAssumption
<1>3. EMBED \in Nat \ {0} /\ EMBED % r = 0
  BY <1>2, RankAssumption DEF RankAssumption, RanksFit
<1>4. r <= EMBED
  <2> DEFINE y == EMBED \div r
  <2>1. y \in Nat /\ y * r + (EMBED % r) = EMBED
    BY <1>2, <1>3, DivModOf
  <2> HIDE DEF y, r
  <2>2. y * r = EMBED /\ y # 0
    BY <1>2, <1>3, <2>1, ProductNat
  <2>3. 1 <= y /\ 1 \in Nat
    BY <2>1, <2>2
  <2>4. r * 1 <= r * y
    BY <1>2, <2>1, <2>3, ProductGrows
  <2>5. r * 1 = r /\ r * y = y * r
    BY <1>2, <2>1
  <2>6. QED
    BY <2>2, <2>4, <2>5
<1> HIDE DEF cell
<1>5. Owners(cell) = {<<a, x + 1>>}
  <2>1. x + 1 \in DOMAIN loc[a] /\ x + 1 \in 1 .. EMBED * 4
    <3> HIDE DEF x
    <3>1. QED
      BY <1>1, <1>2, <1>3, <1>4, SMTT(20)
  <2> HIDE DEF x, a
  <2>2. <<a, x + 1>> \in Owners(cell)
    BY <1>1, <1>2, <2>1 DEF Owners
  <2>3. ASSUME NEW y \in Owners(cell) PROVE y = <<a, x + 1>>
    <3>1. y[1] \in DOMAIN rank /\ y = <<y[1], y[2]>> /\ y[2] \in DOMAIN loc[y[1]] /\ loc[y[1]][y[2]] = loc[a][x + 1]
      BY <1>1, <1>2 DEF Owners
    <3>2. y[1] = a /\ y[2] = x + 1
      BY <1>2, <2>1, <3>1, LocAssumption, SMTT(20) DEF LocAssumption
    <3>3. QED
      BY <3>1, <3>2
  <2>4. QED
    BY <2>2, <2>3
<1>6. (CHOOSE y \in Owners(cell) : TRUE) = <<a, x + 1>> /\ Owners(cell) # {}
  <2> DEFINE O == Owners(cell)
             z == <<a, x + 1>>
             y == CHOOSE y \in O : TRUE
  <2>1. O = {z}
    BY <1>5
  <2> HIDE DEF O, z
  <2>2. y \in O /\ O # {}
    BY <2>1, Zenon
  <2> HIDE DEF y
  <2>3. y = z
    BY <2>1, <2>2
  <2>4. QED
    BY <2>2, <2>3 DEF O, y, z
<1>7. qkvo[slot] \in Nat /\ \A s \in Slots : qkvo[s] = qkvo[slot] => s = slot
  <2>1. qkvo["q"] = 0 /\ qkvo["k"] = 1 /\ qkvo["v"] = 2 /\ qkvo["o"] = 3
    BY DEF qkvo
  <2>2. \A s \in Slots : s = "q" \/ s = "k" \/ s = "v" \/ s = "o"
    BY DEF Slots
  <2>3. QED
    BY <2>1, <2>2
<1>8. x \in Nat /\ x = qkvo[slot] * r + k
  <2> DEFINE y == qkvo[slot]
  <2>1. y \in Nat /\ r \in Nat /\ k \in Nat
    BY <1>2, <1>7
  <2>2. x = r * y + k
    OBVIOUS
  <2> HIDE DEF x, y, r
  <2>3. r * y \in Nat /\ r * y = y * r
    BY <2>1, ProductNat
  <2> HIDE <2>2
  <2>4. x \in Nat /\ x = y * r + k
    BY <2>1, <2>2, <2>3
  <2>5. QED
    BY <2>4 DEF y
<1>9. x \div r = qkvo[slot] /\ x % r = k
  <2> HIDE DEF x, r
  <2>1. k \in 0 .. r - 1
    BY DEF r, a
  <2> DEFINE y == qkvo[slot]
  <2>2. y \in Nat /\ x = y * r + k
    BY <1>7, <1>8
  <2> HIDE DEF y
  <2>3. \A u \in Nat : u = y * r + k => u \div r = y /\ u % r = k
    BY <1>2, <2>1, <2>2, Divides
  <2>4. QED
    BY <1>8, <2>2, <2>3 DEF y
<1> HIDE DEF x, r
<1>10. SlotOf(a, x) = slot
  <2>1. SlotOf(a, x) = CHOOSE s \in Slots : qkvo[s] = x \div r
    BY DEF SlotOf, r
  <2>2. \A s \in Slots : qkvo[s] = x \div r <=> s = slot
    BY <1>7, <1>9
  <2> DEFINE s == SlotOf(a, x)
  <2>3. s \in Slots /\ qkvo[s] = x \div r
    BY <2>1, <2>2, Zenon
  <2> HIDE DEF s
  <2>4. s = slot
    BY <2>2, <2>3
  <2>5. QED
    BY <2>4 DEF s
<1> HIDE DEF a
<1>11. KeyBuffer(cell) = WeightA(a, slot, k)
  <2> DEFINE y == CHOOSE y \in Owners(cell) : TRUE
             c == y[1]
             z == y[2] - 1
  <2>1. KeyBuffer(cell) = CombinedA(c, z)
    BY <1>6, Zenon DEF KeyBuffer
  <2>2. CombinedA(a, x) = WeightA(a, slot, k)
    BY <1>9, <1>10 DEF CombinedA, r
  <2>3. y = <<a, x + 1>>
    BY <1>6
  <2> HIDE DEF y
  <2>4. c = a /\ z = x
    BY <1>8, <2>3
  <2> HIDE DEF c, z
  <2>5. QED
    BY <2>1, <2>2, <2>4
<1>12. ASSUME NEW offset \in 0 .. EMBED - 1
       PROVE  ValueBuffer(cell, offset) =
                WeightB(a, slot, (k * EMBED + offset) \div r, (k * EMBED + offset) % r)
  <2>1. ~(offset >= EMBED)
    BY <1>3
  <2> DEFINE y == CHOOSE y \in Owners(cell) : TRUE
             c == y[1]
             z == y[2] - 1
  <2>2. ValueBuffer(cell, offset) = CombinedB(c, z, offset)
    BY <1>6, <2>1, Zenon DEF ValueBuffer
  <2>3. CombinedB(a, x, offset) =
          WeightB(a, slot, (k * EMBED + offset) \div r, (k * EMBED + offset) % r)
    BY <1>9, <1>10 DEF CombinedB, r
  <2>4. y = <<a, x + 1>>
    BY <1>6
  <2> HIDE DEF y
  <2>5. c = a /\ z = x
    BY <1>8, <2>4
  <2> HIDE DEF c, z
  <2>6. QED
    BY <2>2, <2>3, <2>5
<1>13. QED
  BY <1>1, <1>11, <1>12 DEF CellHolds, a, r, cell

(* Entry e of row n of a matrix B, at an offset of a cell of it.           *)
PlaceIs(k, offset, n, e, r) ==
  /\ k \in 0 .. r - 1 /\ offset \in 0 .. EMBED - 1
  /\ (k * EMBED + offset) \div r = n /\ (k * EMBED + offset) % r = e

LEMMA FlatIs ==
  ASSUME NEW r \in Nat \ {0}, NEW n \in 0 .. EMBED - 1, NEW e \in 0 .. r - 1,
         NEW k \in Nat, NEW offset \in 0 .. EMBED - 1
  PROVE  k * EMBED + offset = n * r + e => PlaceIs(k, offset, n, e, r)
<1> SUFFICES ASSUME k * EMBED + offset = n * r + e
             PROVE  PlaceIs(k, offset, n, e, r)
  OBVIOUS
<1>1. EMBED \in Nat \ {0}
  BY RankAssumption DEF RankAssumption
<1> DEFINE x == n * r + e
<1>2. n * r \in Nat /\ n \in Nat /\ x \in Nat /\ k * EMBED \in Nat
  BY <1>1, ProductNat
<1>3. \A y \in Nat : y = n * r + e => y \div r = n /\ y % r = e
  BY <1>2, Divides
<1>4. k < r
  <2>1. SUFFICES ASSUME r <= k PROVE FALSE
    OBVIOUS
  <2>2. EMBED * r <= EMBED * k
    BY <1>1, <2>1, ProductGrows
  <2>3. EMBED * k = k * EMBED /\ EMBED * r = r * EMBED
    BY <1>1
  <2>4. n + 1 <= EMBED /\ n + 1 \in Nat
    BY <1>1, <1>2
  <2>5. r * (n + 1) <= r * EMBED
    BY <1>1, <2>4, ProductGrows
  <2>6. r * (n + 1) = n * r + r
    BY <1>2
  <2>7. r * EMBED \in Nat
    BY <1>1, ProductNat
  <2>8. QED
    BY <1>1, <1>2, <2>2, <2>3, <2>5, <2>6, <2>7
<1>5. x \div r = n /\ x % r = e /\ k * EMBED + offset = x
  BY <1>2, <1>3
<1>6. k \in 0 .. r - 1
  BY <1>4
<1> HIDE DEF x
<1>7. QED
  BY <1>5, <1>6 DEF PlaceIs

(* bgmv loads VEC entries at once: they do not leave the cell of the first.*)
LEMMA VectorPlace ==
  ASSUME NEW r \in Nat \ {0}, NEW n \in 0 .. EMBED - 1, NEW e \in 0 .. r - 1, r % VEC = 0
  PROVE  LET flat == n * r + (e \div VEC) * VEC
         IN  PlaceIs(flat \div EMBED, (flat % EMBED) + (e % VEC), n, e, r)
<1>1. EMBED \in Nat \ {0} /\ VEC \in Nat \ {0} /\ EMBED % VEC = 0 /\ n \in Nat /\ e \in Nat
  BY RankAssumption DEF RankAssumption
<1> DEFINE flat == n * r + (e \div VEC) * VEC
           r1 == r \div VEC
           E1 == EMBED \div VEC
           e1 == e \div VEC
           y == n * r1 + e1
           k == flat \div EMBED
           o == (flat % EMBED) + (e % VEC)
<1>2. r1 \in Nat /\ r1 * VEC + (r % VEC) = r
  BY <1>1, DivModOf
<1>3. E1 \in Nat /\ E1 * VEC + (EMBED % VEC) = EMBED
  BY <1>1, DivModOf
<1>4. e1 \in Nat /\ e1 * VEC + (e % VEC) = e /\ e % VEC \in Nat /\ e % VEC < VEC
  BY <1>1, DivModOf
<1> HIDE DEF r1, E1, e1
<1>5. r = r1 * VEC /\ EMBED = E1 * VEC
  <2>1. r1 * VEC \in Nat /\ E1 * VEC \in Nat
    BY <1>1, <1>2, <1>3, ProductNat
  <2>2. QED
    BY <1>1, <1>2, <1>3, <2>1
<1>6. E1 # 0
  BY <1>1, <1>5
<1>7. y \in Nat /\ n * r1 \in Nat
  BY <1>1, <1>2, <1>4, ProductNat
<1>8. flat = y * VEC
  <2>1. flat = n * (r1 * VEC) + e1 * VEC
    BY <1>5 DEF e1
  <2>2. n * (r1 * VEC) = (n * r1) * VEC
    BY <1>1, <1>2
  <2>3. (n * r1 + e1) * VEC = (n * r1) * VEC + e1 * VEC
    BY <1>1, <1>4, <1>7
  <2>4. QED
    BY <2>1, <2>2, <2>3
<1> HIDE DEF y, flat
<1> DEFINE u == y \div E1
           w == y % E1
<1>9. u \in Nat /\ w \in Nat /\ w < E1 /\ u * E1 + w = y
  BY <1>3, <1>6, <1>7, DivModOf
<1> HIDE DEF u, w
<1>10. flat = u * EMBED + w * VEC
  <2>1. (u * E1 + w) * VEC = u * (E1 * VEC) + w * VEC
    BY <1>1, <1>3, <1>9
  <2>2. QED
    BY <1>5, <1>8, <1>9, <2>1
<1>11. w * VEC \in Nat /\ w * VEC + VEC <= EMBED
  <2>1. w + 1 <= E1 /\ w + 1 \in Nat
    BY <1>3, <1>9
  <2>2. VEC * (w + 1) <= VEC * E1
    BY <1>1, <1>3, <2>1, ProductGrows
  <2>3. VEC * (w + 1) = w * VEC + VEC /\ VEC * E1 = E1 * VEC /\ w * VEC \in Nat
    BY <1>1, <1>3, <1>9, ProductNat
  <2>4. QED
    BY <1>5, <2>2, <2>3
<1>12. flat \in Nat
  <2>1. u * EMBED \in Nat
    BY <1>1, <1>9, ProductNat
  <2>2. QED
    BY <1>10, <1>11, <2>1
<1>13. k = u /\ flat % EMBED = w * VEC
  <2> DEFINE s == w * VEC
  <2>1. s \in 0 .. EMBED - 1 /\ flat = u * EMBED + s
    BY <1>1, <1>10, <1>11
  <2> HIDE DEF s
  <2>2. \A x \in Nat : x = u * EMBED + s => x \div EMBED = u /\ x % EMBED = s
    BY <1>1, <1>9, <2>1, Divides
  <2>3. QED
    BY <1>12, <2>1, <2>2 DEF s
<1>14. o \in 0 .. EMBED - 1 /\ o = w * VEC + (e % VEC)
  BY <1>1, <1>4, <1>11, <1>13
<1>15. k * EMBED + o = n * r + e
  <2>1. n * r \in Nat /\ e1 * VEC \in Nat /\ u * EMBED \in Nat
    BY <1>1, <1>4, <1>9, ProductNat
  <2>2. flat = n * r + e1 * VEC
    BY DEF flat, e1
  <2>3. k * EMBED + o = u * EMBED + (w * VEC + (e % VEC))
    BY <1>13, <1>14
  <2> DEFINE U == u * EMBED
             W == w * VEC
             X == n * r
             Y == e1 * VEC
             Z == e % VEC
  <2>4. /\ X \in Nat /\ Y \in Nat /\ U \in Nat /\ W \in Nat /\ Z \in Nat /\ e = Y + Z
        /\ flat = X + Y /\ flat = U + W /\ k * EMBED + o = U + (W + Z)
    BY <1>4, <1>10, <1>11, <2>1, <2>2, <2>3
  <2> HIDE DEF k, o, U, W, X, Y, Z
  <2>5. k * EMBED + o = X + e
    BY ONLY <2>4
  <2>6. QED
    BY <2>5 DEF X
<1>16. k \in Nat
  BY <1>9, <1>13
<1> HIDE DEF k, o
<1>17. PlaceIs(k, o, n, e, r)
  BY <1>14, <1>15, <1>16, FlatIs
<1>18. QED
  BY <1>17 DEF k, o, flat

(* lora_prefill takes the cell of the row's first entry: rows do not end   *)
(* in another cell.                                                        *)
LEMMA RowPlace ==
  ASSUME NEW r \in Nat \ {0}, NEW n \in 0 .. EMBED - 1, NEW e \in 0 .. r - 1, EMBED % r = 0
  PROVE  PlaceIs((n * r) \div EMBED, (n * r + e) % EMBED, n, e, r)
<1>1. EMBED \in Nat \ {0} /\ n \in Nat /\ e \in Nat
  BY RankAssumption DEF RankAssumption
<1> DEFINE m == EMBED \div r
           u == n \div m
           w == n % m
           k == (n * r) \div EMBED
           o == (n * r + e) % EMBED
<1>2. m \in Nat /\ m * r + (EMBED % r) = EMBED
  BY <1>1, DivModOf
<1> HIDE DEF m
<1>3. EMBED = m * r /\ m # 0
  <2>1. m * r \in Nat
    BY <1>2, ProductNat
  <2>2. QED
    BY <1>1, <1>2, <2>1
<1>4. u \in Nat /\ w \in Nat /\ w < m /\ u * m + w = n
  BY <1>1, <1>2, <1>3, DivModOf
<1> HIDE DEF u, w
<1>5. n * r = u * EMBED + w * r
  <2>1. (u * m + w) * r = u * (m * r) + w * r
    BY <1>2, <1>4
  <2>2. QED
    BY <1>3, <1>4, <2>1
<1>6. w * r \in Nat /\ w * r + r <= EMBED /\ u * EMBED \in Nat
  <2>1. w + 1 <= m /\ w + 1 \in Nat
    BY <1>2, <1>4
  <2>2. r * (w + 1) <= r * m
    BY <1>2, <2>1, ProductGrows
  <2>3. r * (w + 1) = w * r + r /\ r * m = m * r /\ w * r \in Nat /\ u * EMBED \in Nat
    BY <1>1, <1>2, <1>4, ProductNat
  <2>4. QED
    BY <1>3, <2>2, <2>3
<1> DEFINE s == w * r
           x == n * r
           t == s + e
           z == n * r + e
<1>7. /\ s \in 0 .. EMBED - 1 /\ t \in 0 .. EMBED - 1 /\ x \in Nat /\ z \in Nat
      /\ x = u * EMBED + s /\ z = u * EMBED + t
  <2> DEFINE v == u * EMBED
  <2>1. x = v + s /\ z = x + e /\ t = s + e
    BY <1>5
  <2>2. s \in Nat /\ s + r <= EMBED /\ v \in Nat /\ e < r
    BY <1>6
  <2> HIDE DEF s, t, x, z, v
  <2>3. x \in Nat /\ z = v + t
    BY <1>1, <2>1, <2>2
  <2>4. s \in 0 .. EMBED - 1 /\ t \in 0 .. EMBED - 1 /\ z \in Nat
    BY <1>1, <2>1, <2>2
  <2>5. QED
    BY <2>1, <2>3, <2>4 DEF v
<1> HIDE DEF s, t, x, z
<1>8. EMBED \in Nat \ {0} /\ u \in Nat /\ s \in 0 .. EMBED - 1 /\ t \in 0 .. EMBED - 1
  BY <1>1, <1>4, <1>7
<1>9. /\ \A y \in Nat : y = u * EMBED + s => y \div EMBED = u /\ y % EMBED = s
      /\ \A y \in Nat : y = u * EMBED + t => y \div EMBED = u /\ y % EMBED = t
  BY ONLY <1>8, Divides
<1>10. x \div EMBED = u /\ z % EMBED = t
  BY <1>7, <1>9
<1>11. k = u /\ o = t
  BY <1>10 DEF x, z
<1> HIDE DEF k, o
<1>12. k * EMBED + o = n * r + e /\ o \in 0 .. EMBED - 1 /\ k \in Nat
  BY <1>4, <1>7, <1>11 DEF z
<1>13. PlaceIs(k, o, n, e, r)
  BY <1>12, FlatIs
<1>14. QED
  BY <1>13 DEF k, o

(* The launches of a layer and their turns: every slot in turn, and for    *)
(* each the base model's product, the adapter's two and the rotation.      *)
ShrinkOf(e) == IF e = "bgmv" THEN "bgmv_shrink" ELSE "shrink_fwd"
ExpandOf(e) == IF e = "bmm" THEN "bmm" ELSE IF e = "bgmv" THEN "bgmv_expand" ELSE "expand_fwd"
Stage(kernel) ==
  CASE kernel = "mm" -> 1
    [] kernel \in {"bgmv_shrink", "shrink_fwd"} -> 2
    [] kernel \in {"bgmv_expand", "expand_fwd", "bmm"} -> 3
    [] kernel = "rotary" -> 4
Turn(l) == 4 * qkvo[l[2]] + Stage(l[1])
AllOf(e) ==
  {<<"mm", slot>> : slot \in Slots} \cup {<<ExpandOf(e), slot>> : slot \in Slots}
    \cup (IF e = "bmm" THEN {} ELSE {<<ShrinkOf(e), slot>> : slot \in Slots})
    \cup {<<"rotary", "q">>, <<"rotary", "k">>}

InList(s, l) == \E i \in DOMAIN s : s[i] = l
Rising(s) == \A i, j \in DOMAIN s : i < j => Turn(s[i]) < Turn(s[j])

(* What is left of a layer: everything whose turn has not gone by.         *)
Ordered(s, e) ==
  /\ s \in Seq(AllOf(e)) /\ Len(s) > 0 /\ Rising(s)
  /\ \A l \in AllOf(e) : Turn(l) >= Turn(Head(s)) => InList(s, l)

LEMMA SlotNumbers ==
  /\ qkvo["q"] = 0 /\ qkvo["k"] = 1 /\ qkvo["v"] = 2 /\ qkvo["o"] = 3
  /\ \A slot \in Slots : slot = "q" \/ slot = "k" \/ slot = "v" \/ slot = "o"
  /\ {"q", "k", "v", "o"} \subseteq Slots
BY DEF qkvo, Slots

LEMMA Stages ==
  ASSUME NEW e \in {"bgmv", "triton", "bmm"}
  PROVE  /\ Stage("mm") = 1 /\ Stage(ShrinkOf(e)) = 2 /\ Stage(ExpandOf(e)) = 3
         /\ Stage("rotary") = 4
         /\ ExpandOf(e) \notin {"mm", "rotary", ShrinkOf(e)} /\ ShrinkOf(e) \notin {"mm", "rotary"}
BY DEF Stage, ShrinkOf, ExpandOf

LEMMA TurnsOf ==
  ASSUME NEW e \in {"bgmv", "triton", "bmm"}, NEW l \in AllOf(e)
  PROVE  /\ l = <<l[1], l[2]>> /\ l[2] \in Slots
         /\ l[1] \in {"mm", ExpandOf(e), "rotary"} \/ (e # "bmm" /\ l[1] = ShrinkOf(e))
         /\ l[1] = "rotary" => l[2] \in {"q", "k"}
         /\ Turn(l) = 4 * qkvo[l[2]] + Stage(l[1])
         /\ qkvo[l[2]] \in 0 .. 3 /\ Stage(l[1]) \in 1 .. 4 /\ Turn(l) \in Nat
<1>1. /\ l = <<l[1], l[2]>> /\ l[2] \in Slots
      /\ l[1] \in {"mm", ExpandOf(e), "rotary"} \/ (e # "bmm" /\ l[1] = ShrinkOf(e))
      /\ l[1] = "rotary" => l[2] \in {"q", "k"}
  <2>1. CASE l \in {<<"mm", slot>> : slot \in Slots}
    BY <2>1
  <2>2. CASE l \in {<<ExpandOf(e), slot>> : slot \in Slots}
    BY <2>2, Stages
  <2>3. CASE e # "bmm" /\ l \in {<<ShrinkOf(e), slot>> : slot \in Slots}
    BY <2>3, Stages
  <2>4. CASE l \in {<<"rotary", "q">>, <<"rotary", "k">>}
    BY <2>4, SlotNumbers
  <2>5. QED
    BY <2>1, <2>2, <2>3, <2>4 DEF AllOf
<1>2. Turn(l) = 4 * qkvo[l[2]] + Stage(l[1])
  BY DEF Turn
<1>3. qkvo[l[2]] \in 0 .. 3
  BY <1>1, SlotNumbers
<1>4. Stage(l[1]) \in 1 .. 4
  BY <1>1, Stages
<1>5. QED
  BY <1>1, <1>2, <1>3, <1>4

LEMMA TurnsDiffer ==
  ASSUME NEW e \in {"bgmv", "triton", "bmm"}, NEW l \in AllOf(e), NEW m \in AllOf(e)
  PROVE  Turn(l) = Turn(m) => l = m
<1> SUFFICES ASSUME Turn(l) = Turn(m) PROVE l = m
  OBVIOUS
<1>1. /\ l = <<l[1], l[2]>> /\ l[2] \in Slots
      /\ l[1] \in {"mm", ExpandOf(e), "rotary"} \/ (e # "bmm" /\ l[1] = ShrinkOf(e))
      /\ Turn(l) = 4 * qkvo[l[2]] + Stage(l[1])
      /\ qkvo[l[2]] \in 0 .. 3 /\ Stage(l[1]) \in 1 .. 4
  BY TurnsOf
<1>2. /\ m = <<m[1], m[2]>> /\ m[2] \in Slots
      /\ m[1] \in {"mm", ExpandOf(e), "rotary"} \/ (e # "bmm" /\ m[1] = ShrinkOf(e))
      /\ Turn(m) = 4 * qkvo[m[2]] + Stage(m[1])
      /\ qkvo[m[2]] \in 0 .. 3 /\ Stage(m[1]) \in 1 .. 4
  BY TurnsOf
<1> DEFINE lq == qkvo[l[2]]
           mq == qkvo[m[2]]
           ls == Stage(l[1])
           ms == Stage(m[1])
<1>3. lq = mq /\ ls = ms
  <2>1. /\ lq \in 0 .. 3 /\ ls \in 1 .. 4 /\ mq \in 0 .. 3 /\ ms \in 1 .. 4
        /\ 4 * lq + ls = 4 * mq + ms
    BY <1>1, <1>2
  <2> HIDE DEF lq, mq, ls, ms
  <2>2. QED
    BY ONLY <2>1, SMT
<1>4. l[2] = m[2]
  BY <1>1, <1>2, <1>3, SlotNumbers
<1>5. l[1] = m[1]
  BY <1>1, <1>2, <1>3, Stages
<1>6. QED
  BY <1>1, <1>2, <1>4, <1>5

LEMMA NextTurn ==
  ASSUME NEW e \in {"bgmv", "triton", "bmm"}, NEW s, Ordered(s, e), Len(s) > 1
  PROVE  /\ Ordered(Tail(s), e)
         /\ Head(s) \in AllOf(e) /\ Head(Tail(s)) = s[2] /\ s[2] \in AllOf(e)
         /\ Turn(Head(s)) < Turn(s[2])
         /\ \A l \in AllOf(e) : Turn(l) < Turn(s[2]) => Turn(l) <= Turn(Head(s))
<1> DEFINE S == AllOf(e)
           t == Tail(s)
<1>1. s \in Seq(S) /\ Len(s) > 1 /\ Rising(s)
  BY DEF Ordered
<1>2. \A l \in S : Turn(l) \in Nat
  BY TurnsOf
<1>3. \A l \in S : Turn(l) >= Turn(Head(s)) => InList(s, l)
  BY DEF Ordered
<1> HIDE DEF S
<1>4. /\ t \in Seq(S) /\ Len(t) = Len(s) - 1 /\ Len(t) > 0 /\ Head(s) = s[1]
      /\ DOMAIN t = 1 .. Len(t) /\ DOMAIN s = 1 .. Len(s) /\ Len(s) \in Nat
      /\ \A i \in DOMAIN t : t[i] = s[i + 1]
      /\ Head(t) = s[2]
  BY <1>1
<1>5. 1 \in DOMAIN s /\ 2 \in DOMAIN s /\ s[1] \in S /\ s[2] \in S
  BY <1>1, <1>4
<1>6. Turn(s[1]) < Turn(s[2])
  BY <1>1, <1>5 DEF Rising
<1>7. Rising(t)
  <2>1. ASSUME NEW i \in DOMAIN t, NEW j \in DOMAIN t, i < j PROVE Turn(t[i]) < Turn(t[j])
    <3>1. i + 1 \in DOMAIN s /\ j + 1 \in DOMAIN s /\ i + 1 < j + 1
      BY <1>4, <2>1
    <3>2. QED
      BY <1>1, <1>4, <3>1 DEF Rising
  <2>2. QED
    BY <2>1 DEF Rising
<1>8. ASSUME NEW l \in S, Turn(l) > Turn(s[1]) PROVE InList(t, l) /\ Turn(l) >= Turn(s[2])
  <2>1. PICK i \in DOMAIN s : s[i] = l
    BY <1>2, <1>3, <1>4, <1>5, <1>8 DEF InList
  <2>2. i # 1
    BY <1>2, <1>5, <1>8, <2>1
  <2>3. i - 1 \in DOMAIN t /\ t[i - 1] = l
    <3>1. i - 1 \in DOMAIN t /\ (i - 1) + 1 = i
      BY <1>4, <2>1, <2>2
    <3>2. QED
      BY <1>4, <2>1, <3>1
  <2>4. i = 2 \/ 2 < i
    BY <1>4, <2>1, <2>2
  <2>5. Turn(l) >= Turn(s[2])
    <3>1. 2 < i => Turn(s[2]) < Turn(s[i])
      BY <1>1, <1>5 DEF Rising
    <3>2. Turn(l) \in Nat /\ Turn(s[2]) \in Nat
      BY <1>2, <1>5
    <3>3. QED
      BY <2>1, <2>4, <3>1, <3>2
  <2>6. QED
    BY <2>3, <2>5 DEF InList
<1>9. ASSUME NEW l \in S, Turn(l) >= Turn(s[2]) PROVE InList(t, l)
  <2>1. Turn(l) > Turn(s[1])
    BY <1>2, <1>5, <1>6, <1>9
  <2>2. QED
    BY <1>8, <2>1
<1>10. Ordered(t, e)
  <2>1. \A l \in S : Turn(l) >= Turn(Head(t)) => InList(t, l)
    BY <1>4, <1>9
  <2>2. QED
    BY <1>4, <1>7, <2>1 DEF Ordered, S
<1>11. ASSUME NEW l \in S, Turn(l) < Turn(s[2]) PROVE Turn(l) <= Turn(s[1])
  BY <1>2, <1>5, <1>8, <1>11
<1>12. QED
  BY <1>4, <1>5, <1>6, <1>10, <1>11 DEF S

LEMMA LastTurn ==
  ASSUME NEW e \in {"bgmv", "triton", "bmm"}, NEW s, Ordered(s, e)
  PROVE  /\ Head(s) \in AllOf(e) /\ Head(s) = s[1]
         /\ Len(s) = 1 => \A l \in AllOf(e) : Turn(l) <= Turn(Head(s))
<1>1. s \in Seq(AllOf(e)) /\ Len(s) > 0 /\ Rising(s)
  BY DEF Ordered
<1>2. Head(s) = s[1] /\ s[1] \in AllOf(e) /\ DOMAIN s = 1 .. Len(s)
  BY <1>1
<1>3. ASSUME Len(s) = 1, NEW l \in AllOf(e) PROVE Turn(l) <= Turn(Head(s))
  <2>1. Turn(l) \in Nat /\ Turn(s[1]) \in Nat
    BY <1>2, TurnsOf
  <2>2. SUFFICES ASSUME Turn(l) > Turn(Head(s)) PROVE FALSE
    BY <1>2, <2>1
  <2>3. PICK i \in DOMAIN s : s[i] = l
    BY <1>2, <2>1, <2>2 DEF Ordered, InList
  <2>4. i = 1
    BY <1>2, <1>3
  <2>5. QED
    BY <1>2, <2>1, <2>2, <2>3, <2>4
<1>4. QED
  BY <1>2, <1>3

(* A stretch of launches in order, between two turns, with those of X.     *)
Stretch(s, S, X, lo, hi) ==
  /\ s \in Seq(S) /\ Len(s) > 0 /\ Rising(s)
  /\ \A i \in DOMAIN s : Turn(s[i]) \in lo .. hi
  /\ \A l \in X : InList(s, l)
StartsWith(s, l) == Head(s) = l

LEMMA JoinStretches ==
  ASSUME NEW S, NEW X, NEW Y, NEW s, NEW t,
         NEW lo \in Nat, NEW mid \in Nat, NEW from \in Nat, NEW hi \in Nat,
         Stretch(s, S, X, lo, mid), Stretch(t, S, Y, from, hi), lo <= from, mid < from, mid <= hi
  PROVE  /\ Stretch(s \o t, S, X \cup Y, lo, hi)
         /\ \A l : StartsWith(s, l) => StartsWith(s \o t, l)
<1>1. /\ s \in Seq(S) /\ Len(s) > 0 /\ Rising(s) /\ t \in Seq(S) /\ Len(t) > 0 /\ Rising(t)
      /\ \A i \in DOMAIN s : Turn(s[i]) \in lo .. mid
      /\ \A i \in DOMAIN t : Turn(t[i]) \in from .. hi
  BY DEF Stretch
<1> DEFINE u == s \o t
           m == Len(s)
           k == Len(t)
<1>2. /\ u \in Seq(S) /\ Len(u) = m + k /\ m \in Nat /\ k \in Nat
      /\ DOMAIN s = 1 .. m /\ DOMAIN t = 1 .. k /\ DOMAIN u = 1 .. m + k
      /\ \A i \in 1 .. m : u[i] = s[i]
      /\ \A i \in 1 .. k : u[m + i] = t[i]
      /\ Head(u) = u[1] /\ Head(s) = s[1]
  BY <1>1
<1> HIDE DEF u, m, k
<1>3. m > 0 /\ k > 0
  BY <1>1 DEF m, k
<1>4. ASSUME NEW i \in DOMAIN u
      PROVE  \/ i \in DOMAIN s /\ u[i] = s[i] /\ i <= m
             \/ i - m \in DOMAIN t /\ u[i] = t[i - m] /\ i > m
  <2>1. CASE i <= m
    BY <1>2, <2>1
  <2>2. CASE i > m
    <3>1. i - m \in 1 .. k /\ m + (i - m) = i
      BY <1>2, <2>2
    <3>2. QED
      BY <1>2, <2>2, <3>1
  <2>3. QED
    BY <1>2, <2>1, <2>2
<1>5. ASSUME NEW i \in DOMAIN u PROVE Turn(u[i]) \in lo .. hi
  <2>1. CASE i \in DOMAIN s /\ u[i] = s[i]
    BY <1>1, <2>1
  <2>2. CASE i - m \in DOMAIN t /\ u[i] = t[i - m]
    BY <1>1, <2>2
  <2>3. QED
    BY <1>4, <2>1, <2>2
<1>6. ASSUME NEW i \in DOMAIN u, NEW j \in DOMAIN u, i < j
      PROVE  Turn(u[i]) < Turn(u[j])
  <2>0. i \in Nat /\ j \in Nat
    BY <1>2
  <2>1. CASE i <= m /\ j <= m
    <3>1. i \in DOMAIN s /\ j \in DOMAIN s /\ u[i] = s[i] /\ u[j] = s[j]
      BY <1>2, <1>4, <2>0, <2>1
    <3>2. QED
      BY <1>1, <1>6, <3>1 DEF Rising
  <2>2. CASE i > m /\ j > m
    <3>1. i - m \in DOMAIN t /\ j - m \in DOMAIN t /\ u[i] = t[i - m] /\ u[j] = t[j - m]
      BY <1>2, <1>4, <2>0, <2>2
    <3>2. i - m < j - m
      BY <1>2, <1>6, <2>0
    <3>3. QED
      BY <1>1, <3>1, <3>2 DEF Rising
  <2>3. CASE i <= m /\ j > m
    <3>1. i \in DOMAIN s /\ j - m \in DOMAIN t /\ u[i] = s[i] /\ u[j] = t[j - m]
      BY <1>2, <1>4, <2>0, <2>3
    <3>2. Turn(s[i]) \in lo .. mid /\ Turn(t[j - m]) \in from .. hi
      BY <1>1, <3>1
    <3>3. QED
      BY <3>1, <3>2
  <2>4. QED
    BY <1>2, <1>6, <2>0, <2>1, <2>2, <2>3
<1>7. Rising(u)
  BY <1>6 DEF Rising
<1>8. ASSUME NEW l \in X \cup Y PROVE InList(u, l)
  <2>1. CASE l \in X
    <3>1. PICK i \in DOMAIN s : s[i] = l
      BY <2>1 DEF Stretch, InList
    <3>2. i \in DOMAIN u /\ u[i] = l
      BY <1>2, <3>1
    <3>3. QED
      BY <3>2 DEF InList
  <2>2. CASE l \in Y
    <3>1. PICK i \in DOMAIN t : t[i] = l
      BY <2>2 DEF Stretch, InList
    <3>2. m + i \in DOMAIN u /\ u[m + i] = l
      BY <1>2, <3>1
    <3>3. QED
      BY <3>2 DEF InList
  <2>3. QED
    BY <2>1, <2>2
<1>9. Stretch(u, S, X \cup Y, lo, hi)
  BY <1>2, <1>3, <1>5, <1>7, <1>8 DEF Stretch
<1>10. Head(u) = Head(s)
  BY <1>2, <1>3
<1>11. QED
  BY <1>9, <1>10 DEF u, StartsWith

LEMMA OneStretch ==
  ASSUME NEW S, NEW l \in S, Turn(l) \in Nat
  PROVE  Stretch(<<l>>, S, {l}, Turn(l), Turn(l)) /\ Head(<<l>>) = l
<1>1. <<l>> \in Seq(S) /\ Len(<<l>>) = 1 /\ DOMAIN <<l>> = {1} /\ <<l>>[1] = l /\ Head(<<l>>) = l
  OBVIOUS
<1>2. Rising(<<l>>)
  BY <1>1 DEF Rising
<1>3. \A i \in DOMAIN <<l>> : Turn(<<l>>[i]) \in Turn(l) .. Turn(l)
  BY <1>1
<1>4. InList(<<l>>, l)
  BY <1>1 DEF InList
<1>5. QED
  BY <1>1, <1>2, <1>3, <1>4 DEF Stretch

LEMMA WiderStretch ==
  ASSUME NEW S, NEW X, NEW Y, NEW s, NEW lo \in Nat, NEW hi \in Nat, NEW from \in Nat, NEW to \in Nat,
         Stretch(s, S, X, lo, hi), Y \subseteq X, from <= lo, hi <= to
  PROVE  Stretch(s, S, Y, from, to)
BY DEF Stretch

(* What is added to a slot, in its second and third turns.                 *)
LEMMA AdaptStretch ==
  ASSUME NEW e \in {"bgmv", "triton", "bmm"}, NEW slot \in Slots
  PROVE  Stretch(Adapt(e, slot), AllOf(e),
                 {<<ExpandOf(e), slot>>} \cup (IF e = "bmm" THEN {} ELSE {<<ShrinkOf(e), slot>>}),
                 4 * qkvo[slot] + 2, 4 * qkvo[slot] + 3)
<1> DEFINE x == <<ExpandOf(e), slot>>
           w == <<ShrinkOf(e), slot>>
           S == AllOf(e)
           q == qkvo[slot]
<1>1. x \in S /\ (e # "bmm" => w \in S)
  BY DEF AllOf
<1>2. q \in Nat
  BY SlotNumbers
<1>3. Turn(x) = 4 * q + 3 /\ Turn(w) = 4 * q + 2
  BY Stages DEF Turn
<1>4. Adapt(e, slot) = IF e = "bmm" THEN <<x>> ELSE <<w>> \o <<x>>
  <2>1. <<w>> \o <<x>> = <<w, x>>
    <3> DEFINE L == {w, x}
    <3>1. <<w>> \in Seq(L) /\ <<x>> \in Seq(L)
      OBVIOUS
    <3> HIDE DEF w, x, L
    <3>2. /\ <<w>> \o <<x>> \in Seq(L) /\ Len(<<w>> \o <<x>>) = 2
          /\ (<<w>> \o <<x>>)[1] = w /\ (<<w>> \o <<x>>)[2] = x
      BY <3>1
    <3>3. \A s \in Seq(L) : Len(s) = 2 => s = <<s[1], s[2]>>
      OBVIOUS
    <3>4. QED
      BY <3>2, <3>3
  <2>2. QED
    BY <2>1 DEF Adapt, ExpandOf, ShrinkOf
<1> HIDE DEF x, w, S, q
<1>5. Stretch(<<x>>, S, {x}, 4 * q + 3, 4 * q + 3)
  BY <1>1, <1>2, <1>3, OneStretch
<1>6. CASE e = "bmm"
  <2>1. Stretch(<<x>>, S, {x}, 4 * q + 2, 4 * q + 3)
    BY <1>2, <1>5, WiderStretch
  <2>2. QED
    BY <1>4, <1>6, <2>1 DEF x, w, S, q
<1>7. CASE e # "bmm"
  <2>1. Stretch(<<w>>, S, {w}, 4 * q + 2, 4 * q + 2)
    BY <1>1, <1>2, <1>3, <1>7, OneStretch
  <2>2. Stretch(<<w>> \o <<x>>, S, {w} \cup {x}, 4 * q + 2, 4 * q + 3)
    BY <1>2, <1>5, <2>1, JoinStretches
  <2>3. {w} \cup {x} = {x} \cup (IF e = "bmm" THEN {} ELSE {w})
    BY <1>7
  <2>4. QED
    BY <1>4, <1>7, <2>2, <2>3 DEF x, w, S, q
<1>8. QED
  BY <1>6, <1>7
(* A layer launches everything, in its turn.                               *)
LEMMA LayerOrdered ==
  ASSUME NEW e \in {"bgmv", "triton", "bmm"}
  PROVE  /\ Ordered(LoraGetQkv(e) \o LoraGetO(e), e)
         /\ Head(LoraGetQkv(e) \o LoraGetO(e)) = <<"mm", "q">>
         /\ Turn(<<"mm", "q">>) = 1
<1> DEFINE S == AllOf(e)
           M(slot) == <<"mm", slot>>
           R(slot) == <<"rotary", slot>>
           Ad(slot) == {<<ExpandOf(e), slot>>} \cup (IF e = "bmm" THEN {} ELSE {<<ShrinkOf(e), slot>>})
           y(slot) == Adapt(e, slot)
           s2 == <<M("q")>> \o y("q")
           s3 == s2 \o <<R("q")>>
           s4 == s3 \o <<M("k")>>
           s5 == s4 \o y("k")
           s6 == s5 \o <<R("k")>>
           s7 == s6 \o <<M("v")>>
           s8 == s7 \o y("v")
           t == <<M("o")>> \o y("o")
           s9 == s8 \o t
           X2 == {M("q")} \cup Ad("q")
           X3 == X2 \cup {R("q")}
           X4 == X3 \cup {M("k")}
           X5 == X4 \cup Ad("k")
           X6 == X5 \cup {R("k")}
           X7 == X6 \cup {M("v")}
           X8 == X7 \cup Ad("v")
           X9 == X8 \cup ({M("o")} \cup Ad("o"))
<1>1. LoraGetQkv(e) \o LoraGetO(e) = s9
  BY DEF LoraGetQkv, LoraGetO
<1>2. /\ M("q") \in S /\ M("k") \in S /\ M("v") \in S /\ M("o") \in S
      /\ R("q") \in S /\ R("k") \in S
  BY SlotNumbers DEF AllOf
<1>3. /\ Turn(M("q")) = 1 /\ Turn(M("k")) = 5 /\ Turn(M("v")) = 9 /\ Turn(M("o")) = 13
      /\ Turn(R("q")) = 4 /\ Turn(R("k")) = 8
  BY SlotNumbers, Stages DEF Turn
<1>4. /\ Stretch(y("q"), S, Ad("q"), 2, 3) /\ Stretch(y("k"), S, Ad("k"), 6, 7)
      /\ Stretch(y("v"), S, Ad("v"), 10, 11) /\ Stretch(y("o"), S, Ad("o"), 14, 15)
  <2> DEFINE q(slot) == qkvo[slot]
             Is(slot, lo, hi) == Stretch(y(slot), S, Ad(slot), lo, hi)
  <2>1. \A slot \in Slots : Is(slot, 4 * q(slot) + 2, 4 * q(slot) + 3)
    BY AdaptStretch
  <2>2. q("q") = 0 /\ q("k") = 1 /\ q("v") = 2 /\ q("o") = 3 /\ {"q", "k", "v", "o"} \subseteq Slots
    BY SlotNumbers
  <2> HIDE DEF Is, q
  <2>3. Is("q", 2, 3) /\ Is("k", 6, 7) /\ Is("v", 10, 11) /\ Is("o", 14, 15)
    BY <2>1, <2>2
  <2>4. QED
    BY <2>3 DEF Is
<1>5. S \subseteq X9
  <2>1. ASSUME NEW slot \in Slots PROVE M(slot) \in X9 /\ Ad(slot) \subseteq X9
    <3> HIDE DEF M, R, Ad
    <3>1. slot = "q" \/ slot = "k" \/ slot = "v" \/ slot = "o"
      BY SlotNumbers
    <3>2. QED
      BY <3>1
  <2>2. R("q") \in X9 /\ R("k") \in X9
    <3> HIDE DEF M, R, Ad
    <3>1. QED
      OBVIOUS
  <2>3. ASSUME NEW l \in S
        PROVE  (\E slot \in Slots : l = M(slot) \/ l \in Ad(slot)) \/ l \in {R("q"), R("k")}
    <3>1. CASE l \in {<<"mm", slot>> : slot \in Slots}
      BY <3>1
    <3>2. CASE l \in {<<ExpandOf(e), slot>> : slot \in Slots}
      BY <3>2
    <3>3. CASE e # "bmm" /\ l \in {<<ShrinkOf(e), slot>> : slot \in Slots}
      BY <3>3
    <3>4. CASE l \in {<<"rotary", "q">>, <<"rotary", "k">>}
      BY <3>4
    <3>5. QED
      BY <3>1, <3>2, <3>3, <3>4 DEF AllOf
  <2> HIDE DEF M, R, Ad, S, X9
  <2>4. QED
    BY <2>1, <2>2, <2>3
<1> HIDE DEF S, M, R, Ad, y
<1>6. /\ Stretch(<<M("q")>>, S, {M("q")}, 1, 1) /\ Head(<<M("q")>>) = M("q")
      /\ Stretch(<<M("k")>>, S, {M("k")}, 5, 5)
      /\ Stretch(<<M("v")>>, S, {M("v")}, 9, 9)
      /\ Stretch(<<M("o")>>, S, {M("o")}, 13, 13)
      /\ Stretch(<<R("q")>>, S, {R("q")}, 4, 4)
      /\ Stretch(<<R("k")>>, S, {R("k")}, 8, 8)
  <2>1. ASSUME NEW l \in S, NEW n \in Nat, Turn(l) = n
        PROVE  Stretch(<<l>>, S, {l}, n, n) /\ Head(<<l>>) = l
    BY <2>1, OneStretch
  <2>2. QED
    BY <1>2, <1>3, <2>1
<1> DEFINE Is(s, X, lo, hi) == Stretch(s, S, X, lo, hi) /\ StartsWith(s, M("q"))
<1>7. \A i \in {1, 2, 3, 4, 5, 6, 7, 8, 9, 10, 11, 13, 15} : i \in Nat
  OBVIOUS
<1>8. Is(<<M("q")>>, {M("q")}, 1, 1)
  BY <1>6 DEF StartsWith
<1> HIDE DEF Is
<1>9. Is(s2, X2, 1, 3)
  <2> DEFINE x == <<M("q")>>
             z == y("q")
             X == {M("q")}
             Z == Ad("q")
  <2>1. Stretch(x, S, X, 1, 1) /\ StartsWith(x, M("q")) /\ Stretch(z, S, Z, 2, 3)
    BY <1>8, <1>4 DEF Is
  <2> HIDE DEF x, z, X, Z
  <2>2. Stretch(x \o z, S, X \cup Z, 1, 3) /\ StartsWith(x \o z, M("q"))
    BY ONLY <1>7, <2>1, JoinStretches
  <2>3. QED
    BY <2>2 DEF Is, x, z, X, Z
<1> HIDE DEF s2, X2
<1>10. Is(s3, X3, 1, 4)
  <2> DEFINE x == s2
             z == <<R("q")>>
             X == X2
             Z == {R("q")}
  <2>1. Stretch(x, S, X, 1, 3) /\ StartsWith(x, M("q")) /\ Stretch(z, S, Z, 4, 4)
    BY <1>9, <1>6 DEF Is
  <2> HIDE DEF x, z, X, Z
  <2>2. Stretch(x \o z, S, X \cup Z, 1, 4) /\ StartsWith(x \o z, M("q"))
    BY ONLY <1>7, <2>1, JoinStretches
  <2>3. QED
    BY <2>2 DEF Is, x, z, X, Z
<1> HIDE DEF s3, X3
<1>11. Is(s4, X4, 1, 5)
  <2> DEFINE x == s3
             z == <<M("k")>>
             X == X3
             Z == {M("k")}
  <2>1. Stretch(x, S, X, 1, 4) /\ StartsWith(x, M("q")) /\ Stretch(z, S, Z, 5, 5)
    BY <1>10, <1>6 DEF Is
  <2> HIDE DEF x, z, X, Z
  <2>2. Stretch(x \o z, S, X \cup Z, 1, 5) /\ StartsWith(x \o z, M("q"))
    BY ONLY <1>7, <2>1, JoinStretches
  <2>3. QED
    BY <2>2 DEF Is, x, z, X, Z
<1> HIDE DEF s4, X4
<1>12. Is(s5, X5, 1, 7)
  <2> DEFINE x == s4
             z == y("k")
             X == X4
             Z == Ad("k")
  <2>1. Stretch(x, S, X, 1, 5) /\ StartsWith(x, M("q")) /\ Stretch(z, S, Z, 6, 7)
    BY <1>11, <1>4 DEF Is
  <2> HIDE DEF x, z, X, Z
  <2>2. Stretch(x \o z, S, X \cup Z, 1, 7) /\ StartsWith(x \o z, M("q"))
    BY ONLY <1>7, <2>1, JoinStretches
  <2>3. QED
    BY <2>2 DEF Is, x, z, X, Z
<1> HIDE DEF s5, X5
<1>13. Is(s6, X6, 1, 8)
  <2> DEFINE x == s5
             z == <<R("k")>>
             X == X5
             Z == {R("k")}
  <2>1. Stretch(x, S, X, 1, 7) /\ StartsWith(x, M("q")) /\ Stretch(z, S, Z, 8, 8)
    BY <1>12, <1>6 DEF Is
  <2> HIDE DEF x, z, X, Z
  <2>2. Stretch(x \o z, S, X \cup Z, 1, 8) /\ StartsWith(x \o z, M("q"))
    BY ONLY <1>7, <2>1, JoinStretches
  <2>3. QED
    BY <2>2 DEF Is, x, z, X, Z
<1> HIDE DEF s6, X6
<1>14. Is(s7, X7, 1, 9)
  <2> DEFINE x == s6
             z == <<M("v")>>
             X == X6
             Z == {M("v")}
  <2>1. Stretch(x, S, X, 1, 8) /\ StartsWith(x, M("q")) /\ Stretch(z, S, Z, 9, 9)
    BY <1>13, <1>6 DEF Is
  <2> HIDE DEF x, z, X, Z
  <2>2. Stretch(x \o z, S, X \cup Z, 1, 9) /\ StartsWith(x \o z, M("q"))
    BY ONLY <1>7, <2>1, JoinStretches
  <2>3. QED
    BY <2>2 DEF Is, x, z, X, Z
<1> HIDE DEF s7, X7
<1>15. Is(s8, X8, 1, 11)
  <2> DEFINE x == s7
             z == y("v")
             X == X7
             Z == Ad("v")
  <2>1. Stretch(x, S, X, 1, 9) /\ StartsWith(x, M("q")) /\ Stretch(z, S, Z, 10, 11)
    BY <1>14, <1>4 DEF Is
  <2> HIDE DEF x, z, X, Z
  <2>2. Stretch(x \o z, S, X \cup Z, 1, 11) /\ StartsWith(x \o z, M("q"))
    BY ONLY <1>7, <2>1, JoinStretches
  <2>3. QED
    BY <2>2 DEF Is, x, z, X, Z
<1> HIDE DEF s8, X8
<1>16. Stretch(t, S, {M("o")} \cup Ad("o"), 13, 15)
  <2>1. 13 \in Nat /\ 14 \in Nat /\ 15 \in Nat /\ 13 <= 14 /\ 13 < 14 /\ 13 <= 15
    OBVIOUS
  <2>2. QED
    BY <1>4, <1>6, <2>1, JoinStretches
<1> HIDE DEF t
<1>17. Is(s9, X9, 1, 15)
  <2> DEFINE x == s8
             z == t
             X == X8
             Z == {M("o")} \cup Ad("o")
  <2>1. Stretch(x, S, X, 1, 11) /\ StartsWith(x, M("q")) /\ Stretch(z, S, Z, 13, 15)
    BY <1>15, <1>16 DEF Is
  <2> HIDE DEF x, z, X, Z
  <2>2. Stretch(x \o z, S, X \cup Z, 1, 15) /\ StartsWith(x \o z, M("q"))
    BY ONLY <1>7, <2>1, JoinStretches
  <2>3. QED
    BY <2>2 DEF Is, x, z, X, Z
<1> HIDE DEF s9, X9
<1>18. s9 \in Seq(S) /\ Len(s9) > 0 /\ Rising(s9) /\ Head(s9) = M("q") /\ \A l \in S : InList(s9, l)
  BY <1>5, <1>17 DEF Is, Stretch, StartsWith
<1>19. Ordered(s9, e)
  BY <1>18 DEF Ordered, S
<1>20. QED
  BY <1>1, <1>3, <1>18, <1>19 DEF M
(* The largest of a request's numbers, as the record has it.               *)
LEMMA ChosenLargest ==
  ASSUME NEW n \in Nat \ {0}, NEW f \in [1 .. n -> Nat], NEW m,
         m = CHOOSE x \in {f[b] : b \in 1 .. n} : \A b \in 1 .. n : f[b] <= x
  PROVE  m \in Nat /\ \A b \in 1 .. n : f[b] <= m
<1> DEFINE S == {f[b] : b \in 1 .. n}
           Is(x) == \A b \in 1 .. n : f[b] <= x
<1>1. \E x \in S : Is(x)
  BY LargestOf
<1>2. S \subseteq Nat
  OBVIOUS
<1>3. m = CHOOSE x \in S : Is(x)
  OBVIOUS
<1> HIDE DEF S, Is
<1>4. m \in S /\ Is(m)
  BY <1>1, <1>3, Zenon
<1>5. QED
  BY <1>2, <1>4 DEF Is

(* The request of a row.                                                   *)
RequestOf(len, n, row) ==
  CHOOSE x \in 0 .. n - 1 : SumTo(len, x) <= row /\ row < SumTo(len, x + 1)

LEMMA RowRequest ==
  ASSUME NEW n \in Nat \ {0}, NEW len \in [0 .. n - 1 -> Nat], NEW row \in 0 .. SumTo(len, n) - 1
  PROVE  /\ RequestOf(len, n, row) \in 0 .. n - 1
         /\ \A c \in 0 .. n - 1 : \A j \in 0 .. len[c] - 1 :
              row = SumTo(len, c) + j => RequestOf(len, n, row) = c
<1> DEFINE N == 0 .. n - 1
           b == RequestOf(len, n, row)
           s(i) == SumTo(len, i)
           Is(x) == s(x) <= row /\ row < s(x + 1)
<1>1. /\ \A i \in 0 .. n : s(i) \in Nat
      /\ \A i \in 0 .. n - 1 : s(i + 1) = s(i) + len[i]
      /\ \A i, j \in 0 .. n : i <= j => s(i) <= s(j)
  BY RunningSum
<1>2. \E c \in N : \E j \in 0 .. len[c] - 1 : row = s(c) + j
  BY PartsCover
<1>3. b = CHOOSE x \in N : Is(x)
  BY DEF RequestOf
<1>4. \A c \in N : /\ c \in 0 .. n /\ c + 1 \in 0 .. n /\ len[c] \in Nat
                   /\ s(c) \in Nat /\ s(c + 1) \in Nat /\ s(c + 1) = s(c) + len[c]
  BY <1>1
<1>5. row \in Nat
  BY <1>1
<1>6. \A c \in N : c \in Nat
  OBVIOUS
<1>7. ASSUME NEW c \in N, NEW d \in N, Is(c), Is(d) PROVE c = d
  <2>1. /\ c \in 0 .. n /\ c + 1 \in 0 .. n /\ d \in 0 .. n /\ d + 1 \in 0 .. n
        /\ c \in Nat /\ d \in Nat
        /\ s(c) \in Nat /\ s(c + 1) \in Nat /\ s(d) \in Nat /\ s(d + 1) \in Nat
    <3> HIDE DEF s, N
    <3>1. QED
      BY <1>4, <1>6
  <2>2. s(c) <= row /\ row < s(c + 1) /\ s(d) <= row /\ row < s(d + 1)
    BY <1>7
  <2> HIDE DEF s, N
  <2>3. ~ (c + 1 <= d)
    BY <1>1, <1>5, <2>1, <2>2, SMTT(20)
  <2>4. ~ (d + 1 <= c)
    BY <1>1, <1>5, <2>1, <2>2, SMTT(20)
  <2>5. QED
    BY <2>1, <2>3, <2>4
<1> HIDE DEF s, N, b
<1>8. ASSUME NEW c \in N, NEW j \in 0 .. len[c] - 1, row = s(c) + j PROVE Is(c)
  BY <1>4, <1>8
<1> HIDE DEF Is
<1>9. \E x \in N : Is(x)
  BY <1>2, <1>8
<1>10. b \in N /\ Is(b)
  BY <1>3, <1>9, Zenon
<1>11. \A c \in N : \A j \in 0 .. len[c] - 1 : row = s(c) + j => b = c
  BY <1>7, <1>8, <1>10
<1>12. QED
  BY <1>10, <1>11 DEF N, s, b

LEMMA StateServes ==
  ASSUME NEW batch \in LoraBatches, NEW dirs \in AdapterOrders, NEW prefill \in BOOLEAN
  PROVE  RecordServes(State(batch, dirs, prefill), Len(batch))
<1> DEFINE st == State(batch, dirs, prefill)
           n == Len(batch)
           N == 0 .. n - 1
           len == [b \in N |-> IF prefill THEN batch[b + 1][2] ELSE 1]
           ranks == [b \in 1 .. n |-> rank[batch[b][1]]]
           lengths == [b \in 1 .. n |-> batch[b][2]]
<1>1. /\ batch \in Seq((DOMAIN rank) \X (Nat \ {0})) /\ batch # <<>>
      /\ n \in Nat \ {0} /\ DOMAIN batch = 1 .. n
      /\ dirs \in Seq(DOMAIN rank)
      /\ \A b \in DOMAIN batch : \E i \in DOMAIN dirs : dirs[i] = batch[b][1]
  BY BatchAssumption DEF BatchAssumption
<1>2. \A b \in 1 .. n : batch[b][1] \in DOMAIN rank /\ batch[b][2] \in Nat
  BY <1>1
<1>3. RecordOK(st, n) /\ st.is_prefill = prefill
  BY RecordIsOK
<1>4. /\ st.adapter_dirs = dirs
      /\ st.adapters = [b \in N |-> batch[b + 1][1]]
      /\ st.req_bins = [b \in N |-> CHOOSE i \in DOMAIN dirs : dirs[i] = batch[b + 1][1]]
      /\ st.b_seq_len = [b \in N |-> batch[b + 1][2]]
  BY DEF State
<1>5. st.request = [row \in 0 .. SumTo(len, n) - 1 |->
                      CHOOSE x \in N : SumTo(len, x) <= row /\ row < SumTo(len, x + 1)]
  BY DEF State
<1>6. \A b \in N : b + 1 \in 1 .. n
  BY <1>1
<1>7. len \in [N -> Nat]
  BY <1>2, <1>6
<1>8. ranks \in [1 .. n -> Nat] /\ lengths \in [1 .. n -> Nat]
  BY <1>2, RankAssumption DEF RankAssumption
<1>9. st.max_lora_dim \in Nat /\ \A b \in 1 .. n : ranks[b] <= st.max_lora_dim
  <2> DEFINE m == CHOOSE x \in {ranks[b] : b \in 1 .. n} : \A b \in 1 .. n : ranks[b] <= x
  <2>1. st.max_lora_dim = m
    <3>1. {rank[batch[b][1]] : b \in DOMAIN batch} = {ranks[b] : b \in 1 .. n}
      BY <1>1
    <3>2. \A x : (\A b \in DOMAIN batch : rank[batch[b][1]] <= x) <=> (\A b \in 1 .. n : ranks[b] <= x)
      BY <1>1
    <3>3. st.max_lora_dim = CHOOSE x \in {rank[batch[b][1]] : b \in DOMAIN batch} :
                              \A b \in DOMAIN batch : rank[batch[b][1]] <= x
      BY DEF State
    <3>4. QED
      BY ONLY <3>1, <3>2, <3>3, Zenon
  <2>2. m \in Nat /\ \A b \in 1 .. n : ranks[b] <= m
    <3> HIDE DEF ranks, n
    <3>1. QED
      BY <1>1, <1>8, ChosenLargest
  <2>3. QED
    BY <2>1, <2>2
<1>10. st.max_b_seq_len \in Nat /\ \A b \in 1 .. n : lengths[b] <= st.max_b_seq_len
  <2> DEFINE m == CHOOSE x \in {lengths[b] : b \in 1 .. n} : \A b \in 1 .. n : lengths[b] <= x
  <2>1. st.max_b_seq_len = m
    <3>1. {batch[b][2] : b \in DOMAIN batch} = {lengths[b] : b \in 1 .. n}
      BY <1>1
    <3>2. \A x : (\A b \in DOMAIN batch : batch[b][2] <= x) <=> (\A b \in 1 .. n : lengths[b] <= x)
      BY <1>1
    <3>3. st.max_b_seq_len = CHOOSE x \in {batch[b][2] : b \in DOMAIN batch} :
                              \A b \in DOMAIN batch : batch[b][2] <= x
      BY DEF State
    <3>4. QED
      BY ONLY <3>1, <3>2, <3>3, Zenon
  <2>2. m \in Nat /\ \A b \in 1 .. n : lengths[b] <= m
    <3> HIDE DEF lengths, n
    <3>1. QED
      BY <1>1, <1>8, ChosenLargest
  <2>3. QED
    BY <2>1, <2>2
<1>11. ASSUME NEW b \in N
       PROVE  /\ st.adapters[b] \in DOMAIN rank
              /\ st.req_bins[b] \in DOMAIN st.adapter_dirs
              /\ st.adapter_dirs[st.req_bins[b]] = st.adapters[b]
              /\ rank[st.adapters[b]] <= st.max_lora_dim
              /\ st.b_seq_len[b] <= st.max_b_seq_len
  <2> DEFINE a == batch[b + 1][1]
             i == CHOOSE i \in DOMAIN dirs : dirs[i] = a
  <2>1. b + 1 \in 1 .. n /\ a \in DOMAIN rank /\ st.adapters[b] = a /\ st.req_bins[b] = i
    BY <1>2, <1>4, <1>6
  <2>2. \E x \in DOMAIN dirs : dirs[x] = a
    BY <1>1, <2>1
  <2>3. i \in DOMAIN dirs /\ dirs[i] = a
    <3> HIDE DEF a
    <3>1. QED
      BY <2>2, Zenon
  <2>4. rank[a] = ranks[b + 1] /\ st.b_seq_len[b] = lengths[b + 1]
    BY <1>4, <2>1
  <2> HIDE DEF a, i, st, ranks, lengths
  <2>5. QED
    BY <1>4, <1>9, <1>10, <2>1, <2>3, <2>4
<1>12. ASSUME NEW row \in DOMAIN st.request
       PROVE  /\ st.request[row] \in N
              /\ \A c \in N : \A j \in 0 .. len[c] - 1 : row = SumTo(len, c) + j => st.request[row] = c
  <2>1. row \in 0 .. SumTo(len, n) - 1
    BY <1>5
  <2> DEFINE r == st.request[row]
  <2>2. r = RequestOf(len, n, row)
    BY <1>5, <2>1 DEF RequestOf
  <2> HIDE DEF r, st, len, n
  <2>3. /\ r \in 0 .. n - 1
        /\ \A c \in 0 .. n - 1 : \A j \in 0 .. len[c] - 1 : row = SumTo(len, c) + j => r = c
    <3>1. n \in Nat \ {0} /\ len \in [0 .. n - 1 -> Nat] /\ row \in 0 .. SumTo(len, n) - 1
      BY <1>1, <1>7, <2>1
    <3>2. /\ RequestOf(len, n, row) \in 0 .. n - 1
          /\ \A c \in 0 .. n - 1 : \A j \in 0 .. len[c] - 1 :
               row = SumTo(len, c) + j => RequestOf(len, n, row) = c
      BY ONLY <3>1, RowRequest
    <3>3. QED
      BY ONLY <2>2, <3>2
  <2>4. QED
    BY <2>3 DEF r
<1>13. ASSUME prefill, NEW b \in N, NEW j \in 0 .. st.b_seq_len[b] - 1
       PROVE  st.request[SumTo(st.b_seq_len, b) + j] = b
  <2>1. len = st.b_seq_len
    BY <1>4, <1>13
  <2>2. DOMAIN st.request = 0 .. SumTo(len, n) - 1
    BY <1>5
  <2> HIDE DEF len, st, n
  <2>3. Packed(len, n) /\ len[b] \in Nat
    BY <1>1, <1>7, PartsPacked
  <2>4. j \in Nat /\ j < len[b] /\ j \in 0 .. len[b] - 1
    BY <2>1, <2>3
  <2>5. SumTo(len, b) + j \in 0 .. SumTo(len, n) - 1
    BY <2>3, <2>4 DEF Packed
  <2>6. QED
    BY <1>12, <2>1, <2>2, <2>4, <2>5
<1> HIDE DEF st
<1>14. QED
  BY <1>1, <1>3, <1>4, <1>10, <1>11, <1>12, <1>13 DEF RecordServes, st
(* What the kernels compute with: the adapter of a row's request.          *)
AdapterOf(row) == lora.adapters[Request(row)]
Column(slot, row, d) ==
  IF d < rank[AdapterOf(row)]
    THEN Dot(Input(slot, row), WeightA(AdapterOf(row), slot, d)) ELSE Zero

LEMMA RowServed ==
  ASSUME RanksFit, NEW n, RecordServes(lora, n), NEW row \in Tokens, NEW slot \in Slots
  PROVE  /\ AdapterOf(row) \in DOMAIN rank
         /\ lora.max_lora_dim \in Nat \ {0} /\ rank[AdapterOf(row)] \in 1 .. lora.max_lora_dim
         /\ rank[AdapterOf(row)] % VEC = 0 /\ EMBED % rank[AdapterOf(row)] = 0
         /\ EMBED \in Nat \ {0} /\ VEC \in Nat \ {0}
         /\ Bin(row) \in DOMAIN lora.adapter_dirs
         /\ lora.adapter_dirs[Bin(row)] = AdapterOf(row)
         /\ RankSize(Bin(row)) = rank[AdapterOf(row)]
         /\ Scale(Bin(row)) = scaling[AdapterOf(row)]
         /\ \A k \in 0 .. rank[AdapterOf(row)] - 1 : CellHolds(Bin(row), slot, k)
<1> DEFINE A == AdapterOf(row)
           i == Bin(row)
           b == Request(row)
<1>1. b \in 0 .. n - 1
  BY DEF RecordServes, Tokens, Request
<1>2. /\ A \in DOMAIN rank /\ i \in DOMAIN lora.adapter_dirs /\ lora.adapter_dirs[i] = A
      /\ rank[A] <= lora.max_lora_dim /\ lora.adapter_dirs \in Seq(DOMAIN rank)
  BY <1>1 DEF RecordServes, AdapterOf, Bin
<1>3. lora.max_lora_dim \in {rank[a] : a \in DOMAIN rank}
  BY DEF RecordServes, RecordOK
<1>4. /\ EMBED \in Nat \ {0} /\ VEC \in Nat \ {0}
      /\ \A a \in DOMAIN rank : rank[a] \in Nat \ {0} /\ rank[a] % VEC = 0 /\ EMBED % rank[a] = 0
  BY RankAssumption DEF RankAssumption, RanksFit
<1>5. lora.max_lora_dim \in Nat \ {0} /\ rank[A] \in 1 .. lora.max_lora_dim
  <2> HIDE DEF A
  <2>1. QED
    BY <1>2, <1>3, <1>4
<1> HIDE DEF A, i, b
<1>6. RankSize(i) = rank[A]
  <2>1. 0 \in 0 .. rank[lora.adapter_dirs[i]] - 1
    BY <1>2, <1>4
  <2>2. RankSize(i) = rank[lora.adapter_dirs[i]]
    BY <1>2, <2>1, CellIs
  <2>3. QED
    BY <1>2, <2>2
<1>7. \A k \in 0 .. rank[A] - 1 : CellHolds(i, slot, k)
  BY <1>2, WeightsIn
<1>8. Scale(i) = scaling[A]
  BY <1>2 DEF Scale
<1>9. QED
  BY <1>2, <1>4, <1>5, <1>6, <1>7, <1>8 DEF A, i

(* A weight and a value of a cell.                                         *)
LEMMA HeldWeights ==
  ASSUME RanksFit, NEW n, RecordServes(lora, n), NEW row \in Tokens, NEW slot \in Slots,
         NEW k, NEW offset, NEW out, NEW e \in 0 .. rank[AdapterOf(row)] - 1,
         PlaceIs(k, offset, out, e, rank[AdapterOf(row)])
  PROVE  /\ KeyBuffer(Cell(Bin(row), slot, e)) = WeightA(AdapterOf(row), slot, e)
         /\ ValueBuffer(Cell(Bin(row), slot, k), offset) = WeightB(AdapterOf(row), slot, out, e)
<1> DEFINE A == AdapterOf(row)
           i == Bin(row)
<1>1. lora.adapter_dirs[i] = A /\ \A j \in 0 .. rank[A] - 1 : CellHolds(i, slot, j)
  BY RowServed
<1>2. /\ k \in 0 .. rank[A] - 1 /\ offset \in 0 .. EMBED - 1
      /\ (k * EMBED + offset) \div rank[A] = out /\ (k * EMBED + offset) % rank[A] = e
  BY DEF PlaceIs
<1>3. CellHolds(i, slot, e) /\ CellHolds(i, slot, k)
  BY <1>1, <1>2
<1> HIDE DEF A, i
<1>4. KeyBuffer(Cell(i, slot, e)) = WeightA(A, slot, e)
  BY <1>1, <1>3 DEF CellHolds
<1>5. ValueBuffer(Cell(i, slot, k), offset) =
        WeightB(A, slot, (k * EMBED + offset) \div rank[A], (k * EMBED + offset) % rank[A])
  BY <1>1, <1>2, <1>3 DEF CellHolds
<1>6. QED
  BY <1>2, <1>4, <1>5 DEF A, i

(* The products of a row with its adapter, and their sum.                  *)
TermOf(slot, row, out, d) ==
  <<"lora", <<"dot", Input(slot, row), WeightA(AdapterOf(row), slot, d)>>,
    WeightB(AdapterOf(row), slot, out, d), scaling[AdapterOf(row)]>>

LEMMA ProductIs ==
  ASSUME NEW slot, NEW row, NEW out, NEW d, NEW x, x = Column(slot, row, d)
  PROVE  /\ d < rank[AdapterOf(row)] =>
              Product(x, WeightB(AdapterOf(row), slot, out, d), scaling[AdapterOf(row)])
                = <<TermOf(slot, row, out, d)>>
         /\ ~ (d < rank[AdapterOf(row)]) => \A s : Product(x, Zero, s) = <<>>
<1> DEFINE A == AdapterOf(row)
           wa == WeightA(A, slot, d)
           wb == WeightB(A, slot, out, d)
           y == <<"dot", Input(slot, row), wa>>
<1>1. ASSUME d < rank[A] PROVE x = y /\ y \notin {Junk, Zero}
  <2>1. wa # Junk
    BY DEF WeightA, Junk
  <2>2. x = y
    BY <1>1, <2>1 DEF Column, Dot
  <2>3. y # Junk /\ y # Zero
    BY DEF Junk, Zero
  <2>4. QED
    BY <2>2, <2>3
<1>2. wb \notin {Junk, Zero}
  BY DEF WeightB, Junk, Zero
<1>3. Junk # Zero
  BY DEF Junk, Zero
<1>4. TermOf(slot, row, out, d) = <<"lora", y, wb, scaling[A]>>
  BY DEF TermOf
<1> HIDE DEF A, wa, wb, y
<1>5. d < rank[A] => Product(x, wb, scaling[A]) = <<TermOf(slot, row, out, d)>>
  BY <1>1, <1>2, <1>4 DEF Product
<1>6. ~ (d < rank[A]) => \A s : Product(x, Zero, s) = <<>>
  BY <1>3 DEF Product, Column, A
<1>7. QED
  BY <1>5, <1>6 DEF A, wb

LEMMA OwnSum ==
  ASSUME RanksFit, NEW n, RecordServes(lora, n), NEW row \in Tokens, NEW slot \in Slots, NEW out, NEW terms,
         \A d \in 0 .. lora.max_lora_dim - 1 :
           terms[d] = IF d < rank[AdapterOf(row)] THEN <<TermOf(slot, row, out, d)>> ELSE <<>>
  PROVE  SumOf(terms, lora.max_lora_dim) = OwnTerms(slot, row, out)
<1> DEFINE A == AdapterOf(row)
           m == lora.max_lora_dim
           r == rank[A]
           x == [d \in 1 .. r |-> TermOf(slot, row, out, d - 1)]
<1>1. m \in Nat \ {0} /\ r \in 1 .. m
  BY RowServed
<1>2. x = OwnTerms(slot, row, out)
  BY DEF OwnTerms, TermOf, AdapterOf
<1>3. ASSUME NEW d \in 0 .. m - 1
      PROVE  terms[d] = IF d < r THEN <<x[d + 1]>> ELSE <<>>
  <2>1. CASE d < r
    <3>1. d + 1 \in 1 .. r /\ (d + 1) - 1 = d
      BY <1>1, <2>1
    <3>2. x[d + 1] = TermOf(slot, row, out, (d + 1) - 1)
      BY <3>1
    <3>3. x[d + 1] = TermOf(slot, row, out, d)
      BY <3>1, <3>2
    <3> HIDE DEF x
    <3>4. QED
      BY <2>1, <3>3
  <2>2. CASE ~ (d < r)
    BY <2>2
  <2>3. QED
    BY <2>1, <2>2
<1>4. [d \in 1 .. r |-> x[d]] = x
  OBVIOUS
<1> HIDE DEF m, r, x
<1>5. SumOf(terms, m) = [d \in 1 .. r |-> x[d]]
  <2>1. TermsUpTo(terms, x, m, r)
    BY <1>3 DEF TermsUpTo
  <2>2. SumsTo(terms, x, m, r)
    BY ONLY <1>1, <2>1, TermsAre
  <2>3. QED
    BY <2>2 DEF SumsTo
<1>6. QED
  BY <1>2, <1>4, <1>5 DEF m
(* The expansions add a row's own terms to an output of it, if the row's   *)
(* deltas are what the shrink makes of its input.                          *)
ColumnsReady(slot, row, m) ==
  \A d \in 0 .. m - 1 : Load(<<delta[slot], row, d>>) = Column(slot, row, d)

LEMMA Lanes ==
  ASSUME NEW d \in Nat \ {0}, NEW r \in Nat \ {0}, r % d = 0, NEW e \in Nat
  PROVE  (e \div d) * d >= r <=> ~ (e < r)
<1> DEFINE q == e \div d
           u == r \div d
           s == e % d
<1>1. q \in Nat /\ s \in Nat /\ s < d /\ q * d + s = e
  BY DivModOf
<1>2. u \in Nat /\ u * d = r
  <2>1. u \in Nat /\ u * d + (r % d) = r
    BY DivModOf
  <2>2. u * d \in Nat
    BY <2>1, ProductNat
  <2>3. QED
    BY <2>1, <2>2
<1> HIDE DEF q, u, s
<1>3. q * d \in Nat /\ u * d \in Nat
  BY <1>1, <1>2, ProductNat
<1>4. ASSUME u <= q PROVE u * d <= q * d
  <2>1. d * u <= d * q /\ d * u = u * d /\ d * q = q * d
    BY <1>1, <1>2, <1>4, ProductGrows
  <2>2. QED
    BY <2>1
<1>5. ASSUME q + 1 <= u PROVE q * d + d <= u * d
  <2>1. q + 1 \in Nat
    BY <1>1
  <2>2. d * (q + 1) <= d * u /\ d * u = u * d /\ d * (q + 1) = q * d + d
    BY <1>1, <1>2, <1>5, <2>1, ProductGrows
  <2>3. QED
    BY <2>2
<1> DEFINE Q == q * d
           U == u * d
<1>6. (u <= q \/ q + 1 <= u) /\ (u <= q => U <= Q) /\ (q + 1 <= u => Q + d <= U)
  BY <1>1, <1>2, <1>4, <1>5
<1>7. Q \in Nat /\ U = r /\ Q + s = e
  BY <1>1, <1>2, <1>3
<1> HIDE DEF Q, U
<1>8. Q >= r <=> ~ (e < r)
  BY <1>1, <1>6, <1>7
<1>9. QED
  BY <1>8 DEF Q, q

LEMMA BgmvAdds ==
  ASSUME RanksFit, NEW n, RecordServes(lora, n), NEW slot \in Slots, NEW p \in BgmvExpandGrid,
         NEW a \in DOMAIN BgmvExpand(p, slot),
         ColumnsReady(slot, p[2], rank[AdapterOf(p[2])])
  PROVE  BgmvExpand(p, slot)[a] = Load(a) \o OwnTerms(slot, a[2], a[3])
<1> DEFINE row == p[2]
           i == Bin(row)
           r == rank[AdapterOf(row)]
           max == lora.max_lora_dim
           out == a[3]
           flat(e) == out * RankSize(i) + (e \div VEC) * VEC
           weight(e) == ValueBuffer(Cell(i, slot, flat(e) \div EMBED), (flat(e) % EMBED) + (e % VEC))
           term(e) == IF (e \div VEC) * VEC >= RankSize(i) THEN <<>>
                      ELSE Product(Load(<<delta[slot], row, e>>), weight(e), Scale(i))
           terms == [e \in 0 .. max - 1 |-> term(e)]
<1>1. row \in Tokens
  BY DEF BgmvExpandGrid
<1>2. a \in Outputs(slot)
  BY BgmvExpandOwn
<1>3. a[2] = row /\ out \in 0 .. EMBED - 1
  <2>1. a \in {<<slot, row, m>> : m \in Rows(p[1], TILE_OUT)}
    BY DEF BgmvExpand
  <2>2. QED
    BY <1>2, <2>1 DEF Outputs
<1>4. BgmvExpand(p, slot)[a] = Load(a) \o SumOf(terms, max)
  BY DEF BgmvExpand
<1>5. /\ max \in Nat \ {0} /\ r \in 1 .. max /\ r % VEC = 0
      /\ EMBED \in Nat \ {0} /\ VEC \in Nat \ {0}
      /\ RankSize(i) = r /\ Scale(i) = scaling[AdapterOf(row)]
  BY <1>1, RowServed
<1>6. ASSUME NEW e \in 0 .. max - 1
      PROVE  terms[e] = IF e < r THEN <<TermOf(slot, row, out, e)>> ELSE <<>>
  <2>1. terms[e] = term(e)
    OBVIOUS
  <2>2. (e \div VEC) * VEC >= r <=> ~ (e < r)
    <3> HIDE DEF r
    <3>1. e \in Nat /\ r \in Nat \ {0} /\ VEC \in Nat \ {0} /\ r % VEC = 0
      BY <1>5
    <3>2. QED
      BY ONLY <3>1, Lanes
  <2>3. CASE e < r
    <3> DEFINE f == out * r + (e \div VEC) * VEC
    <3>1. e \in 0 .. r - 1 /\ r \in Nat \ {0}
      BY <1>5, <2>3
    <3>2. PlaceIs(f \div EMBED, (f % EMBED) + (e % VEC), out, e, r)
      BY <1>3, <1>5, <3>1, VectorPlace
    <3>3. weight(e) = ValueBuffer(Cell(i, slot, f \div EMBED), (f % EMBED) + (e % VEC))
      BY <1>5
    <3> HIDE DEF f
    <3>4. ValueBuffer(Cell(i, slot, f \div EMBED), (f % EMBED) + (e % VEC))
            = WeightB(AdapterOf(row), slot, out, e)
      BY <1>1, <3>1, <3>2, HeldWeights
    <3>5. Load(<<delta[slot], row, e>>) = Column(slot, row, e)
      BY <3>1 DEF ColumnsReady
    <3>6. term(e) = Product(Load(<<delta[slot], row, e>>), weight(e), Scale(i))
      BY <1>5, <2>2, <2>3
    <3> HIDE DEF weight, term, r, row
    <3>7. Product(Load(<<delta[slot], row, e>>), WeightB(AdapterOf(row), slot, out, e),
                  scaling[AdapterOf(row)])
            = <<TermOf(slot, row, out, e)>>
      BY <2>3, <3>5, ProductIs DEF r
    <3>8. QED
      BY <1>5, <2>1, <2>3, <3>3, <3>4, <3>6, <3>7
  <2>4. CASE ~ (e < r)
    <3>1. term(e) = <<>>
      BY <1>5, <2>2, <2>4
    <3>2. QED
      BY <2>1, <2>4, <3>1
  <2>5. QED
    BY <2>3, <2>4
<1> HIDE DEF terms, term
<1>7. SumOf(terms, max) = OwnTerms(slot, row, out)
  BY <1>1, <1>6, OwnSum
<1>8. QED
  BY <1>3, <1>4, <1>7
(* The rows of a block are the request's.                                  *)
LEMMA BlockRequest ==
  ASSUME NEW n, RecordServes(lora, n), lora.is_prefill, NEW b \in Requests, NEW m \in Nat,
         NEW row \in BlockRows(b, m)
  PROVE  row \in Tokens /\ Request(row) = b
<1> DEFINE len == lora.b_seq_len
<1>1. RecordOK(lora, n) /\ b \in 0 .. n - 1
  BY DEF RecordServes, RecordOK, Requests
<1>2. row \in Tokens
  BY <1>1, BlockRowsOwn
<1>3. lora.b_start_loc[b] = SumTo(len, b) /\ len \in [0 .. n - 1 -> Nat]
  BY <1>1 DEF RecordOK
<1>4. TILE_M \in Nat \ {0}
  BY RankAssumption DEF RankAssumption
<1>5. Rows(m, TILE_M) \subseteq Nat
  BY <1>4, RowsIn
<1>6. PICK j \in Nat : j < len[b] /\ row = SumTo(len, b) + j
  BY <1>3, <1>5 DEF BlockRows
<1>7. j \in 0 .. len[b] - 1
  <2>1. len[b] \in Nat
    BY <1>1, <1>3
  <2> HIDE DEF len
  <2>2. QED
    BY ONLY <1>6, <2>1, j \in Nat
<1>8. lora.request[SumTo(len, b) + j] = b
  BY <1>1, <1>7 DEF RecordServes
<1>9. QED
  BY <1>2, <1>6, <1>8 DEF Request

LEMMA ExpandAdds ==
  ASSUME RanksFit, NEW n, RecordServes(lora, n), lora.is_prefill, NEW slot \in Slots, NEW p \in ExpandGrid,
         NEW a \in DOMAIN ExpandFwd(p, slot),
         ColumnsReady(slot, a[2], lora.max_lora_dim)
  PROVE  ExpandFwd(p, slot)[a] = Load(a) \o OwnTerms(slot, a[2], a[3])
<1> DEFINE row == a[2]
           i == lora.req_bins[p[1]]
           r == rank[AdapterOf(row)]
           max == lora.max_lora_dim
           out == a[3]
           weight(d) ==
             IF d < RankSize(i)
               THEN ValueBuffer(Cell(i, slot, (out * RankSize(i)) \div EMBED), (out * RankSize(i) + d) % EMBED)
               ELSE Zero
           term(d) == Product(Load(<<delta[slot], row, d>>), weight(d), Scale(i))
           terms == [d \in 0 .. max - 1 |-> term(d)]
<1>1. RecordOK(lora, n)
  BY DEF RecordServes
<1>2. p[1] \in Requests /\ p[3] \in Nat
  BY DEF ExpandGrid, RowBlocks
<1>3. a \in Outputs(slot)
  BY <1>1, ExpandOwn
<1>4. row \in BlockRows(p[1], p[3]) /\ out \in 0 .. EMBED - 1
  <2>1. a \in {<<slot, x, m>> : x \in BlockRows(p[1], p[3]), m \in Rows(p[2], EXPAND_N)}
    BY DEF ExpandFwd
  <2>2. QED
    BY <1>3, <2>1 DEF Outputs
<1>5. row \in Tokens /\ i = Bin(row)
  <2> HIDE DEF row
  <2>1. row \in Tokens /\ Request(row) = p[1]
    BY <1>2, <1>4, BlockRequest
  <2>2. QED
    BY <2>1 DEF Bin
<1>6. ExpandFwd(p, slot)[a] = Load(a) \o SumOf(terms, max)
  BY SMTT(20) DEF ExpandFwd
<1> HIDE DEF row, i
<1>7. /\ max \in Nat \ {0} /\ r \in 1 .. max /\ EMBED % r = 0
      /\ EMBED \in Nat \ {0}
      /\ RankSize(i) = r /\ Scale(i) = scaling[AdapterOf(row)]
  BY <1>5, RowServed
<1>8. ASSUME NEW d \in 0 .. max - 1
      PROVE  terms[d] = IF d < r THEN <<TermOf(slot, row, out, d)>> ELSE <<>>
  <2>1. terms[d] = term(d)
    OBVIOUS
  <2>2. Load(<<delta[slot], row, d>>) = Column(slot, row, d)
    BY DEF ColumnsReady, row
  <2>3. CASE d < r
    <3>1. d \in 0 .. r - 1 /\ r \in Nat \ {0}
      BY <1>7, <2>3
    <3>2. PlaceIs((out * r) \div EMBED, (out * r + d) % EMBED, out, d, r)
      <4> HIDE DEF r
      <4>1. QED
        BY <1>4, <1>7, <3>1, RowPlace
    <3>3. weight(d) = ValueBuffer(Cell(i, slot, (out * r) \div EMBED), (out * r + d) % EMBED)
      BY <1>7, <2>3
    <3>4. ValueBuffer(Cell(Bin(row), slot, (out * r) \div EMBED), (out * r + d) % EMBED)
            = WeightB(AdapterOf(row), slot, out, d)
      BY <1>5, <3>1, <3>2, HeldWeights
    <3> HIDE DEF weight, term, r
    <3>5. Product(Load(<<delta[slot], row, d>>), WeightB(AdapterOf(row), slot, out, d),
                  scaling[AdapterOf(row)])
            = <<TermOf(slot, row, out, d)>>
      BY <2>2, <2>3, ProductIs DEF r
    <3>6. term(d) = Product(Load(<<delta[slot], row, d>>), weight(d), Scale(i))
      BY DEF term
    <3>7. QED
      BY <1>5, <1>7, <2>1, <2>3, <3>3, <3>4, <3>5, <3>6
  <2>4. CASE ~ (d < r)
    <3>1. weight(d) = Zero
      BY <1>7, <2>4
    <3>2. \A s : Product(Load(<<delta[slot], row, d>>), Zero, s) = <<>>
      BY <2>2, <2>4, ProductIs
    <3>3. term(d) = Product(Load(<<delta[slot], row, d>>), weight(d), Scale(i))
      OBVIOUS
    <3> HIDE DEF weight, term, r
    <3>4. QED
      BY <2>1, <2>4, <3>1, <3>2, <3>3
  <2>5. QED
    BY <2>3, <2>4
<1> HIDE DEF terms, term
<1>9. SumOf(terms, max) = OwnTerms(slot, row, out)
  BY <1>5, <1>8, OwnSum
<1>10. QED
  BY <1>6, <1>9 DEF row
(* A request is in one of the segments, whose adapter is its own.          *)
SegmentOf(b) == CHOOSE s \in DOMAIN Segments : b \in Segments[s]

LEMMA SegmentOwn ==
  ASSUME NEW n \in Nat, Requests = 0 .. n - 1, NEW b \in Requests
  PROVE  /\ lora.adapters[SegmentOf(b)] = lora.adapters[b]
         /\ SegmentOf(b) \in DOMAIN Segments /\ b \in Segments[SegmentOf(b)]
<1> DEFINE A == lora.adapters
           starts == {s \in Requests : s = 0 \/ A[s] # A[s - 1]}
           In(c, s) == c \in Requests /\ s <= c /\ \A d \in starts : d <= s \/ c < d
           Lost == {c \in Requests : ~ \E s \in starts : In(c, s)}
           Odd(s) == {c \in Requests : In(c, s) /\ A[c] # A[s]}
<1>1. Segments = [s \in starts |-> {c \in Requests : s <= c /\ \A d \in starts : d <= s \/ c < d}]
  BY DEF Segments
<1>2. DOMAIN Segments = starts /\ \A s \in starts : \A c : c \in Segments[s] <=> In(c, s)
  BY <1>1
<1>3. Requests \subseteq Nat /\ \A c \in Requests : c = 0 \/ c - 1 \in Requests
  OBVIOUS
<1>4. \A c \in Requests : c \notin starts => c # 0 /\ A[c] = A[c - 1]
  OBVIOUS
<1>5. starts \subseteq Nat
  BY <1>3
<1>6. Lost = {}
  <2> SUFFICES ASSUME Lost # {} PROVE FALSE
    OBVIOUS
  <2>1. Lost \in SUBSET Nat
    BY <1>3
  <2>2. PICK c \in Lost : \A d \in Lost : c <= d
    <3> HIDE DEF Lost
    <3>1. QED
      BY <2>1, LeastNumber
  <2>3. c \in Requests /\ c \in Nat
    BY <1>3
  <2>4. CASE c \in starts
    <3>1. In(c, c)
      <4>1. \A d \in starts : d <= c \/ c < d
        BY <1>5, <2>3
      <4>2. QED
        BY <2>3, <4>1
    <3>2. QED
      BY <2>4, <3>1
  <2>5. CASE c \notin starts
    <3>1. c # 0 /\ c - 1 \in Requests /\ c - 1 \in Nat
      BY <1>3, <1>4, <2>3, <2>5
    <3>2. ~ (c <= c - 1)
      BY <2>3
    <3>3. c - 1 \notin Lost
      <4> HIDE DEF Lost
      <4>1. QED
        BY <2>2, <3>2
    <3>4. PICK s \in starts : In(c - 1, s)
      BY <3>1, <3>3
    <3>5. s \in Nat /\ s <= c
      BY <1>5, <2>3, <3>1, <3>4
    <3>6. ASSUME NEW d \in starts PROVE d <= s \/ c < d
      <4>1. d <= s \/ c - 1 < d
        BY <3>4
      <4>2. d \in Nat /\ d # c
        BY <1>5, <2>5
      <4>3. QED
        BY <2>3, <4>1, <4>2
    <3>7. In(c, s)
      BY <2>3, <3>5, <3>6
    <3>8. QED
      BY <3>7
  <2>6. QED
    BY <2>4, <2>5
<1>7. ASSUME NEW s \in starts PROVE Odd(s) = {}
  <2> SUFFICES ASSUME Odd(s) # {} PROVE FALSE
    OBVIOUS
  <2>1. Odd(s) \in SUBSET Nat
    BY <1>3
  <2> DEFINE O == Odd(s)
  <2>2. PICK c \in O : \A d \in O : c <= d
    <3>1. O \in SUBSET Nat /\ O # {}
      BY <2>1
    <3> HIDE DEF O
    <3>2. QED
      BY ONLY <3>1, LeastNumber
  <2>3. c \in Requests /\ c \in Nat /\ In(c, s) /\ A[c] # A[s] /\ s \in Nat
    BY <1>3, <1>5
  <2>4. c # s /\ c > s
    BY <2>3
  <2>5. c \notin starts
    <3>1. ASSUME c \in starts PROVE c <= s \/ c < c
      BY <2>3, <3>1
    <3>2. QED
      BY <2>3, <2>4, <3>1
  <2>6. c # 0 /\ c - 1 \in Requests /\ c - 1 \in Nat /\ A[c] = A[c - 1]
    BY <1>3, <1>4, <2>3, <2>5
  <2>7. In(c - 1, s)
    <3>1. ASSUME NEW d \in starts PROVE d <= s \/ c - 1 < d
      <4>1. d <= s \/ c < d
        BY <2>3
      <4>2. d \in Nat
        BY <1>5
      <4>3. QED
        BY <2>3, <4>1, <4>2
    <3>2. s <= c - 1
      BY <2>3, <2>4
    <3>3. QED
      BY <2>6, <3>1, <3>2
  <2>8. c - 1 \in O
    BY <2>3, <2>6, <2>7
  <2>9. ~ (c <= c - 1)
    BY <2>3
  <2> HIDE DEF O
  <2>10. QED
    BY <2>2, <2>8, <2>9
<1>8. \E s \in starts : In(b, s)
  BY <1>6
<1> DEFINE seg == SegmentOf(b)
<1>9. seg = CHOOSE s \in DOMAIN Segments : b \in Segments[s]
  BY DEF SegmentOf
<1> HIDE DEF starts, In, Lost, Odd, seg
<1>10. \E s \in DOMAIN Segments : b \in Segments[s]
  BY <1>2, <1>8
<1>11. seg \in DOMAIN Segments /\ b \in Segments[seg]
  BY <1>9, <1>10, Zenon
<1>12. seg \in starts /\ In(b, seg)
  BY <1>2, <1>11
<1>13. A[b] = A[seg]
  BY <1>7, <1>12 DEF Odd
<1>14. QED
  BY <1>11, <1>13 DEF seg

(* The last segment is the one of the last request, so there is one.       *)
LEMMA LastSegmentIs ==
  ASSUME NEW n \in Nat, Requests = 0 .. n - 1, NEW b \in Requests
  PROVE  LastSegment \in Requests
<1> DEFINE last == n - 1
           s == SegmentOf(last)
<1>1. last \in Requests /\ last \in Nat /\ \A c \in Requests : c \in Nat /\ c <= last
  OBVIOUS
<1>2. s \in DOMAIN Segments /\ last \in Segments[s]
  BY <1>1, SegmentOwn
<1>3. DOMAIN Segments \subseteq Requests
  BY DEF Segments
<1>4. \A d \in DOMAIN Segments : d <= s \/ last < d
  BY <1>2 DEF Segments
<1> HIDE DEF s, last
<1>5. \A d \in DOMAIN Segments : d <= s
  BY <1>1, <1>3, <1>4
<1>6. LastSegment \in DOMAIN Segments
  BY <1>2, <1>5 DEF LastSegment
<1>7. QED
  BY <1>3, <1>6

(* The batched products add a row's own terms, with the scaling that the   *)
(* loop has bound.                                                         *)
LEMMA BmmAdds ==
  ASSUME RanksFit, NEW n, RecordServes(lora, n), NEW slot \in Slots,
         slot = "k" /\ ~lora.is_prefill => OneScaling, NEW a \in Outputs(slot)
  PROVE  Bmm(slot)[a] = Load(a) \o OwnTerms(slot, a[2], a[3])
<1> DEFINE row == a[2]
           out == a[3]
           max == lora.max_lora_dim
           A == AdapterOf(row)
           r == rank[A]
           seg == CHOOSE b \in DOMAIN Segments : Request(row) \in Segments[b]
           x(d) == Dot(Input(slot, row), BatchLoraA(seg, slot, d))
           term(d) == Product(x(d), BatchLoraB(seg, slot, out, d), BmmScaling(slot, seg))
           terms == [d \in 0 .. max - 1 |-> term(d)]
<1>1. row \in Tokens /\ out \in 0 .. EMBED - 1 /\ a = <<slot, row, out>>
  BY DEF Outputs
<1>2. Bmm(slot)[a] = Load(a) \o SumOf(terms, max)
  <2>1. a \in {<<slot, y, m>> : y \in Tokens, m \in 0 .. EMBED - 1}
    BY <1>1
  <2>2. QED
    BY <2>1 DEF Bmm
<1>3. /\ n \in Nat /\ Requests = 0 .. n - 1 /\ Request(row) \in Requests
  BY <1>1 DEF RecordServes, RecordOK, Requests, Request, Tokens
<1>4. seg = SegmentOf(Request(row))
  BY DEF SegmentOf
<1>5. lora.adapters[seg] = A
  BY <1>3, <1>4, SegmentOwn DEF AdapterOf
<1>6. BmmScaling(slot, seg) = scaling[A]
  <2>1. CASE slot = "k" /\ ~lora.is_prefill
    <3>1. LastSegment \in Requests
      BY <1>3, LastSegmentIs
    <3>2. BmmScaling(slot, seg) = scaling[lora.adapters[LastSegment]]
      BY <2>1 DEF BmmScaling
    <3>3. scaling[lora.adapters[LastSegment]] = scaling[lora.adapters[Request(row)]]
      BY <1>3, <2>1, <3>1 DEF OneScaling
    <3>4. QED
      BY <3>2, <3>3 DEF AdapterOf
  <2>2. CASE ~ (slot = "k" /\ ~lora.is_prefill)
    BY <1>5, <2>2 DEF BmmScaling
  <2>3. QED
    BY <2>1, <2>2
<1> HIDE DEF row, out, A, seg
<1>7. \A y, s : y # Junk => Product(y, Zero, s) = <<>>
  BY DEF Product, Junk, Zero
<1>8. \A w : w # Junk => Dot(Input(slot, row), w) # Junk
  BY DEF Dot, Junk
<1>9. ASSUME NEW d \in 0 .. max - 1
      PROVE  terms[d] = IF d < r THEN <<TermOf(slot, row, out, d)>> ELSE <<>>
  <2>1. terms[d] = term(d)
    OBVIOUS
  <2>2. CASE d < r
    <3>1. /\ BatchLoraA(seg, slot, d) = WeightA(A, slot, d)
          /\ BatchLoraB(seg, slot, out, d) = WeightB(A, slot, out, d)
      BY <1>5, <2>2 DEF BatchLoraA, BatchLoraB
    <3>2. x(d) = Column(slot, row, d)
      BY <2>2, <3>1 DEF Column, A
    <3> HIDE DEF x, r
    <3>3. Product(x(d), WeightB(AdapterOf(row), slot, out, d), scaling[AdapterOf(row)])
            = <<TermOf(slot, row, out, d)>>
      BY <2>2, <3>2, ProductIs DEF A, r
    <3>4. QED
      BY <1>6, <2>1, <2>2, <3>1, <3>3 DEF A
  <2>3. CASE ~ (d < r)
    <3>1. BatchLoraA(seg, slot, d) = Zero /\ BatchLoraB(seg, slot, out, d) = Zero
      BY <1>5, <2>3 DEF BatchLoraA, BatchLoraB
    <3>2. Zero # Junk
      BY DEF Zero, Junk
    <3>3. x(d) # Junk
      BY <1>8, <3>1, <3>2
    <3> HIDE DEF x, r
    <3>4. QED
      BY <1>7, <2>1, <2>3, <3>1, <3>3
  <2>4. QED
    BY <2>2, <2>3
<1> HIDE DEF terms, term, x
<1>10. SumOf(terms, max) = OwnTerms(slot, row, out)
  BY <1>1, <1>9, OwnSum DEF A
<1>11. QED
  BY <1>2, <1>10 DEF row, out
(* Where the programs of a launch store, whatever the memory holds.        *)
Area(l, p) ==
  LET slot == l[2]
  IN  CASE l[1] \in {"mm", "rotary", "bmm"} -> Outputs(slot)
        [] l[1] = "bgmv_shrink" ->
             {<<delta[slot], p[2], j>> : j \in {p[1]} \cap 0 .. RankSize(Bin(p[2])) - 1}
        [] l[1] = "bgmv_expand" -> {<<slot, p[2], n>> : n \in Rows(p[1], TILE_OUT)}
        [] l[1] = "shrink_fwd" -> BlockStores(delta[slot], p, SHRINK_N)
        [] l[1] = "expand_fwd" -> BlockStores(slot, p, EXPAND_N)

LEMMA OutputsAre ==
  ASSUME NEW slot
  PROVE  {<<slot, row, n>> : row \in Tokens, n \in 0 .. EMBED - 1} = Outputs(slot)
<1> DEFINE T == Tokens
           E == 0 .. EMBED - 1
<1>1. Outputs(slot) = {slot} \X T \X E
  BY DEF Outputs
<1> HIDE DEF T, E
<1>2. {<<slot, row, n>> : row \in T, n \in E} = {slot} \X T \X E
  OBVIOUS
<1>3. QED
  BY <1>1, <1>2 DEF T, E

LEMMA AreaIs ==
  ASSUME NEW e \in {"bgmv", "triton", "bmm"}, NEW l \in AllOf(e), NEW p
  PROVE  DOMAIN Stores(l, p) = Area(l, p)
<1>1. l[1] \in {"mm", "rotary", "bmm", "bgmv_shrink", "bgmv_expand", "shrink_fwd", "expand_fwd"}
  BY TurnsOf DEF ExpandOf, ShrinkOf
<1>2. CASE l[1] = "mm"
  BY <1>2 DEF Stores, Area
<1>3. CASE l[1] = "rotary"
  BY <1>3 DEF Stores, Area
<1>4. CASE l[1] = "bmm"
  <2>1. DOMAIN Stores(l, p) = {<<l[2], row, n>> : row \in Tokens, n \in 0 .. EMBED - 1}
    BY <1>4 DEF Stores, Bmm
  <2>2. Area(l, p) = Outputs(l[2])
    BY <1>4 DEF Area
  <2>3. QED
    BY <2>1, <2>2, OutputsAre
<1>5. CASE l[1] = "bgmv_shrink"
  BY <1>5 DEF Stores, Area, BgmvShrink
<1>6. CASE l[1] = "bgmv_expand"
  BY <1>6 DEF Stores, Area, BgmvExpand
<1>7. CASE l[1] = "shrink_fwd"
  BY <1>7 DEF Stores, Area, ShrinkFwd, BlockStores
<1>8. CASE l[1] = "expand_fwd"
  BY <1>8 DEF Stores, Area, ExpandFwd, BlockStores
<1>9. QED
  BY <1>1, <1>2, <1>3, <1>4, <1>5, <1>6, <1>7, <1>8

(* A place is in a tile, and the tiles up to a length have all below it.   *)
LEMMA TileOf ==
  ASSUME NEW block \in Nat \ {0}, NEW n \in Nat, NEW x \in 0 .. n - 1
  PROVE  /\ x \div block \in 0 .. CDiv(n, block) - 1
         /\ x \in Rows(x \div block, block)
         /\ n % block = 0 => x \div block \in 0 .. n \div block - 1
<1> DEFINE q == x \div block
           s == x % block
           c == CDiv(n, block)
<1>1. q \in Nat /\ s \in Nat /\ s < block /\ q * block + s = x /\ x \in Nat
  BY DivModOf
<1>2. q * block \in Nat
  BY <1>1, ProductNat
<1>3. x \in Rows(q, block)
  <2> DEFINE Q == q * block
  <2>1. Q \in Nat /\ Q + s = x
    BY <1>1, <1>2
  <2> HIDE DEF Q, q, s
  <2>2. x \in Q .. Q + block - 1
    BY <1>1, <2>1
  <2>3. QED
    BY <2>2 DEF Rows, Q
<1>4. q < c
  <2> DEFINE t == n + block - 1
             u == t \div block
             v == t % block
  <2>1. t \in Nat
    OBVIOUS
  <2>2. u \in Nat /\ v \in Nat /\ v < block /\ u * block + v = t
    <3> HIDE DEF t
    <3>1. QED
      BY <2>1, DivModOf
  <2>3. c = u
    BY DEF CDiv
  <2>4. u * block \in Nat
    BY <2>2, ProductNat
  <2>5. ASSUME u <= q PROVE u * block <= q * block
    <3> HIDE DEF u, q
    <3>1. block * u <= block * q /\ block * u = u * block /\ block * q = q * block
      BY <1>1, <2>2, <2>5, ProductGrows
    <3>2. QED
      BY <3>1
  <2> DEFINE Q == q * block
             U == u * block
  <2>6. /\ Q \in Nat /\ U \in Nat /\ U + v = n + block - 1 /\ Q + s = x /\ x < n
        /\ u <= q => U <= Q
    BY <1>1, <1>2, <2>2, <2>4, <2>5
  <2> HIDE DEF Q, U, u, v, q, s, c
  <2>7. ~ (u <= q)
    BY <1>1, <2>2, <2>6
  <2>8. QED
    BY <1>1, <2>2, <2>3, <2>7
<1>5. c \in Nat /\ (n % block = 0 => c = n \div block)
  BY TilesEnd
<1> HIDE DEF q, c
<1>6. q \in 0 .. c - 1
  BY <1>1, <1>4, <1>5
<1>7. n % block = 0 => q \in 0 .. n \div block - 1
  BY <1>5, <1>6
<1>8. QED
  BY <1>3, <1>6, <1>7 DEF q, c
(* The programs of a launch leave out no output of its slot and no column  *)
(* of a row's deltas that the expansion adds.                              *)
Columns(row) == IF engine = "triton" THEN lora.max_lora_dim ELSE rank[AdapterOf(row)]

LoraReady(n) ==
  /\ LoraInv /\ RecordServes(lora, n)
  /\ Ordered(launches, engine)
  /\ grid \subseteq Programs(Head(launches))

LEMMA RowBlockOf ==
  ASSUME NEW n, RecordServes(lora, n), lora.is_prefill, NEW row \in Tokens
  PROVE  \E b \in Requests, m \in RowBlocks(lora.max_b_seq_len) : row \in BlockRows(b, m)
<1> DEFINE len == lora.b_seq_len
<1>1. /\ n \in Nat /\ len \in [0 .. n - 1 -> Nat] /\ Requests = 0 .. n - 1
      /\ DOMAIN lora.request = 0 .. SumTo(len, n) - 1
      /\ \A b \in 0 .. n - 1 : lora.b_start_loc[b] = SumTo(len, b)
      /\ \A b \in 0 .. n - 1 : len[b] <= lora.max_b_seq_len
      /\ lora.max_b_seq_len \in Nat
  BY DEF RecordServes, RecordOK, Requests
<1>2. TILE_M \in Nat \ {0}
  BY RankAssumption DEF RankAssumption
<1>3. row \in 0 .. SumTo(len, n) - 1
  BY <1>1 DEF Tokens
<1>4. PICK b \in 0 .. n - 1 : \E j \in 0 .. len[b] - 1 : row = SumTo(len, b) + j
  <2> HIDE DEF len
  <2>1. QED
    BY <1>1, <1>3, PartsCover
<1>5. PICK j \in 0 .. len[b] - 1 : row = SumTo(len, b) + j
  BY <1>4
<1>6. len[b] \in Nat /\ len[b] <= lora.max_b_seq_len
  BY <1>1
<1>7. j \in Nat /\ j < len[b] /\ j \in 0 .. lora.max_b_seq_len - 1
  BY <1>1, <1>6
<1>8. /\ j \div TILE_M \in 0 .. CDiv(lora.max_b_seq_len, TILE_M) - 1
      /\ j \in Rows(j \div TILE_M, TILE_M)
  BY <1>1, <1>2, <1>7, TileOf
<1>9. row \in BlockRows(b, j \div TILE_M)
  BY <1>1, <1>5, <1>7, <1>8 DEF BlockRows
<1>10. QED
  BY <1>1, <1>8, <1>9 DEF RowBlocks

LEMMA DeltasCovered ==
  ASSUME RanksFit, NEW n, LoraReady(n), engine # "bmm", NEW slot \in Slots, NEW row \in Tokens,
         NEW d \in 0 .. Columns(row) - 1
  PROVE  \E p \in Programs(<<ShrinkOf(engine), slot>>) :
           <<delta[slot], row, d>> \in Area(<<ShrinkOf(engine), slot>>, p)
<1> DEFINE l == <<ShrinkOf(engine), slot>>
<1>1. RecordServes(lora, n) /\ engine \in {"bgmv", "triton"}
  BY DEF LoraReady, LoraInv
<1>2. /\ lora.max_lora_dim \in Nat /\ rank[AdapterOf(row)] \in 1 .. lora.max_lora_dim
      /\ RankSize(Bin(row)) = rank[AdapterOf(row)]
  BY <1>1, RowServed
<1>3. d \in 0 .. lora.max_lora_dim - 1
  BY <1>2 DEF Columns
<1>4. CASE engine = "bgmv"
  <2> DEFINE p == <<d, row>>
  <2>1. p \in Programs(l)
    BY <1>3, <1>4 DEF Programs, ShrinkOf, BgmvShrinkGrid
  <2>2. Area(l, p) = {<<delta[slot], p[2], j>> : j \in {p[1]} \cap 0 .. RankSize(Bin(p[2])) - 1}
    BY <1>4 DEF Area, ShrinkOf
  <2>3. d \in {p[1]} \cap 0 .. RankSize(Bin(p[2])) - 1
    BY <1>2, <1>4 DEF Columns
  <2>4. <<delta[slot], row, d>> \in Area(l, p)
    BY <2>2, <2>3
  <2>5. QED
    BY <2>1, <2>4
<1>5. CASE engine = "triton"
  <2>1. lora.is_prefill
    BY <1>5 DEF LoraReady, LoraInv
  <2>2. PICK b \in Requests, m \in RowBlocks(lora.max_b_seq_len) : row \in BlockRows(b, m)
    BY <1>1, <2>1, RowBlockOf
  <2>3. SHRINK_N \in Nat \ {0}
    BY RankAssumption DEF RankAssumption
  <2> DEFINE t == d \div SHRINK_N
             p == <<b, t, m>>
  <2>4. t \in 0 .. CDiv(lora.max_lora_dim, SHRINK_N) - 1 /\ d \in Rows(t, SHRINK_N)
    BY <1>2, <1>3, <2>3, TileOf
  <2> HIDE DEF t
  <2>5. p \in Programs(l)
    BY <1>5, <2>4 DEF Programs, ShrinkOf, ShrinkGrid
  <2>6. Area(l, p) = BlockStores(delta[slot], p, SHRINK_N)
    BY <1>5 DEF Area, ShrinkOf
  <2>7. <<delta[slot], row, d>> \in Area(l, p)
    BY <2>2, <2>4, <2>6 DEF BlockStores
  <2>8. QED
    BY <2>5, <2>7
<1>6. QED
  BY <1>1, <1>4, <1>5

LEMMA OutputsCovered ==
  ASSUME NEW n, LoraReady(n), NEW l \in AllOf(engine), l[1] # ShrinkOf(engine), NEW a \in Outputs(l[2])
  PROVE  \E p \in Programs(l) : a \in Area(l, p)
<1> DEFINE slot == l[2]
           row == a[2]
           out == a[3]
<1>1. RecordServes(lora, n) /\ engine \in {"bgmv", "triton", "bmm"}
  BY DEF LoraReady, LoraInv
<1>2. l[1] \in {"mm", "rotary", ExpandOf(engine)}
  BY <1>1, TurnsOf
<1>3. a = <<slot, row, out>> /\ row \in Tokens /\ out \in 0 .. EMBED - 1
  BY DEF Outputs
<1>4. /\ EMBED \in Nat /\ TILE_OUT \in Nat \ {0} /\ EXPAND_N \in Nat \ {0}
      /\ EMBED % TILE_OUT = 0
  BY RankAssumption DEF RankAssumption
<1>5. CASE l[1] \in {"mm", "rotary", "bmm"}
  <2>1. Programs(l) = {<<0>>} /\ \A p : Area(l, p) = Outputs(slot)
    BY <1>5 DEF Programs, Area
  <2>2. QED
    BY <2>1
<1> HIDE DEF row, out
<1>6. CASE l[1] = "bgmv_expand"
  <2> DEFINE t == out \div TILE_OUT
             p == <<t, row>>
  <2>1. t \in 0 .. EMBED \div TILE_OUT - 1 /\ out \in Rows(t, TILE_OUT)
    BY <1>3, <1>4, TileOf
  <2> HIDE DEF t
  <2>2. p \in Programs(l)
    BY <1>3, <1>6, <2>1 DEF Programs, BgmvExpandGrid
  <2>3. Area(l, p) = {<<slot, p[2], m>> : m \in Rows(p[1], TILE_OUT)}
    BY <1>6 DEF Area
  <2>4. a \in Area(l, p)
    BY <1>3, <2>1, <2>3
  <2>5. QED
    BY <2>2, <2>4
<1>7. CASE l[1] = "expand_fwd"
  <2>1. lora.is_prefill
    BY <1>1, <1>2, <1>7 DEF LoraReady, LoraInv, ExpandOf
  <2>2. PICK b \in Requests, m \in RowBlocks(lora.max_b_seq_len) : row \in BlockRows(b, m)
    BY <1>1, <1>3, <2>1, RowBlockOf
  <2> DEFINE t == out \div EXPAND_N
             p == <<b, t, m>>
  <2>3. t \in 0 .. CDiv(EMBED, EXPAND_N) - 1 /\ out \in Rows(t, EXPAND_N)
    BY <1>3, <1>4, TileOf
  <2> HIDE DEF t
  <2>4. p \in Programs(l)
    BY <1>7, <2>3 DEF Programs, ExpandGrid
  <2>5. Area(l, p) = BlockStores(slot, p, EXPAND_N)
    BY <1>7 DEF Area
  <2>6. a \in Area(l, p)
    BY <1>3, <2>2, <2>3, <2>5 DEF BlockStores
  <2>7. QED
    BY <2>4, <2>6
<1>8. QED
  BY <1>2, <1>5, <1>6, <1>7 DEF ExpandOf
(* What a program of the shrink, and of the expansion, stores.             *)
LEMMA ShrinkMakes ==
  ASSUME RanksFit, NEW n, LoraReady(n), engine # "bmm", NEW slot \in Slots, NEW row \in Tokens,
         NEW d \in 0 .. Columns(row) - 1, NEW p \in Programs(<<ShrinkOf(engine), slot>>),
         <<delta[slot], row, d>> \in Area(<<ShrinkOf(engine), slot>>, p)
  PROVE  Stores(<<ShrinkOf(engine), slot>>, p)[<<delta[slot], row, d>>] = Column(slot, row, d)
<1> DEFINE l == <<ShrinkOf(engine), slot>>
           a == <<delta[slot], row, d>>
           A == AdapterOf(row)
           i == Bin(row)
<1>1. RecordServes(lora, n) /\ engine \in {"bgmv", "triton"}
  BY DEF LoraReady, LoraInv
<1>2. /\ RankSize(i) = rank[A] /\ lora.adapter_dirs[i] = A /\ rank[A] \in Nat
      /\ \A k \in 0 .. rank[A] - 1 : CellHolds(i, slot, k)
  BY <1>1, RowServed
<1>3. d \in Nat
  OBVIOUS
<1> HIDE DEF i, A
<1>4. ASSUME d < rank[A] PROVE KeyBuffer(Cell(i, slot, d)) = WeightA(A, slot, d)
  <2>1. d \in 0 .. rank[A] - 1
    BY <1>2, <1>3, <1>4
  <2>2. CellHolds(i, slot, d)
    BY <1>2, <2>1
  <2>3. QED
    BY <1>2, <2>2 DEF CellHolds
<1>5. CASE engine = "bgmv"
  <2>1. Stores(l, p) = BgmvShrink(p, slot)
    BY <1>5 DEF Stores, ShrinkOf
  <2>2. Area(l, p) = {<<delta[slot], p[2], j>> : j \in {p[1]} \cap 0 .. RankSize(Bin(p[2])) - 1}
    BY <1>5 DEF Area, ShrinkOf
  <2>3. p[2] = row
    BY <2>2
  <2>4. a \in {<<delta[slot], p[2], j>> : j \in {p[1]} \cap 0 .. RankSize(Bin(p[2])) - 1}
    BY <2>2
  <2>5. BgmvShrink(p, slot)[a] = Dot(Input(slot, p[2]), KeyBuffer(Cell(Bin(p[2]), slot, a[3])))
    BY <2>4 DEF BgmvShrink
  <2>6. BgmvShrink(p, slot)[a] = Dot(Input(slot, row), KeyBuffer(Cell(i, slot, d)))
    BY <2>3, <2>5 DEF i
  <2>7. d < rank[A]
    BY <1>2, <1>3, <1>5 DEF Columns, A
  <2>8. QED
    BY <1>4, <2>1, <2>6, <2>7 DEF Column, A
<1>6. CASE engine = "triton"
  <2>1. Stores(l, p) = ShrinkFwd(p, slot) /\ p \in ShrinkGrid /\ lora.is_prefill
    BY <1>6 DEF Stores, ShrinkOf, Programs, LoraReady, LoraInv
  <2>2. a \in BlockStores(delta[slot], p, SHRINK_N)
    BY <1>6 DEF Area, ShrinkOf
  <2>3. row \in BlockRows(p[1], p[3])
    BY <2>2 DEF BlockStores
  <2>4. p[1] \in Requests /\ p[3] \in Nat
    BY <2>1 DEF ShrinkGrid, RowBlocks
  <2>5. Request(row) = p[1]
    BY <1>1, <2>1, <2>3, <2>4, BlockRequest
  <2>6. lora.req_bins[p[1]] = i
    BY <2>5 DEF i, Bin
  <2>7. a \in {<<delta[slot], y, j>> : y \in BlockRows(p[1], p[3]), j \in Rows(p[2], SHRINK_N)}
    BY <2>2 DEF BlockStores
  <2>8. ShrinkFwd(p, slot)[a] =
          IF d < RankSize(lora.req_bins[p[1]])
            THEN Dot(Input(slot, row), KeyBuffer(Cell(lora.req_bins[p[1]], slot, d))) ELSE Zero
    BY <2>7 DEF ShrinkFwd
  <2>9. QED
    BY <1>2, <1>4, <2>1, <2>6, <2>8 DEF Column, A
<1>7. QED
  BY <1>1, <1>5, <1>6

LEMMA AreaIn ==
  ASSUME NEW n, LoraReady(n), NEW l \in AllOf(engine), NEW p \in Programs(l)
  PROVE  /\ l[1] = ShrinkOf(engine) => \A a \in Area(l, p) : a[1] = delta[l[2]]
         /\ l[1] # ShrinkOf(engine) => Area(l, p) \subseteq Outputs(l[2])
<1>1. RecordOK(lora, n) /\ engine \in {"bgmv", "triton", "bmm"}
  BY DEF LoraReady, LoraInv, RecordServes
<1>2. /\ l[1] \in {"mm", ExpandOf(engine), "rotary"} \/ (engine # "bmm" /\ l[1] = ShrinkOf(engine))
      /\ l[2] \in Slots
  BY <1>1, TurnsOf
<1>3. CASE l[1] \in {"mm", "rotary", "bmm"}
  <2>1. Area(l, p) = Outputs(l[2]) /\ l[1] # ShrinkOf(engine)
    BY <1>3 DEF Area, ShrinkOf
  <2>2. QED
    BY <2>1
<1>4. CASE l[1] \in {"bgmv_shrink", "shrink_fwd"}
  <2>1. \A a \in Area(l, p) : a[1] = delta[l[2]]
    <3>1. CASE l[1] = "bgmv_shrink"
      BY <3>1 DEF Area
    <3>2. CASE l[1] = "shrink_fwd"
      BY <3>2 DEF Area, BlockStores
    <3>3. QED
      BY <1>4, <3>1, <3>2
  <2>2. l[1] = ShrinkOf(engine)
    BY <1>2, <1>4 DEF ExpandOf
  <2>3. QED
    BY <2>1, <2>2
<1>5. CASE l[1] = "bgmv_expand"
  <2>1. p \in BgmvExpandGrid /\ Stores(l, p) = BgmvExpand(p, l[2])
    BY <1>5 DEF Programs, Stores
  <2>2. DOMAIN Stores(l, p) \subseteq Outputs(l[2])
    BY <1>2, <2>1, BgmvExpandOwn
  <2>3. Area(l, p) \subseteq Outputs(l[2])
    BY <1>1, <2>2, AreaIs
  <2>4. l[1] # ShrinkOf(engine)
    BY <1>5 DEF ShrinkOf
  <2>5. QED
    BY <2>3, <2>4
<1>6. CASE l[1] = "expand_fwd"
  <2>0. lora.is_prefill
    BY <1>1, <1>2, <1>6 DEF LoraReady, LoraInv, ExpandOf, ShrinkOf
  <2>1. p \in ExpandGrid /\ Stores(l, p) = ExpandFwd(p, l[2])
    BY <1>6 DEF Programs, Stores
  <2>2. DOMAIN Stores(l, p) \subseteq Outputs(l[2])
    BY <1>1, <1>2, <2>0, <2>1, ExpandOwn
  <2>3. Area(l, p) \subseteq Outputs(l[2])
    BY <1>1, <2>2, AreaIs
  <2>4. l[1] # ShrinkOf(engine)
    BY <1>6 DEF ShrinkOf
  <2>5. QED
    BY <2>3, <2>4
<1>7. QED
  BY <1>2, <1>3, <1>4, <1>5, <1>6 DEF ExpandOf, ShrinkOf

(* The outputs that the model computes as it should: all but k in a decode *)
(* with --bmm of adapters that differ in their scaling.                    *)
Served(slot) == engine = "bmm" /\ slot = "k" /\ ~lora.is_prefill => OneScaling

LEMMA ExpandMakes ==
  ASSUME RanksFit, NEW n, LoraReady(n), NEW slot \in Slots, Served(slot),
         NEW p \in Programs(<<ExpandOf(engine), slot>>),
         NEW a \in Area(<<ExpandOf(engine), slot>>, p),
         engine # "bmm" => ColumnsReady(slot, a[2], Columns(a[2]))
  PROVE  Stores(<<ExpandOf(engine), slot>>, p)[a] = Load(a) \o OwnTerms(slot, a[2], a[3])
<1> DEFINE l == <<ExpandOf(engine), slot>>
<1>1. RecordServes(lora, n) /\ engine \in {"bgmv", "triton", "bmm"}
  BY DEF LoraReady, LoraInv
<1>2. l \in AllOf(engine)
  BY DEF AllOf
<1>3. a \in DOMAIN Stores(l, p)
  BY <1>1, <1>2, AreaIs
<1>4. CASE engine = "bmm"
  <2>1. Stores(l, p) = Bmm(slot)
    BY <1>4 DEF Stores, ExpandOf
  <2>2. a \in Outputs(slot)
    BY <1>4 DEF Area, ExpandOf
  <2>3. QED
    BY <1>1, <1>4, <2>1, <2>2, BmmAdds DEF Served
<1>5. CASE engine = "bgmv"
  <2>1. Stores(l, p) = BgmvExpand(p, slot) /\ p \in BgmvExpandGrid
    BY <1>5 DEF Stores, ExpandOf, Programs
  <2>2. a[2] = p[2]
    <3>1. Area(l, p) = {<<slot, p[2], m>> : m \in Rows(p[1], TILE_OUT)}
      BY <1>5 DEF Area, ExpandOf
    <3>2. QED
      BY <3>1
  <2>3. ColumnsReady(slot, p[2], rank[AdapterOf(p[2])])
    BY <1>5, <2>2 DEF Columns
  <2>4. QED
    BY <1>1, <1>3, <2>1, <2>3, BgmvAdds, ZenonT(40)
<1>6. CASE engine = "triton"
  <2>1. Stores(l, p) = ExpandFwd(p, slot) /\ p \in ExpandGrid /\ lora.is_prefill
    BY <1>6 DEF Stores, ExpandOf, Programs, LoraReady, LoraInv
  <2>2. ColumnsReady(slot, a[2], lora.max_lora_dim)
    BY <1>6 DEF Columns
  <2>3. a \in DOMAIN ExpandFwd(p, slot)
    BY <1>3, <2>1
  <2>4. ExpandFwd(p, slot)[a] = Load(a) \o OwnTerms(slot, a[2], a[3])
    BY <1>1, <2>1, <2>2, <2>3, ExpandAdds
  <2>5. QED
    BY <2>1, <2>4
<1>7. QED
  BY <1>1, <1>4, <1>5, <1>6
(* What has been stored in this layer: by the launches that are over and   *)
(* by the programs of the current one that have run.                       *)
Stored(l, a) ==
  \/ Turn(l) < Turn(Head(launches))
  \/ l = Head(launches) /\ \E p \in Programs(l) \ grid : a \in Area(l, p)

Based(slot, a) == Stored(<<"mm", slot>>, a)
Added(slot, a) == Stored(<<ExpandOf(engine), slot>>, a)
WasRotated(slot, a) == slot \in {"q", "k"} /\ Stored(<<"rotary", slot>>, a)
OwnValue(slot, a) == <<Base(a)>> \o OwnTerms(slot, a[2], a[3])
OutputValue(slot, a) ==
  IF WasRotated(slot, a) THEN OwnValue(slot, a) \o <<<<"rotated">>>>
  ELSE IF Added(slot, a) THEN OwnValue(slot, a) ELSE <<Base(a)>>

(* An output is what its launches so far make of it; the deltas are the    *)
(* row's own from their shrink to the end of their expansion, whatever     *)
(* other slots and layers leave in the same buffer.                        *)
OutputsOwn ==
  \A slot \in Slots : Served(slot) =>
    \A a \in Outputs(slot) : Based(slot, a) => Load(a) = OutputValue(slot, a)
DeltasOwn ==
  engine # "bmm" =>
    \A slot \in Slots, row \in Tokens : \A d \in 0 .. Columns(row) - 1 :
      /\ Turn(<<ExpandOf(engine), slot>>) >= Turn(Head(launches))
      /\ Stored(<<ShrinkOf(engine), slot>>, <<delta[slot], row, d>>)
      => Load(<<delta[slot], row, d>>) = Column(slot, row, d)
LoraValues == (\E n : LoraReady(n)) /\ OutputsOwn /\ DeltasOwn

LEMMA TurnNumbers ==
  ASSUME NEW e \in {"bgmv", "triton", "bmm"}, NEW slot \in Slots
  PROVE  /\ qkvo[slot] \in Nat
         /\ Turn(<<"mm", slot>>) = 4 * qkvo[slot] + 1
         /\ Turn(<<ShrinkOf(e), slot>>) = 4 * qkvo[slot] + 2
         /\ Turn(<<ExpandOf(e), slot>>) = 4 * qkvo[slot] + 3
         /\ Turn(<<"rotary", slot>>) = 4 * qkvo[slot] + 4
BY SlotNumbers, Stages DEF Turn

(* The numbers of slots differ.                                            *)
LEMMA NumbersDiffer ==
  ASSUME NEW slot \in Slots, NEW other \in Slots, slot # other
  PROVE  qkvo[slot] # qkvo[other]
BY SlotNumbers

(* What only the record and the engine determine does not change with the  *)
(* memory.                                                                 *)
LEMMA Fixed ==
  ASSUME lora' = lora, engine' = engine
  PROVE  /\ \A l, p : Area(l, p)' = Area(l, p)
         /\ \A l : Programs(l)' = Programs(l)
         /\ \A slot : Outputs(slot)' = Outputs(slot)
         /\ \A slot : Served(slot)' <=> Served(slot)
         /\ Tokens' = Tokens
         /\ \A row : Columns(row)' = Columns(row)
         /\ \A slot, row, d : Column(slot, row, d)' = Column(slot, row, d)
         /\ \A slot, a : OwnValue(slot, a)' = OwnValue(slot, a)
         /\ \A a : Base(a)' = Base(a)
         /\ \A n : RecordServes(lora, n)' <=> RecordServes(lora, n)
<1>1. \A l, p : Area(l, p)' = Area(l, p)
  BY DEF Area, Outputs, Tokens, RankSize, ALen, Bin, Request, BlockStores, BlockRows
<1>2. \A l : Programs(l)' = Programs(l)
  BY DEF Programs, BgmvShrinkGrid, BgmvExpandGrid, ShrinkGrid, ExpandGrid, Tokens, Requests
<1>3. \A slot : Outputs(slot)' = Outputs(slot)
  BY DEF Outputs, Tokens
<1>4. \A slot : Served(slot)' <=> Served(slot)
  BY DEF Served, OneScaling, Requests
<1>5. Tokens' = Tokens
  BY DEF Tokens
<1>6. \A row : Columns(row)' = Columns(row)
  BY DEF Columns, AdapterOf, Request
<1>7. \A slot, row, d : Column(slot, row, d)' = Column(slot, row, d)
  BY DEF Column, AdapterOf, Request, Dot, Input, WeightA, Zero
<1>8. \A slot, a : OwnValue(slot, a)' = OwnValue(slot, a)
  BY DEF OwnValue, Base, OwnTerms, Request, Input, WeightA, WeightB
<1>9. \A a : Base(a)' = Base(a)
  BY DEF Base
<1>10. \A n : RecordServes(lora, n)' <=> RecordServes(lora, n)
  BY DEF RecordServes, RecordOK
<1>11. QED
  BY <1>1, <1>2, <1>3, <1>4, <1>5, <1>6, <1>7, <1>8, <1>9, <1>10
(* A program runs: what it stores to, and that nobody stored there.        *)
Ran(n, p) ==
  /\ LoraReady(n) /\ p \in grid /\ p \in Programs(Head(launches)) /\ Head(launches) \in AllOf(engine)
  /\ lora' = lora /\ engine' = engine /\ launches' = launches /\ grid' = grid \ {p}
  /\ \A a : Load(a)' = IF a \in Area(Head(launches), p)
                       THEN Stores(Head(launches), p)[a] ELSE Load(a)
  /\ \A l, a : Stored(l, a)' <=>
                 Stored(l, a) \/ (l = Head(launches) /\ a \in Area(Head(launches), p))
  /\ \A a \in Area(Head(launches), p) : ~ Stored(Head(launches), a)

LEMMA RunRan ==
  ASSUME NEW n, LoraReady(n), NEW p \in grid, RunLora(p)
  PROVE  Ran(n, p)
<1> DEFINE h == Head(launches)
           stores == Stores(h, p)
<1>1. engine \in {"bgmv", "triton", "bmm"} /\ Ordered(launches, engine) /\ p \in Programs(h) /\ LoraInv
  BY DEF LoraReady, LoraInv
<1>2. h \in AllOf(engine)
  BY <1>1, LastTurn
<1>3. /\ lora' = lora /\ engine' = engine /\ launches' = launches /\ grid' = grid \ {p}
      /\ memory' = [a \in DOMAIN stores \cup DOMAIN memory |->
                      IF a \in DOMAIN stores THEN stores[a] ELSE memory[a]]
  BY DEF RunLora, Run, engineVars
<1>4. DOMAIN stores = Area(h, p)
  BY <1>1, <1>2, AreaIs
<1>5. ASSUME NEW a PROVE Load(a)' = IF a \in Area(h, p) THEN stores[a] ELSE Load(a)
  <2>1. Load(a)' = IF a \in DOMAIN memory' THEN memory'[a] ELSE Junk
    BY DEF Load, Junk
  <2>2. Load(a) = IF a \in DOMAIN memory THEN memory[a] ELSE Junk
    BY DEF Load
  <2> HIDE DEF stores, h
  <2>3. QED
    BY <1>3, <1>4, <2>1, <2>2
<1>6. ASSUME NEW l, NEW a PROVE Stored(l, a)' <=> Stored(l, a) \/ (l = h /\ a \in Area(h, p))
  <2>1. Stored(l, a)' <=>
          \/ Turn(l) < Turn(h)
          \/ l = h /\ \E r \in Programs(l) \ (grid \ {p}) : a \in Area(l, r)
    <3>1. /\ (Head(launches))' = h /\ Programs(l)' = Programs(l)
          /\ \A r : Area(l, r)' = Area(l, r)
      BY <1>3, Fixed
    <3>2. Turn(l)' = Turn(l)
      BY DEF Turn, qkvo, Stage
    <3>3. Turn(Head(launches))' = Turn(h)
      BY <3>1 DEF Turn, qkvo, Stage
    <3> HIDE DEF h
    <3>4. QED
      BY <1>3, <3>1, <3>2, <3>3 DEF Stored
  <2>2. Stored(l, a) <=>
          \/ Turn(l) < Turn(h)
          \/ l = h /\ \E r \in Programs(l) \ grid : a \in Area(l, r)
    BY DEF Stored
  <2> HIDE DEF h
  <2>3. l = h => ((\E r \in Programs(l) \ (grid \ {p}) : a \in Area(l, r)) <=>
                  ((\E r \in Programs(l) \ grid : a \in Area(l, r)) \/ a \in Area(h, p)))
    BY <1>1
  <2>4. QED
    BY <2>1, <2>2, <2>3
<1>7. ASSUME NEW a \in Area(h, p) PROVE ~ Stored(h, a)
  <2>1. Turn(h) \in Nat
    BY <1>1, <1>2, TurnsOf
  <2>2. ASSUME NEW r \in Programs(h) \ grid PROVE a \notin Area(h, r)
    <3>1. p # r
      OBVIOUS
    <3>2. DOMAIN Stores(h, p) \cap DOMAIN Stores(h, r) = {}
      BY <1>1, <3>1, LoraStoresApart
    <3>3. DOMAIN Stores(h, r) = Area(h, r)
      BY <1>1, <1>2, AreaIs
    <3>4. QED
      BY <1>4, <3>2, <3>3
  <2>3. QED
    BY <2>1, <2>2 DEF Stored
<1>8. QED
  BY <1>1, <1>2, <1>3, <1>5, <1>6, <1>7 DEF Ran
(* Outputs of another slot, and all outputs while the deltas are made,     *)
(* stay as they are.                                                       *)
LEMMA SameOutput ==
  ASSUME NEW n, NEW p, Ran(n, p), NEW slot \in Slots, NEW a \in Outputs(slot),
         a \notin Area(Head(launches), p)
  PROVE  /\ Load(a)' = Load(a)
         /\ Based(slot, a)' <=> Based(slot, a)
         /\ OutputValue(slot, a)' = OutputValue(slot, a)
<1>1. /\ lora' = lora /\ engine' = engine /\ Load(a)' = Load(a)
      /\ \A l : Stored(l, a)' <=> Stored(l, a)
  BY DEF Ran
<1>2. Based(slot, a)' <=> Based(slot, a)
  BY <1>1 DEF Based
<1>3. Added(slot, a)' <=> Added(slot, a)
  <2>1. ExpandOf(engine)' = ExpandOf(engine)
    BY <1>1 DEF ExpandOf
  <2>2. Added(slot, a)' <=> Stored(<<ExpandOf(engine), slot>>, a)'
    BY DEF Added
  <2>3. Stored(<<ExpandOf(engine), slot>>, a)' <=> Stored(<<ExpandOf(engine), slot>>, a)
    BY <1>1, <2>1 DEF Stored
  <2>4. QED
    BY <2>2, <2>3 DEF Added
<1>4. WasRotated(slot, a)' <=> WasRotated(slot, a)
  BY <1>1 DEF WasRotated
<1>5. OwnValue(slot, a)' = OwnValue(slot, a) /\ Base(a)' = Base(a)
  BY <1>1, Fixed
<1>6. OutputValue(slot, a)' = OutputValue(slot, a)
  BY <1>3, <1>4, <1>5 DEF OutputValue
<1>7. QED
  BY <1>1, <1>2, <1>6
LEMMA NameApart ==
  ASSUME NEW slot \in Slots, NEW other \in Slots
  PROVE  delta[other] # slot
BY SlotNumbers DEF delta, Slots

LEMMA OwnIsSeq ==
  ASSUME RanksFit, NEW n, RecordServes(lora, n), NEW slot \in Slots, NEW a \in Outputs(slot)
  PROVE  /\ Append(OwnValue(slot, a), <<"rotated">>) = OwnValue(slot, a) \o <<<<"rotated">>>>
         /\ OwnValue(slot, a) \o <<>> = OwnValue(slot, a)
<1> DEFINE own == OwnTerms(slot, a[2], a[3])
           S == {Base(a), <<"rotated">>} \cup {own[d] : d \in DOMAIN own}
<1>1. own \in Seq({own[d] : d \in DOMAIN own})
  <2> DEFINE r == rank[AdapterOf(a[2])]
             O == {own[d] : d \in DOMAIN own}
  <2>1. a[2] \in Tokens
    BY DEF Outputs
  <2>2. r \in Nat
    BY <2>1, RowServed
  <2>3. DOMAIN own = 1 .. r /\ own = [d \in 1 .. r |-> own[d]]
    BY DEF OwnTerms, AdapterOf
  <2>4. \A d \in 1 .. r : own[d] \in O
    BY <2>3
  <2> HIDE DEF own, r, O
  <2>5. QED
    BY <2>2, <2>3, <2>4 DEF O
<1>2. OwnValue(slot, a) = <<Base(a)>> \o own
  BY DEF OwnValue
<1> HIDE DEF own
<1>3. own \in Seq(S) /\ <<Base(a)>> \in Seq(S) /\ <<"rotated">> \in S
  BY <1>1
<1> HIDE DEF S
<1>4. OwnValue(slot, a) \in Seq(S)
  BY <1>2, <1>3
<1>5. \A s \in Seq(S), x \in S : Append(s, x) = s \o <<x>> /\ s \o <<>> = s
  OBVIOUS
<1>6. QED
  BY <1>3, <1>4, <1>5

LEMMA RunOutputs ==
  ASSUME RanksFit, NEW n, NEW p, Ran(n, p), OutputsOwn, DeltasOwn
  PROVE  OutputsOwn'
<1> DEFINE h == Head(launches)
<1>1. /\ LoraReady(n) /\ p \in grid /\ p \in Programs(h) /\ h \in AllOf(engine)
      /\ lora' = lora /\ engine' = engine
  BY DEF Ran
<1>2. engine \in {"bgmv", "triton", "bmm"}
  BY <1>1 DEF LoraReady, LoraInv
<1>3. SUFFICES ASSUME NEW slot \in Slots, Served(slot), NEW a \in Outputs(slot), Based(slot, a)'
               PROVE  Load(a)' = OutputValue(slot, a)'
  <2>1. /\ \A slot : Outputs(slot)' = Outputs(slot)
        /\ \A slot : Served(slot)' <=> Served(slot)
    BY <1>1, Fixed
  <2>2. QED
    BY <1>3, <2>1 DEF OutputsOwn
<1>4. Based(slot, a) => Load(a) = OutputValue(slot, a)
  BY <1>3 DEF OutputsOwn
<1>5. CASE a \notin Area(h, p)
  BY <1>4, <1>3, <1>5, SameOutput
<1>6. CASE a \in Area(h, p)
  <2> DEFINE e == ExpandOf(engine)
             q == qkvo[slot]
             B == <<"mm", slot>>
             A == <<e, slot>>
             R == <<"rotary", slot>>
             own == OwnTerms(slot, a[2], a[3])
  <2>1. a[1] = slot /\ a[2] \in Tokens
    BY DEF Outputs
  <2>2. h = <<h[1], h[2]>> /\ h[2] \in Slots
    BY <1>1, <1>2, TurnsOf
  <2>3. h[1] # ShrinkOf(engine)
    BY <1>1, <1>6, <2>1, <2>2, AreaIn, NameApart
  <2>4. h[2] = slot
    <3>1. a \in Outputs(h[2])
      BY <1>1, <1>6, <2>3, AreaIn
    <3>2. QED
      BY <2>1, <3>1 DEF Outputs
  <2>5. h \in {B, A, R} /\ (h = R => slot \in {"q", "k"})
    BY <1>1, <1>2, <2>2, <2>3, <2>4, TurnsOf
  <2>6. q \in Nat /\ Turn(B) = 4 * q + 1 /\ Turn(A) = 4 * q + 3 /\ Turn(R) = 4 * q + 4
    BY <1>2, TurnNumbers
  <2>7. B # A /\ B # R /\ A # R
    BY <1>2, Stages
  <2>8. /\ \A l : Stored(l, a)' <=> Stored(l, a) \/ l = h
        /\ ~ Stored(h, a)
        /\ Load(a)' = Stores(h, p)[a]
    BY <1>6 DEF Ran
  <2>9. ExpandOf(engine)' = e /\ Base(a)' = Base(a) /\ OwnValue(slot, a)' = OwnValue(slot, a)
    BY <1>1, Fixed DEF ExpandOf
  <2>10. /\ Added(slot, a)' <=> Stored(A, a) \/ A = h
         /\ WasRotated(slot, a)' <=> slot \in {"q", "k"} /\ (Stored(R, a) \/ R = h)
    <3>1. ASSUME NEW l, l = A PROVE Added(slot, a)' <=> Stored(l, a)'
      <4>1. l = <<ExpandOf(engine)', slot>>
        BY <2>9, <3>1
      <4>2. QED
        BY <4>1 DEF Added
    <3>2. Added(slot, a)' <=> Stored(A, a) \/ A = h
      BY <2>8, <3>1
    <3>3. WasRotated(slot, a)' <=> slot \in {"q", "k"} /\ Stored(R, a)'
      BY DEF WasRotated
    <3>4. QED
      BY <2>8, <3>2, <3>3
  <2>11. OutputValue(slot, a)' =
           IF WasRotated(slot, a)' THEN OwnValue(slot, a) \o <<<<"rotated">>>>
           ELSE IF Added(slot, a)' THEN OwnValue(slot, a) ELSE <<Base(a)>>
    BY <2>9 DEF OutputValue
  <2>12. \A l : l # h => (Stored(l, a) <=> Turn(l) < Turn(h))
    BY DEF Stored
  <2>13. CASE h = B
    <3>1. ~ Added(slot, a)' /\ ~ WasRotated(slot, a)'
      <4> HIDE DEF A, B, R, q, h
      <4>1. QED
        BY <2>6, <2>7, <2>10, <2>12, <2>13
    <3>2. Stores(h, p)[a] = <<Base(a)>>
      <4>1. h[1] = "mm" /\ h[2] = slot
        BY <2>13
      <4>2. Stores(h, p) = [x \in Outputs(slot) |-> <<Base(x)>>]
        BY <4>1 DEF Stores
      <4>3. QED
        BY <4>2
    <3>3. QED
      BY <2>8, <2>11, <3>1, <3>2
  <2>14. CASE h = A
    <3>1. Added(slot, a)' /\ ~ WasRotated(slot, a)' /\ Stored(B, a) /\ ~ Stored(A, a)
          /\ (slot \in {"q", "k"} => ~ Stored(R, a))
      <4> HIDE DEF A, B, R, q, h
      <4>1. QED
        BY <2>6, <2>7, <2>8, <2>10, <2>12, <2>14
    <3>2. Load(a) = <<Base(a)>>
      BY <1>4, <3>1 DEF Based, OutputValue, Added, WasRotated
    <3>3. ASSUME engine # "bmm" PROVE ColumnsReady(slot, a[2], Columns(a[2]))
      <4> DEFINE w == <<ShrinkOf(engine), slot>>
      <4>1. Turn(w) = 4 * q + 2
        BY <1>2, TurnNumbers
      <4>2. Turn(w) < Turn(h) /\ Turn(A) >= Turn(h)
        <5> HIDE DEF w, A, q, h
        <5>1. QED
          BY <2>6, <2>14, <4>1
      <4>3. \A x : Stored(w, x)
        BY <4>2 DEF Stored
      <4>4. \A d \in 0 .. Columns(a[2]) - 1 :
              Load(<<delta[slot], a[2], d>>) = Column(slot, a[2], d)
        BY <2>1, <3>3, <4>2, <4>3 DEF DeltasOwn
      <4>5. QED
        BY <4>4 DEF ColumnsReady
    <3>4. Stores(h, p)[a] = Load(a) \o own
      <4>1. p \in Programs(A) /\ a \in Area(A, p)
        BY <1>1, <1>6, <2>14
      <4>2. Stores(A, p)[a] = Load(a) \o own
        BY <1>1, <1>3, <3>3, <4>1, ExpandMakes
      <4>3. QED
        BY <2>14, <4>2
    <3>5. OwnValue(slot, a) = <<Base(a)>> \o own
      BY DEF OwnValue
    <3> HIDE DEF own, A, B, R, h, q, e
    <3>6. QED
      BY <2>8, <2>11, <3>1, <3>2, <3>4, <3>5
  <2>15. CASE h = R
    <3>1. WasRotated(slot, a)' /\ Stored(B, a) /\ Stored(A, a) /\ ~ Stored(R, a)
      <4> HIDE DEF A, B, R, q, h
      <4>1. QED
        BY <2>5, <2>6, <2>7, <2>8, <2>10, <2>12, <2>15
    <3>2. Load(a) = OwnValue(slot, a)
      BY <1>4, <3>1 DEF Based, OutputValue, Added, WasRotated
    <3>3. Stores(h, p)[a] = Append(Load(a), <<"rotated">>)
      <4>1. h[1] = "rotary" /\ h[2] = slot
        BY <2>15
      <4>2. Stores(h, p) = [x \in Outputs(slot) |-> Append(Load(x), <<"rotated">>)]
        BY <4>1 DEF Stores
      <4>3. QED
        BY <4>2
    <3>4. Append(OwnValue(slot, a), <<"rotated">>) = OwnValue(slot, a) \o <<<<"rotated">>>>
      BY <1>1, OwnIsSeq DEF LoraReady
    <3> HIDE DEF own, A, B, R, h, q, e
    <3>5. QED
      BY <2>8, <2>11, <3>1, <3>2, <3>3, <3>4
  <2>16. QED
    BY <2>5, <2>13, <2>14, <2>15
<1>7. QED
  BY <1>5, <1>6
LEMMA RunDeltas ==
  ASSUME RanksFit, NEW n, NEW p, Ran(n, p), DeltasOwn
  PROVE  DeltasOwn'
<1> DEFINE h == Head(launches)
<1>1. /\ LoraReady(n) /\ p \in grid /\ p \in Programs(h) /\ h \in AllOf(engine)
      /\ lora' = lora /\ engine' = engine /\ launches' = launches
  BY DEF Ran
<1>2. engine \in {"bgmv", "triton", "bmm"}
  BY <1>1 DEF LoraReady, LoraInv
<1>3. SUFFICES ASSUME engine # "bmm", NEW slot \in Slots, NEW row \in Tokens,
                      NEW d \in 0 .. Columns(row) - 1, NEW w, w = <<ShrinkOf(engine), slot>>,
                      Turn(<<ExpandOf(engine), slot>>) >= Turn(h),
                      Stored(w, <<delta[slot], row, d>>)'
               PROVE  Load(<<delta[slot], row, d>>)' = Column(slot, row, d)
  <2>1. /\ Tokens' = Tokens
        /\ \A row : Columns(row)' = Columns(row)
        /\ \A slot, row, d : Column(slot, row, d)' = Column(slot, row, d)
    BY <1>1, Fixed
  <2>2. SUFFICES ASSUME engine # "bmm", NEW slot \in Slots, NEW row \in Tokens,
                        NEW d \in 0 .. Columns(row) - 1,
                        (Turn(<<ExpandOf(engine), slot>>) >= Turn(Head(launches)))',
                        Stored(<<ShrinkOf(engine), slot>>, <<delta[slot], row, d>>)'
                 PROVE  Load(<<delta[slot], row, d>>)' = Column(slot, row, d)
    BY <1>1, <2>1 DEF DeltasOwn
  <2>3. Turn(<<ExpandOf(engine), slot>>) >= Turn(h)
    BY <1>1, <2>2 DEF Turn, ExpandOf, Stage, qkvo
  <2>4. ASSUME NEW w, w = <<ShrinkOf(engine), slot>>
        PROVE  Stored(w, <<delta[slot], row, d>>)'
    <3>1. w = <<ShrinkOf(engine)', slot>>
      BY <1>1, <2>4 DEF ShrinkOf
    <3>2. QED
      BY <2>2, <3>1
  <2>5. QED
    BY <1>3, <2>2, <2>3, <2>4
<1> DEFINE a == <<delta[slot], row, d>>
           q == qkvo[slot]
<1>4. /\ Load(a)' = IF a \in Area(h, p) THEN Stores(h, p)[a] ELSE Load(a)
      /\ Stored(w, a)' <=> Stored(w, a) \/ (w = h /\ a \in Area(h, p))
  BY DEF Ran
<1>5. Stored(w, a) => Load(a) = Column(slot, row, d)
  BY <1>3 DEF DeltasOwn
<1>6. h = <<h[1], h[2]>> /\ h[2] \in Slots
  BY <1>1, <1>2, TurnsOf
<1>7. CASE h[1] # ShrinkOf(engine)
  <2>1. a \notin Area(h, p)
    <3>1. Area(h, p) \subseteq Outputs(h[2])
      BY <1>1, <1>7, AreaIn
    <3>2. \A x \in Outputs(h[2]) : x[1] = h[2]
      BY DEF Outputs
    <3>3. a[1] # h[2]
      BY <1>6, NameApart
    <3>4. QED
      BY <3>1, <3>2, <3>3
  <2>2. QED
    BY <1>3, <1>4, <1>5, <2>1
<1>8. CASE h[1] = ShrinkOf(engine) /\ h[2] = slot
  <2>1. h = w
    BY <1>3, <1>6, <1>8
  <2>2. CASE a \in Area(h, p)
    <3>1. p \in Programs(<<ShrinkOf(engine), slot>>) /\ a \in Area(<<ShrinkOf(engine), slot>>, p)
      BY <1>1, <1>3, <2>1, <2>2
    <3>2. Stores(<<ShrinkOf(engine), slot>>, p)[a] = Column(slot, row, d)
      BY <1>1, <1>3, <3>1, ShrinkMakes
    <3>3. Stores(h, p)[a] = Column(slot, row, d)
      BY <1>3, <2>1, <3>2
    <3>4. QED
      BY <1>4, <2>2, <3>3
  <2>3. CASE a \notin Area(h, p)
    BY <1>3, <1>4, <1>5, <2>3
  <2>4. QED
    BY <2>2, <2>3
<1>9. CASE h[1] = ShrinkOf(engine) /\ h[2] # slot
  <2> DEFINE o == qkvo[h[2]]
  <2>1. /\ q \in Nat /\ Turn(w) = 4 * q + 2 /\ Turn(<<ExpandOf(engine), slot>>) = 4 * q + 3
    BY <1>2, <1>3, TurnNumbers
  <2>2. o \in Nat /\ Turn(h) = 4 * o + 2
    <3>1. o \in Nat /\ Turn(<<ShrinkOf(engine), h[2]>>) = 4 * o + 2
      BY <1>2, <1>6, TurnNumbers
    <3>2. h = <<ShrinkOf(engine), h[2]>>
      BY <1>6, <1>9
    <3>3. QED
      BY <3>1, <3>2
  <2>3. w # h
    BY <1>3, <1>9
  <2>4. Stored(w, a) <=> Turn(w) < Turn(h)
    BY <2>3 DEF Stored
  <2>5. Stored(w, a)
    BY <1>3, <1>4, <2>3
  <2> HIDE DEF q, o
  <2>6. FALSE
    BY <1>3, <2>1, <2>2, <2>4, <2>5
  <2>7. QED
    BY <2>6
<1>10. QED
  BY <1>7, <1>8, <1>9
(* What a launch that is over stored is all that it had to.                *)
LEMMA AllStored ==
  ASSUME RanksFit, NEW n, LoraReady(n), grid = {}
  PROVE  /\ \A l \in AllOf(engine) : l[1] # ShrinkOf(engine) /\ Turn(l) <= Turn(Head(launches)) =>
              \A a \in Outputs(l[2]) : Stored(l, a)
         /\ engine # "bmm" =>
              \A slot \in Slots, row \in Tokens : \A d \in 0 .. Columns(row) - 1 :
                Turn(<<ShrinkOf(engine), slot>>) <= Turn(Head(launches)) =>
                  Stored(<<ShrinkOf(engine), slot>>, <<delta[slot], row, d>>)
<1> DEFINE h == Head(launches)
<1>1. engine \in {"bgmv", "triton", "bmm"} /\ Ordered(launches, engine)
  BY DEF LoraReady, LoraInv
<1>2. h \in AllOf(engine)
  BY <1>1, LastTurn
<1>3. \A l \in AllOf(engine) : Turn(l) \in Nat
  BY <1>1, TurnsOf
<1>4. ASSUME NEW l \in AllOf(engine), Turn(l) <= Turn(h), NEW a,
             \E p \in Programs(l) : a \in Area(l, p)
      PROVE  Stored(l, a)
  <2>1. Turn(l) < Turn(h) \/ Turn(l) = Turn(h)
    BY <1>2, <1>3, <1>4
  <2>2. Turn(l) = Turn(h) => l = h
    BY <1>1, <1>2, TurnsDiffer
  <2>3. Programs(l) \ grid = Programs(l)
    OBVIOUS
  <2>4. QED
    BY <1>4, <2>1, <2>2, <2>3 DEF Stored
<1>5. ASSUME NEW l \in AllOf(engine), l[1] # ShrinkOf(engine), Turn(l) <= Turn(h),
             NEW a \in Outputs(l[2])
      PROVE  Stored(l, a)
  BY <1>4, <1>5, OutputsCovered
<1>6. ASSUME engine # "bmm", NEW slot \in Slots, NEW row \in Tokens, NEW d \in 0 .. Columns(row) - 1,
             Turn(<<ShrinkOf(engine), slot>>) <= Turn(h)
      PROVE  Stored(<<ShrinkOf(engine), slot>>, <<delta[slot], row, d>>)
  <2>1. <<ShrinkOf(engine), slot>> \in AllOf(engine)
    BY <1>6 DEF AllOf
  <2>2. \E p \in Programs(<<ShrinkOf(engine), slot>>) :
          <<delta[slot], row, d>> \in Area(<<ShrinkOf(engine), slot>>, p)
    BY <1>6, DeltasCovered
  <2>3. QED
    BY <1>4, <1>6, <2>1, <2>2
<1>7. QED
  BY <1>5, <1>6

LEMMA ReadyStep ==
  ASSUME NEW n, LoraReady(n), [LoraNext]_loraVars
  PROVE  LoraReady(n)'
<1>1. LoraInv'
  BY LoraStep DEF LoraReady
<1>2. /\ engine \in {"bgmv", "triton", "bmm"} /\ Ordered(launches, engine)
      /\ grid \subseteq Programs(Head(launches)) /\ RecordServes(lora, n)
  BY DEF LoraReady, LoraInv
<1>3. ASSUME lora' = lora, engine' = engine, Ordered(launches', engine),
             grid' \subseteq Programs(Head(launches'))
      PROVE  LoraReady(n)'
  <2>1. RecordServes(lora, n)' /\ \A l : Programs(l)' = Programs(l)
    BY <1>2, <1>3, Fixed
  <2>2. grid' \subseteq Programs(Head(launches))'
    BY <1>3, <2>1
  <2>3. Ordered(launches, engine)'
    BY <1>3
  <2>4. QED
    BY <1>1, <2>1, <2>2, <2>3 DEF LoraReady
<1>4. CASE \E p \in grid : RunLora(p)
  <2>1. lora' = lora /\ engine' = engine /\ launches' = launches /\ grid' \subseteq grid
    BY <1>4 DEF RunLora, Run, engineVars
  <2>2. QED
    BY <1>2, <1>3, <2>1
<1>5. CASE NextLora
  <2>1. /\ lora' = lora /\ engine' = engine /\ Len(launches) > 1 /\ launches' = Tail(launches)
        /\ grid' = Programs(launches[2])
    BY <1>5 DEF NextLora, Launch, engineVars
  <2>2. Ordered(Tail(launches), engine) /\ Head(Tail(launches)) = launches[2]
    BY <1>2, <2>1, NextTurn
  <2>3. QED
    BY <1>3, <2>1, <2>2
<1>6. CASE NextLayer
  <2>1. /\ lora' = [lora EXCEPT !.layer = @ + 1] /\ engine' = engine
        /\ launches' = LoraGetQkv(engine) \o LoraGetO(engine) /\ grid' = {<<0>>}
    BY <1>6 DEF NextLayer
  <2>2. RecordServes(lora, n)'
    BY <1>2, <2>1 DEF RecordServes, RecordOK
  <2>3. Ordered(launches', engine') /\ Head(launches') = <<"mm", "q">>
    BY <1>2, <2>1, LayerOrdered
  <2>4. Programs(<<"mm", "q">>)' = {<<0>>}
    BY DEF Programs
  <2>5. grid' \subseteq Programs(Head(launches))'
    BY <2>1, <2>3, <2>4
  <2>6. QED
    BY <1>1, <2>2, <2>3, <2>5 DEF LoraReady
<1>7. CASE UNCHANGED loraVars
  BY <1>2, <1>3, <1>7 DEF loraVars, engineVars, launchVars
<1>8. QED
  BY <1>4, <1>5, <1>6, <1>7 DEF LoraNext
(* Nothing has been stored when a layer begins.                            *)
AtStart ==
  /\ engine \in {"bgmv", "triton", "bmm"} /\ Head(launches) = <<"mm", "q">>
  /\ grid = Programs(Head(launches))

LEMMA NothingStored == AtStart => OutputsOwn /\ DeltasOwn
<1> SUFFICES ASSUME AtStart PROVE OutputsOwn /\ DeltasOwn
  OBVIOUS
<1>1. engine \in {"bgmv", "triton", "bmm"} /\ Head(launches) = <<"mm", "q">>
  BY DEF AtStart
<1>2. Turn(Head(launches)) = 1
  BY <1>1, LayerOrdered
<1>3. ASSUME NEW l, Turn(l) \in Nat, Turn(l) >= 1, NEW a PROVE ~ Stored(l, a)
  <2>1. l = Head(launches) => Programs(l) \ grid = {}
    BY DEF AtStart
  <2>2. QED
    BY <1>2, <1>3, <2>1 DEF Stored
<1>4. ASSUME NEW slot \in Slots, NEW a PROVE ~ Based(slot, a) /\ ~ Stored(<<ShrinkOf(engine), slot>>, a)
  <2> DEFINE q == qkvo[slot]
             B == <<"mm", slot>>
             S == <<ShrinkOf(engine), slot>>
  <2>1. q \in Nat /\ Turn(B) = 4 * q + 1 /\ Turn(S) = 4 * q + 2
    BY <1>1, TurnNumbers
  <2> HIDE DEF q, B, S
  <2>2. Turn(B) \in Nat /\ Turn(B) >= 1 /\ Turn(S) \in Nat /\ Turn(S) >= 1
    BY <2>1
  <2>3. ~ Stored(B, a) /\ ~ Stored(S, a)
    BY <1>3, <2>2
  <2>4. QED
    BY <2>3 DEF Based, B, S
<1>5. QED
  BY <1>4 DEF OutputsOwn, DeltasOwn

LEMMA LoraValuesBegin == LoraInit => LoraValues
<1> SUFFICES ASSUME LoraInit PROVE LoraValues
  OBVIOUS
<1>1. PICK batch \in LoraBatches, dirs \in AdapterOrders, prefill \in BOOLEAN, bmm \in BOOLEAN :
        /\ lora = State(batch, dirs, prefill)
        /\ launches = LoraGetQkv(engine) \o LoraGetO(engine)
        /\ grid = Programs(Head(launches))
  BY DEF LoraInit
<1>2. LoraInv
  BY LoraBegins
<1>3. engine \in {"bgmv", "triton", "bmm"}
  BY <1>2 DEF LoraInv
<1>4. Ordered(launches, engine) /\ Head(launches) = <<"mm", "q">>
  BY <1>1, <1>3, LayerOrdered
<1>5. RecordServes(lora, Len(batch))
  BY <1>1, StateServes
<1>6. LoraReady(Len(batch))
  BY <1>1, <1>2, <1>4, <1>5 DEF LoraReady
<1>7. AtStart
  BY <1>1, <1>3, <1>4 DEF AtStart
<1>8. QED
  BY <1>6, <1>7, NothingStored DEF LoraValues

(* The next launch finds everything of the last one stored.                *)
LEMMA NextLoraKeeps ==
  ASSUME RanksFit, NEW n, LoraReady(n), NextLora, OutputsOwn, DeltasOwn
  PROVE  OutputsOwn' /\ DeltasOwn'
<1> DEFINE h == Head(launches)
           k == launches[2]
<1>1. /\ lora' = lora /\ engine' = engine /\ memory' = memory /\ Len(launches) > 1
      /\ launches' = Tail(launches) /\ grid = {} /\ grid' = Programs(k)
  BY DEF NextLora, Launch, engineVars
<1>2. engine \in {"bgmv", "triton", "bmm"} /\ Ordered(launches, engine)
  BY DEF LoraReady, LoraInv
<1>3. /\ h \in AllOf(engine) /\ k \in AllOf(engine) /\ Head(launches') = k
      /\ Turn(h) < Turn(k)
      /\ \A l \in AllOf(engine) : Turn(l) < Turn(k) => Turn(l) <= Turn(h)
  BY <1>1, <1>2, NextTurn
<1> HIDE DEF h, k
<1>4. ASSUME NEW l, NEW a PROVE Stored(l, a)' <=> Turn(l) < Turn(k)
  <2>1. Turn(l)' = Turn(l) /\ Turn(Head(launches))' = Turn(k)
    BY <1>3 DEF Turn, qkvo, Stage
  <2>2. \A r : r = k => Programs(r)' = Programs(r)
    BY <1>1, Fixed
  <2>3. Head(launches)' = k
    BY <1>3
  <2>4. l = k => Programs(l)' \ grid' = {}
    BY <1>1, <2>2
  <2>5. QED
    BY <2>1, <2>3, <2>4 DEF Stored
<1>5. \A a : Load(a)' = Load(a)
  BY <1>1 DEF Load, Junk
<1>6. \A slot \in Slots : /\ <<"mm", slot>> \in AllOf(engine) /\ <<ExpandOf(engine), slot>> \in AllOf(engine)
                          /\ (slot \in {"q", "k"} => <<"rotary", slot>> \in AllOf(engine))
                          /\ (engine # "bmm" => <<ShrinkOf(engine), slot>> \in AllOf(engine))
  BY DEF AllOf
<1>7. ASSUME NEW l \in AllOf(engine) PROVE Turn(l) < Turn(k) <=> Turn(l) <= Turn(h)
  <2>1. Turn(l) \in Nat /\ Turn(k) \in Nat /\ Turn(h) \in Nat
    BY <1>2, <1>3, TurnsOf
  <2>2. QED
    BY <1>3, <2>1
<1>8. ASSUME NEW l \in AllOf(engine), l[1] # ShrinkOf(engine), NEW a \in Outputs(l[2])
      PROVE  Stored(l, a)' <=> Stored(l, a)
  <2>1. Turn(l) <= Turn(h) => Stored(l, a)
    BY <1>1, <1>8, AllStored DEF h
  <2>2. Stored(l, a) => Turn(l) <= Turn(h)
    <3>1. Turn(l) \in Nat /\ Turn(h) \in Nat
      BY <1>2, <1>3, TurnsOf
    <3>2. Stored(l, a) => Turn(l) < Turn(h) \/ l = h
      BY DEF Stored, h
    <3>3. QED
      BY <3>1, <3>2
  <2>3. QED
    BY <1>4, <1>7, <2>1, <2>2
<1>9. OutputsOwn'
  <2>1. SUFFICES ASSUME NEW slot \in Slots, Served(slot), NEW a \in Outputs(slot), Based(slot, a)'
                 PROVE  Load(a)' = OutputValue(slot, a)'
    <3>1. /\ \A slot : Outputs(slot)' = Outputs(slot)
          /\ \A slot : Served(slot)' <=> Served(slot)
      BY <1>1, Fixed
    <3>2. QED
      BY <2>1, <3>1 DEF OutputsOwn
  <2>2. Based(slot, a)' <=> Based(slot, a)
    <3>1. "mm" # ShrinkOf(engine)
      BY <1>2, Stages
    <3>2. Stored(<<"mm", slot>>, a)' <=> Stored(<<"mm", slot>>, a)
      BY <1>6, <1>8, <3>1
    <3>3. QED
      BY <3>2 DEF Based
  <2>3. Added(slot, a)' <=> Added(slot, a)
    <3>1. ExpandOf(engine) # ShrinkOf(engine)
      BY <1>2, Stages
    <3>2. ASSUME NEW l, l = <<ExpandOf(engine), slot>> PROVE Added(slot, a)' <=> Stored(l, a)'
      <4>1. l = <<ExpandOf(engine)', slot>>
        BY <1>1, <3>2 DEF ExpandOf
      <4>2. QED
        BY <4>1 DEF Added
    <3>3. ASSUME NEW l, l = <<ExpandOf(engine), slot>> PROVE Stored(l, a)' <=> Stored(l, a)
      BY <1>6, <1>8, <3>1, <3>3
    <3>4. QED
      BY <3>2, <3>3 DEF Added
  <2>4. WasRotated(slot, a)' <=> WasRotated(slot, a)
    <3>1. "rotary" # ShrinkOf(engine)
      BY <1>2, Stages
    <3>2. slot \in {"q", "k"} => (Stored(<<"rotary", slot>>, a)' <=> Stored(<<"rotary", slot>>, a))
      BY <1>6, <1>8, <3>1
    <3>3. QED
      BY <3>2 DEF WasRotated
  <2>5. OwnValue(slot, a)' = OwnValue(slot, a) /\ Base(a)' = Base(a)
    BY <1>1, Fixed
  <2>6. OutputValue(slot, a)' = OutputValue(slot, a)
    BY <2>3, <2>4, <2>5 DEF OutputValue
  <2>7. QED
    BY <1>5, <2>1, <2>2, <2>6 DEF OutputsOwn
<1>10. DeltasOwn'
  <2>1. SUFFICES ASSUME engine # "bmm", NEW slot \in Slots, NEW row \in Tokens,
                        NEW d \in 0 .. Columns(row) - 1,
                        (Turn(<<ExpandOf(engine), slot>>) >= Turn(Head(launches)))',
                        Stored(<<ShrinkOf(engine), slot>>, <<delta[slot], row, d>>)'
                 PROVE  Load(<<delta[slot], row, d>>)' = Column(slot, row, d)
    <3>1. /\ Tokens' = Tokens
          /\ \A row : Columns(row)' = Columns(row)
          /\ \A slot, row, d : Column(slot, row, d)' = Column(slot, row, d)
      BY <1>1, Fixed
    <3>2. QED
      BY <1>1, <2>1, <3>1 DEF DeltasOwn
  <2>2. Turn(<<ExpandOf(engine), slot>>) >= Turn(k)
    BY <1>1, <1>3, <2>1 DEF Turn, ExpandOf, Stage, qkvo
  <2> DEFINE w == <<ShrinkOf(engine), slot>>
  <2>3. Turn(w) < Turn(k)
    <3>1. ASSUME NEW l, l = w PROVE Stored(l, <<delta[slot], row, d>>)'
      <4>1. l = <<ShrinkOf(engine)', slot>>
        BY <1>1, <3>1 DEF ShrinkOf
      <4>2. QED
        BY <2>1, <4>1
    <3>2. ASSUME NEW l, l = w PROVE Turn(l) < Turn(k)
      BY <1>4, <3>1, <3>2
    <3>3. QED
      BY <3>2
  <2>4. w \in AllOf(engine)
    BY <1>6, <2>1
  <2>5. Turn(w) <= Turn(h)
    BY <1>7, <2>3, <2>4
  <2>6. Stored(w, <<delta[slot], row, d>>)
    BY <1>1, <2>1, <2>5, AllStored DEF h
  <2>7. Turn(<<ExpandOf(engine), slot>>) >= Turn(h)
    <3>1. /\ Turn(<<ExpandOf(engine), slot>>) \in Nat /\ Turn(k) \in Nat /\ Turn(h) \in Nat
      BY <1>2, <1>3, <1>6, TurnsOf
    <3>2. QED
      BY <1>3, <2>2, <3>1
  <2>8. Load(<<delta[slot], row, d>>) = Column(slot, row, d)
    BY <2>1, <2>6, <2>7 DEF DeltasOwn, h
  <2>9. QED
    BY <1>5, <2>8
<1>11. QED
  BY <1>9, <1>10
LEMMA LoraValuesStep ==
  ASSUME RanksFit
  PROVE  LoraValues /\ [LoraNext]_loraVars => LoraValues'
<1> SUFFICES ASSUME LoraValues, [LoraNext]_loraVars PROVE LoraValues'
  OBVIOUS
<1>1. PICK n : LoraReady(n)
  BY DEF LoraValues
<1>2. LoraReady(n)'
  BY <1>1, ReadyStep
<1>3. OutputsOwn /\ DeltasOwn
  BY DEF LoraValues
<1>4. SUFFICES OutputsOwn' /\ DeltasOwn'
  BY <1>2 DEF LoraValues
<1>5. CASE \E p \in grid : RunLora(p)
  <2>1. PICK p \in grid : RunLora(p)
    BY <1>5
  <2>2. Ran(n, p)
    BY <1>1, <2>1, RunRan
  <2>3. QED
    BY <1>3, <2>2, RunOutputs, RunDeltas
<1>6. CASE NextLora
  BY <1>1, <1>3, <1>6, NextLoraKeeps
<1>7. CASE NextLayer
  <2>1. /\ engine' = engine /\ launches' = LoraGetQkv(engine) \o LoraGetO(engine) /\ grid' = {<<0>>}
    BY <1>7 DEF NextLayer
  <2>2. engine \in {"bgmv", "triton", "bmm"}
    BY <1>1 DEF LoraReady, LoraInv
  <2>3. Head(launches') = <<"mm", "q">>
    BY <2>1, <2>2, LayerOrdered
  <2>4. Programs(<<"mm", "q">>)' = {<<0>>}
    BY DEF Programs
  <2>5. AtStart'
    BY <2>1, <2>2, <2>3, <2>4 DEF AtStart
  <2>6. QED
    BY <2>5, NothingStored, PTL
<1>8. CASE UNCHANGED loraVars
  <2>1. /\ lora' = lora /\ engine' = engine /\ memory' = memory /\ launches' = launches /\ grid' = grid
    BY <1>8 DEF loraVars, engineVars, launchVars
  <2>2. \A l, a : Stored(l, a)' <=> Stored(l, a)
    <3>1. /\ \A l, p : Area(l, p)' = Area(l, p)
          /\ \A l : Programs(l)' = Programs(l)
      BY <2>1, Fixed
    <3>2. QED
      BY <2>1, <3>1 DEF Stored, Turn, qkvo, Stage
  <2>3. \A a : Load(a)' = Load(a)
    BY <2>1 DEF Load, Junk
  <2>4. \A slot, a : /\ OwnValue(slot, a)' = OwnValue(slot, a) /\ Base(a)' = Base(a)
                     /\ Served(slot)' <=> Served(slot)
                     /\ Outputs(slot)' = Outputs(slot)
    BY <2>1, Fixed
  <2>5. ASSUME NEW slot, NEW a
        PROVE  /\ Based(slot, a)' <=> Based(slot, a)
               /\ OutputValue(slot, a)' = OutputValue(slot, a)
    <3>1. \A l : l = <<ExpandOf(engine), slot>> => (Added(slot, a)' <=> Stored(l, a)')
      <4>1. ASSUME NEW l, l = <<ExpandOf(engine), slot>> PROVE Added(slot, a)' <=> Stored(l, a)'
        <5>1. l = <<ExpandOf(engine)', slot>>
          BY <2>1, <4>1 DEF ExpandOf
        <5>2. QED
          BY <5>1 DEF Added
      <4>2. QED
        BY <4>1
    <3>2. Added(slot, a)' <=> Added(slot, a)
      BY <2>2, <3>1 DEF Added
    <3>3. WasRotated(slot, a)' <=> WasRotated(slot, a)
      BY <2>2 DEF WasRotated
    <3>4. QED
      BY <2>2, <2>4, <3>2, <3>3 DEF Based, OutputValue
  <2>6. OutputsOwn'
    BY <1>3, <2>3, <2>4, <2>5 DEF OutputsOwn
  <2>7. DeltasOwn'
    <3>1. SUFFICES ASSUME engine # "bmm", NEW slot \in Slots, NEW row \in Tokens,
                          NEW d \in 0 .. Columns(row) - 1,
                          (Turn(<<ExpandOf(engine), slot>>) >= Turn(Head(launches)))',
                          Stored(<<ShrinkOf(engine), slot>>, <<delta[slot], row, d>>)'
                   PROVE  Load(<<delta[slot], row, d>>)' = Column(slot, row, d)
      <4>1. /\ Tokens' = Tokens
            /\ \A row : Columns(row)' = Columns(row)
            /\ \A slot, row, d : Column(slot, row, d)' = Column(slot, row, d)
        BY <2>1, Fixed
      <4>2. QED
        BY <2>1, <3>1, <4>1 DEF DeltasOwn
    <3>2. Turn(<<ExpandOf(engine), slot>>) >= Turn(Head(launches))
      BY <2>1, <3>1 DEF Turn, ExpandOf, Stage, qkvo
    <3>3. ASSUME NEW l, l = <<ShrinkOf(engine), slot>>
          PROVE  Stored(l, <<delta[slot], row, d>>)'
      <4>1. l = <<ShrinkOf(engine)', slot>>
        BY <2>1, <3>3 DEF ShrinkOf
      <4>2. QED
        BY <3>1, <4>1
    <3>4. Stored(<<ShrinkOf(engine), slot>>, <<delta[slot], row, d>>)
      BY <2>2, <3>3
    <3>5. QED
      BY <1>3, <2>3, <3>1, <3>2, <3>4 DEF DeltasOwn
  <2>8. QED
    BY <2>6, <2>7
<1>9. QED
  BY <1>5, <1>6, <1>7, <1>8 DEF LoraNext

LEMMA ValuesAreOwn ==
  ASSUME RanksFit
  PROVE  LoraValues => LoraIsOwn
<1> SUFFICES ASSUME LoraValues, Finished, NEW slot \in Slots, Served(slot), NEW a \in Outputs(slot)
             PROVE  Load(a) = <<Base(a)>> \o OwnTerms(slot, a[2], a[3])
                                \o (IF slot \in {"q", "k"} THEN <<<<"rotated">>>> ELSE <<>>)
  BY DEF LoraIsOwn, IsOwn, Served
<1>1. PICK n : LoraReady(n)
  BY DEF LoraValues
<1>2. /\ engine \in {"bgmv", "triton", "bmm"} /\ Ordered(launches, engine) /\ RecordServes(lora, n)
  BY <1>1 DEF LoraReady, LoraInv
<1>3. grid = {} /\ Len(launches) = 1
  BY DEF Finished
<1>4. \A l \in AllOf(engine) : Turn(l) <= Turn(Head(launches))
  BY <1>2, <1>3, LastTurn
<1>5. ASSUME NEW kernel, <<kernel, slot>> \in AllOf(engine), kernel # ShrinkOf(engine)
      PROVE  Stored(<<kernel, slot>>, a)
  <2> DEFINE l == <<kernel, slot>>
  <2>1. l \in AllOf(engine) /\ l[1] # ShrinkOf(engine) /\ a \in Outputs(l[2])
    BY <1>5
  <2> HIDE DEF l
  <2>2. Stored(l, a)
    BY <1>1, <1>3, <1>4, <2>1, AllStored
  <2>3. QED
    BY <2>2 DEF l
<1>6. Based(slot, a)
  BY <1>2, <1>5, Stages DEF AllOf, Based
<1>7. Added(slot, a)
  BY <1>2, <1>5, Stages DEF AllOf, Added
<1>8. WasRotated(slot, a) <=> slot \in {"q", "k"}
  BY <1>2, <1>5, Stages DEF AllOf, WasRotated
<1>9. Load(a) = OutputValue(slot, a)
  BY <1>6 DEF LoraValues, OutputsOwn
<1>10. OwnValue(slot, a) \o <<>> = OwnValue(slot, a)
  BY <1>2, OwnIsSeq
<1>11. Load(a) = OwnValue(slot, a) \o (IF slot \in {"q", "k"} THEN <<<<"rotated">>>> ELSE <<>>)
  <2> DEFINE v == OwnValue(slot, a)
             x == <<<<"rotated">>>>
  <2>1. Load(a) = IF slot \in {"q", "k"} THEN v \o x ELSE v
    BY <1>7, <1>8, <1>9 DEF OutputValue
  <2>2. v \o <<>> = v
    BY <1>10
  <2> HIDE DEF v, x
  <2>3. QED
    BY <2>1, <2>2 DEF v, x
<1>12. QED
  BY <1>11 DEF OwnValue

(* Every request gets its own adapter, whichever engine runs, if the ranks *)
(* fit the kernels (RanksFit, which the server does not check): when a     *)
(* layer is over, each output of q, k, v and o of each row is the base     *)
(* model's plus all the products of the row's input with the adapter of    *)
(* the row's own request, each once, and with the rotation after them.     *)
(* LoraIsOwn takes k in a decode with --bmm only if the batch has one      *)
(* scaling, as it is wrong otherwise (BmmKeys.cfg); without RanksFit TLC   *)
(* refutes it (NarrowRank.cfg).                                            *)
THEOREM LoraComputesOwn ==
  ASSUME RanksFit
  PROVE  LoraSpec => []LoraIsOwn
<1>1. LoraInit => LoraValues
  BY LoraValuesBegin
<1>2. LoraValues /\ [LoraNext]_loraVars => LoraValues'
  BY LoraValuesStep
<1>3. LoraValues => LoraIsOwn
  BY ValuesAreOwn
<1>4. QED
  BY <1>1, <1>2, <1>3, PTL DEF LoraSpec
=============================================================================
