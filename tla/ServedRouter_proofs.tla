------------------------- MODULE ServedRouter_proofs -------------------------
(***************************************************************************)
(* Proofs about the router together with the model server it calls, for    *)
(* any clients, requests, limits and pool.                                 *)
(***************************************************************************)
EXTENDS ServedRouter, VtcRouter_proofs

-----------------------------------------------------------------------------
(* The router is the one of VtcRouter: the server only narrows what it may *)
(* do next, and stops it for good when it raises.                          *)

LEMMA ServedStep ==
  ASSUME [ServedNext]_servedVars
  PROVE  [Next]_vars
<1>1. CASE RouterAlone
  BY <1>1 DEF RouterAlone, Next, Forward
<1>2. CASE ServedStartPrefill
  BY <1>2 DEF ServedStartPrefill, Next, Forward
<1>3. CASE ServedPrefill
  BY <1>3 DEF ServedPrefill, Next, Forward
<1>4. CASE ServedPrefillCleanup
  BY <1>4 DEF ServedPrefillCleanup, Next, Forward
<1>5. CASE ServedMerge
  BY <1>5 DEF ServedMerge, Next, Forward
<1>6. CASE ServedDecode
  BY <1>6 DEF ServedDecode, Next, Forward
<1>7. CASE ServedDecodeCleanup
  BY <1>7 DEF ServedDecodeCleanup, Next, Forward
<1>8. CASE PrefillFails \/ DecodeFails
  BY <1>8 DEF PrefillFails, DecodeFails
<1>9. CASE Netio
  BY <1>9 DEF Next
<1>10. CASE UNCHANGED servedVars
  BY <1>10 DEF servedVars
<1>11. QED
  BY <1>1, <1>2, <1>3, <1>4, <1>5, <1>6, <1>7, <1>8, <1>9, <1>10
  DEF ServedNext, ServedForward

(* Whatever the router does with the server is a behaviour of VtcRouter,   *)
(* so that everything proved of the router holds of the two together.      *)
THEOREM RouterUnderneath == ServedSpec => Spec
<1>1. ServedInit => Init
  BY DEF ServedInit
<1>2. QED
  BY <1>1, ServedStep, PTL DEF ServedSpec, Spec

-----------------------------------------------------------------------------
(* Adapters.                                                               *)

(* A batch that is prefilled apart from the running batch has one to join. *)
MiniHasRunning ==
  mini # {} /\ pc \in {"prefill", "prefillCleanup", "merge"} => running # {}

(* What runs has its adapters loaded, and what is prefilled has them from  *)
(* then on.                                                                *)
AdaptersLoaded ==
  alive => /\ Dirs(running) \subseteq DOMAIN a_loc
           /\ pc \in {"prefill", "prefillCleanup", "merge"}
                => Dirs(mini) \subseteq DOMAIN a_loc

LEMMA MiniStep ==
  ASSUME BatchesOK, MiniHasRunning, [Next]_vars
  PROVE  MiniHasRunning'
<1>1. CASE Netio
  BY <1>1 DEF Netio, AddReq, ReceiveReq, Abort, ReceiveAbort, MiniHasRunning
<1>2. ASSUME NEW k \in Client, Admit(k) \/ DropAborted(k)
      PROVE  MiniHasRunning'
  BY <1>2 DEF Admit, DropAborted, MiniHasRunning, routerVars
<1>3. CASE Wake \/ StartAdmission \/ DecodeStep \/ NothingAdmitted
  BY <1>3 DEF Wake, StartAdmission, DecodeStep, NothingAdmitted, StartDecode, MiniHasRunning
<1>4. CASE StartPrefill
  BY <1>4 DEF StartPrefill, MiniHasRunning
<1>5. ASSUME NEW F \in SUBSET running, FinishFirstPrefill(F) \/ FinishDecode(F)
      PROVE  MiniHasRunning'
  BY <1>5 DEF FinishFirstPrefill, FinishDecode, MiniHasRunning, BatchesOK
<1>6. ASSUME NEW F \in SUBSET mini, FinishMiniPrefill(F)
      PROVE  MiniHasRunning'
  BY <1>6 DEF FinishMiniPrefill, MiniHasRunning
<1>7. CASE PrefillCleanedUp \/ Merge \/ DecodeCleanedUp
  BY <1>7 DEF PrefillCleanedUp, Merge, DecodeCleanedUp, AfterStep, MiniHasRunning, BatchesOK
<1>8. ASSUME NEW r \in Req, Charge(r)
      PROVE  MiniHasRunning'
  BY <1>8 DEF Charge, MiniHasRunning
<1>9. CASE UNCHANGED vars
  BY <1>9 DEF vars, routerVars, MiniHasRunning
<1>10. QED
  BY <1>1, <1>2, <1>3, <1>4, <1>5, <1>6, <1>7, <1>8, <1>9 DEF Next, Forward

LEMMA MiniAlways == Spec => []MiniHasRunning
<1>1. Init => MiniHasRunning
  BY DEF Init, MiniHasRunning
<1>2. QED
  BY <1>1, MiniStep, BatchesCorrect, PTL DEF Spec

(* Offloading keeps what it is told to reserve.                            *)
LEMMA ReservedStays ==
  ASSUME NEW reserve, reserve \subseteq DOMAIN a_loc
  PROVE  reserve \subseteq KeptAdapters(reserve)
BY DEF KeptAdapters

LEMMA LoadedStep ==
  ASSUME BatchesOK, MiniHasRunning, AdaptersLoaded, [ServedNext]_servedVars
  PROVE  AdaptersLoaded'
<1>1. CASE alive /\ RouterAlone
  <2>1. a_loc' = a_loc /\ alive' = alive /\ running' = running
        /\ pc' \notin {"prefill", "prefillCleanup", "merge"}
    BY <1>1 DEF RouterAlone, serverVars, Wake, DecodeStep, StartAdmission, NothingAdmitted,
                StartDecode, Admit, DropAborted, Charge, routerVars
  <2>2. QED
    BY <2>1 DEF AdaptersLoaded, Dirs
<1>2. CASE alive /\ ServedStartPrefill
  <2>1. CASE alive' = FALSE
    BY <2>1 DEF AdaptersLoaded
  <2>2. CASE LoadAdapters(Dirs(mini)) /\ alive' = alive
    <3>1. DOMAIN a_loc' = DOMAIN a_loc \cup Dirs(mini)
      BY <2>2 DEF LoadAdapters
    <3>2. running' \subseteq running \cup mini /\ mini' \subseteq mini
      BY <1>2 DEF ServedStartPrefill, StartPrefill
    <3>3. QED
      BY <1>2, <3>1, <3>2 DEF AdaptersLoaded, Dirs
  <2>3. QED
    BY <1>2, <2>1, <2>2 DEF ServedStartPrefill, Dies
<1>3. CASE alive /\ ServedPrefill
  <2>1. /\ a_loc' = a_loc /\ running' \subseteq running /\ mini' \subseteq mini
        /\ pc = "prefill"
    BY <1>3 DEF ServedPrefill, PrefillBatch, FinishFirstPrefill, FinishMiniPrefill
  <2>2. QED
    BY <1>3, <2>1 DEF AdaptersLoaded, Dirs
<1>4. CASE alive /\ ServedPrefillCleanup
  <2>1. running' = running /\ mini' = mini /\ pc = "prefillCleanup"
    BY <1>4 DEF ServedPrefillCleanup, PrefillCleanedUp
  <2>2. \/ DOMAIN a_loc' = DOMAIN a_loc
        \/ running = {} /\ DOMAIN a_loc' = {}
    BY <1>4 DEF ServedPrefillCleanup, Release
  <2>3. QED
    BY <1>4, <2>1, <2>2 DEF AdaptersLoaded, MiniHasRunning, Dirs
<1>5. CASE alive /\ ServedMerge
  <2>1. a_loc' = a_loc /\ running' = running \cup mini /\ mini' = {} /\ pc = "merge"
    BY <1>5 DEF ServedMerge, Merge, MergeBatch
  <2>2. QED
    BY <1>5, <2>1 DEF AdaptersLoaded, Dirs
<1>6. CASE alive /\ ServedDecode
  <2>1. a_loc' = a_loc /\ running' \subseteq running /\ mini' = mini /\ pc = "decode"
    BY <1>6 DEF ServedDecode, DecodeBatch, FinishDecode
  <2>2. mini = {}
    BY <2>1 DEF BatchesOK
  <2>3. QED
    BY <1>6, <2>1, <2>2 DEF AdaptersLoaded, Dirs
<1>7. CASE alive /\ ServedDecodeCleanup
  <2>1. running' = running /\ mini' = mini /\ pc = "decodeCleanup"
    BY <1>7 DEF ServedDecodeCleanup, DecodeCleanedUp
  <2>2. mini = {}
    BY <2>1 DEF BatchesOK
  <2>3. DOMAIN a_loc' = DOMAIN a_loc \cap KeptAdapters(Dirs(running))
    BY <1>7 DEF ServedDecodeCleanup, Release
  <2>4. Dirs(running) \subseteq DOMAIN a_loc'
    BY <1>7, <2>3, ReservedStays DEF AdaptersLoaded
  <2>5. QED
    BY <2>1, <2>2, <2>4 DEF AdaptersLoaded, Dirs
<1>8. CASE PrefillFails \/ DecodeFails
  BY <1>8 DEF PrefillFails, DecodeFails, Dies, AdaptersLoaded
<1>9. CASE Netio /\ UNCHANGED <<serverVars, alive>>
  BY <1>9 DEF Netio, AddReq, ReceiveReq, Abort, ReceiveAbort, serverVars, AdaptersLoaded, Dirs
<1>10. CASE UNCHANGED servedVars
  BY <1>10 DEF servedVars, serverVars, vars, routerVars, AdaptersLoaded, Dirs
<1>11. QED
  BY <1>1, <1>2, <1>3, <1>4, <1>5, <1>6, <1>7, <1>8, <1>9, <1>10
  DEF ServedNext, ServedForward

LEMMA LoadedAlways == ServedSpec => []AdaptersLoaded
<1>1. ServedInit => AdaptersLoaded
  BY DEF ServedInit, Init, ServerInit, AdaptersLoaded, Dirs
<1>2. QED
  BY <1>1, LoadedStep, RouterUnderneath, BatchesCorrect, MiniAlways, PTL DEF ServedSpec

(* Whatever is loaded and offloaded for one batch while another is in      *)
(* service, the model never looks up an adapter in vain: the adapters of   *)
(* the batch it is given are loaded whenever it prefills or decodes.       *)
THEOREM AdaptersAreReady == ServedSpec => []AdaptersReady
<1>1. AdaptersLoaded => AdaptersReady
  BY DEF AdaptersLoaded, AdaptersReady, Prefilled
<1>2. QED
  BY <1>1, LoadedAlways, PTL

-----------------------------------------------------------------------------
(* The pool.                                                               *)

LEMMA CellsFinite ==
  /\ IsFiniteSet(Cells) /\ Cardinality(Cells) = tot_size /\ Cells \in SUBSET Nat
<1>1. Cells \in SUBSET Nat
  BY SizeAssumption DEF Cells
<1>2. QED
  BY <1>1, SizeAssumption, FS_Interval, 0 \in Int, tot_size - 1 \in Int DEF Cells

LEMMA PartFinite ==
  ASSUME NEW S, S \subseteq Cells
  PROVE  IsFiniteSet(S) /\ Cardinality(S) \in 0 .. tot_size /\ S \in SUBSET Nat
<1>1. IsFiniteSet(S) /\ Cardinality(S) <= Cardinality(Cells)
  BY CellsFinite, FS_Subset
<1>2. Cardinality(S) \in Nat
  BY <1>1, FS_CardinalityType
<1>3. QED
  BY <1>1, <1>2, CellsFinite, SizeAssumption

(* alloc and alloc_contiguous hand out as many free cells as they were     *)
(* asked for.                                                              *)
LEMMA LowestGiven ==
  ASSUME mem_state \subseteq Cells, NEW n \in 0 .. Cardinality(mem_state)
  PROVE  Lowest(n) \subseteq mem_state /\ Cardinality(Lowest(n)) = n
<1>1. Lowest(n) = Least(mem_state, n)
  BY DEF Lowest, Least, Rank
<1>2. Lowest(n) \subseteq mem_state
  BY DEF Lowest
<1>3. QED
  BY <1>1, <1>2, PartFinite, LeastSized

LEMMA WindowGiven ==
  ASSUME NEW n \in Nat, FreeStarts(n) # {}
  PROVE  FirstWindow(n) \subseteq mem_state /\ Cardinality(FirstWindow(n)) = n
<1>1. FreeStarts(n) \in SUBSET Nat
  BY SizeAssumption DEF FreeStarts
<1>2. PICK m \in FreeStarts(n) : \A y \in FreeStarts(n) : m <= y
  BY <1>1, LeastNumber
<1>3. Min(FreeStarts(n)) \in FreeStarts(n)
  BY <1>2 DEF Min
<1> DEFINE first == Min(FreeStarts(n))
<1> HIDE DEF first
<1>4. first \in FreeStarts(n) /\ first \in Nat /\ FirstWindow(n) = Window(first, n)
  BY <1>1, <1>3 DEF first, FirstWindow
<1>5. Window(first, n) \subseteq mem_state
  BY <1>4 DEF FreeStarts
<1>6. Cardinality(first .. first + n - 1) = n
  <2>1. first \in Int /\ first + n - 1 \in Int /\ (first > first + n - 1 => n = 0)
        /\ (first + n - 1) - first + 1 = n
    BY <1>4
  <2>2. QED
    BY <2>1, FS_Interval
<1>7. QED
  BY <1>4, <1>5, <1>6 DEF Window

(* The places of a selection of indexes.                                   *)
LEMMA NthIn ==
  ASSUME NEW S \in SUBSET Nat, IsFiniteSet(S)
  PROVE  /\ \A k \in 1 .. Cardinality(S) : Nth(S, k) \in S
         /\ \A c \in S : \E k \in 1 .. Cardinality(S) : c = Nth(S, k)
         /\ \A j, k \in 1 .. Cardinality(S) : Nth(S, j) = Nth(S, k) => j = k
<1>1. ASSUME NEW k \in 1 .. Cardinality(S)
      PROVE  Nth(S, k) \in S /\ Rank(S, Nth(S, k)) = k
  <2>1. \E c \in S : Rank(S, c) = k
    BY RankTaken
  <2>2. QED
    BY <2>1 DEF Nth, Rank
<1>2. ASSUME NEW c \in S
      PROVE  \E k \in 1 .. Cardinality(S) : c = Nth(S, k)
  <2>1. Rank(S, c) \in 1 .. Cardinality(S)
    BY RankIsPlace
  <2>2. PICK k \in 1 .. Cardinality(S) : k = Rank(S, c)
    BY <2>1
  <2>3. Nth(S, k) \in S /\ Rank(S, Nth(S, k)) = Rank(S, c)
    BY <1>1, <2>2
  <2>4. Nth(S, k) = c
    <3> DEFINE d == Nth(S, k)
    <3>1. d \in S /\ Rank(S, d) = Rank(S, c)
      BY <2>3
    <3> HIDE DEF d
    <3>2. d = c
      BY <3>1, RankUnique, Z3
    <3>3. QED
      BY <3>2 DEF d
  <2>5. QED
    BY <2>4
<1>3. QED
  BY <1>1, <1>2

(* The orders in which Python may go through a set.                        *)
LEMMA OrdersAll ==
  ASSUME NEW S, IsFiniteSet(S), NEW order \in Orders(S)
  PROVE  /\ Cardinality(S) \in Nat
         /\ order \in Seq(S) /\ Len(order) = Cardinality(S)
         /\ DOMAIN order = 1 .. Cardinality(S)
         /\ order \in [1 .. Cardinality(S) -> S]
         /\ order \in Injection(1 .. Cardinality(S), S)
         /\ \A i, j \in 1 .. Cardinality(S) : order[i] = order[j] => i = j
         /\ \A x \in S : \E i \in 1 .. Cardinality(S) : order[i] = x
<1> DEFINE n == Cardinality(S)
<1>1. n \in Nat
  BY FS_CardinalityType
<1>2. /\ order \in [1 .. n -> S]
      /\ \A i, j \in 1 .. n : i # j => order[i] # order[j]
  BY DEF Orders, SetToSeqs
<1> HIDE DEF n
<1>3. order \in Injection(1 .. n, S)
  BY <1>2 DEF Injection, IsInjective
<1>4. Cardinality(1 .. n) = n /\ IsFiniteSet(1 .. n)
  BY <1>1, FirstNumbers
<1>5. order \in Surjection(1 .. n, S)
  BY <1>3, <1>4, FS_Injection DEF n
<1>6. order \in Seq(S) /\ Len(order) = n /\ DOMAIN order = 1 .. n
  BY <1>1, <1>2
<1>7. QED
  BY <1>1, <1>2, <1>3, <1>5, <1>6 DEF n, Surjection

LEMMA SumOfIsSum ==
  ASSUME NEW S, IsFiniteSet(S), NEW f \in [S -> Nat], NEW T \in SUBSET S,
         NEW e, DOMAIN e = T, \A x \in T : e[x] = f[x]
  PROVE  SumOf(e) = SumOver(f, T)
<1>1. SumOf(e) = SumOver(e, T)
  BY DEF SumOf, SumOver
<1> DEFINE g == [x \in T |-> f[x]]
<1>2. IsFiniteSet(T) /\ g \in [T -> Nat] /\ \A x \in T : e[x] = g[x] /\ f[x] = g[x]
  BY FS_Subset
<1> HIDE DEF g
<1>3. SumOver(e, T) = SumOver(g, T) /\ SumOver(f, T) = SumOver(g, T)
  BY <1>2, FoldIsSum
<1>4. QED
  BY <1>1, <1>3

AreOffsets(from, f, order, n) ==
  from = [i \in 1 .. n |-> SumOf([j \in 1 .. i - 1 |-> f[order[j]]])]

(* Stretches of the given lengths, one after the other, are disjoint parts *)
(* of the numbers up to the sum of the lengths and leave none out.         *)
LEMMA Consecutive ==
  ASSUME NEW U, IsFiniteSet(U), NEW f \in [U -> Nat], NEW S \in SUBSET U,
         NEW order \in Orders(S),
         NEW from, AreOffsets(from, f, order, Cardinality(S))
  PROVE  /\ \A i \in 1 .. Cardinality(S) :
              from[i] \in Nat /\ from[i] + f[order[i]] <= SumOver(f, S)
         /\ \A k \in 1 .. SumOver(f, S) :
              \E i \in 1 .. Cardinality(S) : \E j \in 1 .. f[order[i]] : k = from[i] + j
<1> DEFINE n == Cardinality(S)
           terms == [j \in 1 .. n |-> f[order[j]]]
           upTo(i) == SumOver(terms, 1 .. i)
<1>1. /\ IsFiniteSet(S) /\ n \in Nat
      /\ order \in [1 .. n -> S] /\ order \in Injection(1 .. n, S)
      /\ \A x \in S : \E i \in 1 .. n : order[i] = x
  BY FS_Subset, OrdersAll
<1>2. terms \in [1 .. n -> Nat] /\ \A j \in 1 .. n : terms[j] = f[order[j]]
  BY <1>1
<1> HIDE DEF n, terms
<1>3. IsFiniteSet(1 .. n)
  BY <1>1, FirstNumbers
<1>4. \A i \in 0 .. n : 1 .. i \in SUBSET (1 .. n) /\ upTo(i) \in Nat /\ upTo(i) <= upTo(n)
  <2>1. TAKE i \in 0 .. n
  <2>2. 1 .. i \in SUBSET (1 .. n) /\ 1 .. n \in SUBSET (1 .. n) /\ 1 .. i \subseteq 1 .. n
    BY <1>1
  <2>3. \A j \in 1 .. i : terms[j] <= terms[j]
    BY <1>2, <2>2
  <2>4. QED
    BY <1>2, <1>3, <2>2, <2>3, SumNat, SumGrows
<1>5. \A i \in 1 .. n : upTo(i) = upTo(i - 1) + f[order[i]]
  <2>1. TAKE i \in 1 .. n
  <2>2. 1 .. i \in SUBSET (1 .. n) /\ i \in 1 .. i /\ (1 .. i) \ {i} = 1 .. (i - 1)
        /\ i - 1 \in 0 .. n
    BY <1>1
  <2>3. upTo(i) = terms[i] + upTo(i - 1)
    BY <1>1, <1>2, SumUpTo
  <2>4. upTo(i - 1) \in Nat /\ terms[i] \in Nat /\ terms[i] = f[order[i]]
    BY <1>2, <1>4, <2>2
  <2>5. QED
    BY <2>3, <2>4
<1>6. upTo(0) = 0
  <2>1. 1 .. 0 = {}
    OBVIOUS
  <2>2. QED
    BY <1>2, <1>3, <2>1, SumEmpty
<1>7. upTo(n) = SumOver(f, S)
  <2>1. S = {order[i] : i \in 1 .. n} /\ 1 .. n \in SUBSET (1 .. n)
    BY <1>1
  <2> DEFINE I == 1 .. n
  <2>2. order \in Injection(I, U)
    BY <1>1 DEF Injection, IsInjective
  <2>3. /\ IsFiniteSet(I) /\ terms \in [I -> Nat] /\ I \in SUBSET I
        /\ (\A i \in I : terms[i] = f[order[i]]) /\ S = {order[i] : i \in I}
    BY <1>2, <1>3, <2>1
  <2> HIDE DEF I
  <2>4. SumOver(terms, I) = SumOver(f, S)
    BY <2>2, <2>3, SumImage
  <2>5. QED
    BY <2>4 DEF I
<1>8. \A i \in 1 .. n : from[i] = upTo(i - 1)
  <2>1. TAKE i \in 1 .. n
  <2> DEFINE e == [j \in 1 .. i - 1 |-> f[order[j]]]
             I == 1 .. n
             V == 1 .. i - 1
  <2>2. i - 1 \in 0 .. n /\ V \in SUBSET I
    BY <1>1
  <2>3. DOMAIN e = V /\ \A j \in V : e[j] = terms[j]
    BY <1>2, <2>2
  <2>4. from[i] = SumOf(e)
    BY DEF AreOffsets, n
  <2> HIDE DEF e
  <2>5. IsFiniteSet(I) /\ terms \in [I -> Nat]
    BY <1>2, <1>3
  <2> HIDE DEF I, V
  <2>6. SumOf(e) = SumOver(terms, V)
    BY <2>2, <2>3, <2>5, SumOfIsSum
  <2>7. QED
    BY <2>4, <2>6 DEF V
<1> HIDE DEF upTo
<1>9. ASSUME NEW i \in 1 .. n
      PROVE  from[i] \in Nat /\ from[i] + f[order[i]] <= SumOver(f, S)
  <2>1. i - 1 \in 0 .. n /\ i \in 0 .. n
    BY <1>1
  <2>2. from[i] = upTo(i - 1) /\ upTo(i) = upTo(i - 1) + f[order[i]]
    BY <1>5, <1>8
  <2>3. QED
    BY <1>4, <1>7, <2>1, <2>2
<1>10. ASSUME NEW k \in 1 .. SumOver(f, S)
       PROVE  \E i \in 1 .. n : \E j \in 1 .. f[order[i]] : k = from[i] + j
  <2> DEFINE reach == {i \in 0 .. n : k <= upTo(i)}
  <2>0. /\ n \in 0 .. n /\ upTo(n) \in Nat
        /\ k \in Nat /\ 1 <= k /\ k <= upTo(n)
    <3>1. n \in 0 .. n /\ upTo(n) \in Nat
      BY <1>1, <1>4
    <3>2. SumOver(f, S) \in Nat
      BY <1>7, <3>1
    <3>3. QED
      BY <1>7, <3>1, <3>2
  <2>1. n \in reach /\ reach \in SUBSET Nat
    BY <1>7, <2>0
  <2>2. PICK i \in reach : \A m \in reach : i <= m
    <3> HIDE DEF reach
    <3>1. QED
      BY <2>1, LeastNumber
  <2>3. i # 0
    BY <1>6, <2>2
  <2>4. i \in 1 .. n /\ i - 1 \in 0 .. n /\ i - 1 \notin reach
    BY <1>1, <2>2, <2>3
  <2>5. upTo(i - 1) < k /\ k <= upTo(i - 1) + f[order[i]] /\ from[i] = upTo(i - 1)
    <3>1. upTo(i) = upTo(i - 1) + f[order[i]] /\ from[i] = upTo(i - 1)
      BY <1>5, <1>8, <2>4
    <3>2. upTo(i - 1) \in Nat /\ k <= upTo(i) /\ ~(k <= upTo(i - 1))
      BY <1>4, <2>2, <2>4
    <3>3. QED
      BY <2>0, <3>1, <3>2
  <2>6. f[order[i]] \in Nat /\ upTo(i - 1) \in Nat
    BY <1>2, <1>4, <2>4
  <2>7. k - from[i] \in 1 .. f[order[i]] /\ k = from[i] + (k - from[i])
    BY <2>0, <2>5, <2>6
  <2>8. QED
    BY <2>4, <2>7
<1>11. QED
  BY <1>9, <1>10 DEF n

-----------------------------------------------------------------------------
(* The batches of the server.  Column k of the row of a request is the     *)
(* cell of its k-th token, wherever the row starts in b_loc.               *)
Cell(b, i, k) == b.b_loc[i][b.max_len - b.b_seq_len[i] + k]

Members(b) == Range(b.requests)
At(b, r) == CHOOSE i \in DOMAIN b.requests : b.requests[i] = r
Size(b, r) == b.b_seq_len[At(b, r)] - 1
RowCells(b, r) == {Cell(b, At(b, r), k) : k \in 1 .. Size(b, r)}

BatchShape(b) ==
  /\ b.requests \in Seq(Req)
  /\ Len(b.requests) # 0
  /\ \A i, j \in DOMAIN b.requests : b.requests[i] = b.requests[j] => i = j
  /\ b.max_len \in Nat
  /\ b.b_seq_len \in [DOMAIN b.requests -> 1 .. b.max_len]
  /\ b.b_loc \in [DOMAIN b.requests -> Seq(Cells \cup {Unset})]
  /\ \A i \in DOMAIN b.requests :
       /\ Len(b.b_loc[i]) = b.max_len - 1
       /\ \A k \in 1 .. b.b_seq_len[i] - 1 : Cell(b, i, k) \in Cells

LEMMA AtIsPlace ==
  ASSUME NEW b, BatchShape(b)
  PROVE  /\ \A i \in DOMAIN b.requests : /\ b.requests[i] \in Members(b)
                                         /\ At(b, b.requests[i]) = i
         /\ \A r \in Members(b) : /\ At(b, r) \in DOMAIN b.requests
                                  /\ b.requests[At(b, r)] = r
                                  /\ r \in Req
<1>1. DOMAIN b.requests = 1 .. Len(b.requests)
      /\ b.requests \in [1 .. Len(b.requests) -> Req]
  BY DEF BatchShape
<1>2. ASSUME NEW i \in DOMAIN b.requests
      PROVE  b.requests[i] \in Members(b) /\ At(b, b.requests[i]) = i
  BY DEF BatchShape, Members, Range, At
<1>3. ASSUME NEW r \in Members(b)
      PROVE  At(b, r) \in DOMAIN b.requests /\ b.requests[At(b, r)] = r /\ r \in Req
  <2>1. \E i \in DOMAIN b.requests : b.requests[i] = r
    BY DEF Members, Range
  <2>2. QED
    BY <1>1, <2>1 DEF At
<1>4. QED
  BY <1>2, <1>3

(* A batch has members, who hold cells, one per column of their rows.      *)
LEMMA RowsHeld ==
  ASSUME NEW b, BatchShape(b)
  PROVE  /\ Members(b) # {} /\ Members(b) \in SUBSET Req
         /\ \A r \in Members(b) :
              /\ Size(b, r) \in Nat
              /\ RowCells(b, r) \subseteq Cells
              /\ IsFiniteSet(RowCells(b, r))
              /\ Cardinality(RowCells(b, r)) <= Size(b, r)
<1>1. Members(b) # {} /\ Members(b) \in SUBSET Req
  <2>1. 1 \in DOMAIN b.requests
    BY DEF BatchShape
  <2>2. b.requests[1] \in Members(b)
    BY <2>1, AtIsPlace
  <2>3. QED
    BY <2>2, AtIsPlace
<1>2. ASSUME NEW r \in Members(b)
      PROVE  /\ Size(b, r) \in Nat
             /\ RowCells(b, r) \subseteq Cells
             /\ IsFiniteSet(RowCells(b, r))
             /\ Cardinality(RowCells(b, r)) <= Size(b, r)
  <2>1. At(b, r) \in DOMAIN b.requests
    BY AtIsPlace
  <2>2. b.b_seq_len[At(b, r)] \in 1 .. b.max_len /\ b.max_len \in Nat
    BY <2>1 DEF BatchShape
  <2>3. Size(b, r) \in Nat
    BY <2>2 DEF Size
  <2>4. RowCells(b, r) \subseteq Cells
    BY <2>1 DEF BatchShape, RowCells, Size
  <2> DEFINE n == Size(b, r)
             f == [k \in 1 .. n |-> Cell(b, At(b, r), k)]
  <2>5. f \in Surjection(1 .. n, RowCells(b, r))
    BY DEF RowCells, Surjection
  <2>6. IsFiniteSet(1 .. n) /\ Cardinality(1 .. n) = n
    BY <2>3, FirstNumbers
  <2> HIDE DEF f
  <2>7. IsFiniteSet(RowCells(b, r)) /\ Cardinality(RowCells(b, r)) <= n
    BY <2>5, <2>6, FS_Surjection
  <2>8. QED
    BY <2>3, <2>4, <2>7
<1>3. QED
  BY <1>1, <1>2

(* What filter and free_self give back is the row.                         *)
LEMMA SliceIsRow ==
  ASSUME NEW b, BatchShape(b), NEW i \in DOMAIN b.requests
  PROVE  /\ Len(RowSlice(b, i)) = Size(b, b.requests[i])
         /\ Range(RowSlice(b, i)) = RowCells(b, b.requests[i])
<1> DEFINE s == b.b_loc[i]
           m == b.max_len
           len == b.b_seq_len[i]
           lo == m - len + 1
<1>1. /\ m \in Nat /\ len \in Nat /\ 1 <= len /\ len <= m
      /\ s \in Seq(Cells \cup {Unset}) /\ Len(s) = m - 1
      /\ At(b, b.requests[i]) = i
      /\ \A k \in 1 .. len - 1 : Cell(b, i, k) = s[m - len + k]
  BY AtIsPlace DEF BatchShape, Cell
<1>2. RowSlice(b, i) = SubSeq(s, lo, m - 1)
  BY DEF RowSlice
<1>3. Size(b, b.requests[i]) = len - 1
        /\ RowCells(b, b.requests[i]) = {Cell(b, i, k) : k \in 1 .. len - 1}
  BY <1>1 DEF Size, RowCells
<1> HIDE DEF s, m, len
<1>4. lo \in Int /\ m - 1 \in Int /\ \A j \in lo .. m - 1 : s[j] \in Cells \cup {Unset}
  <2>1. \A j \in 1 .. Len(s) : s[j] \in Cells \cup {Unset}
    BY <1>1, ElementOfSeq
  <2>2. QED
    BY <1>1, <2>1
<1>5. /\ SubSeq(s, lo, m - 1) \in Seq(Cells \cup {Unset})
      /\ Len(SubSeq(s, lo, m - 1)) = len - 1
      /\ \A k \in 1 .. len - 1 : SubSeq(s, lo, m - 1)[k] = s[m - len + k]
  <2>1. /\ SubSeq(s, lo, m - 1) \in Seq(Cells \cup {Unset})
        /\ Len(SubSeq(s, lo, m - 1)) = IF lo <= m - 1 THEN (m - 1) - lo + 1 ELSE 0
        /\ \A k \in 1 .. (m - 1) - lo + 1 : SubSeq(s, lo, m - 1)[k] = s[lo + k - 1]
    <3> HIDE DEF lo
    <3>1. QED
      BY <1>4, SubSeqProperties
  <2>2. (m - 1) - lo + 1 = len - 1 /\ (lo > m - 1 => len - 1 = 0)
        /\ \A k \in 1 .. len - 1 : lo + k - 1 = m - len + k
    BY <1>1
  <2>3. QED
    BY <1>1, <2>1, <2>2
<1>6. DOMAIN SubSeq(s, lo, m - 1) = 1 .. len - 1
  BY <1>5
<1>7. Range(RowSlice(b, i)) = {RowSlice(b, i)[k] : k \in 1 .. len - 1}
  BY <1>2, <1>6 DEF Range
<1>8. \A k \in 1 .. len - 1 : RowSlice(b, i)[k] = Cell(b, i, k)
  BY <1>1, <1>2, <1>5
<1>9. Range(RowSlice(b, i)) = RowCells(b, b.requests[i])
  BY <1>3, <1>7, <1>8
<1>10. QED
  BY <1>2, <1>3, <1>5, <1>9

(* The same columns, in whichever row and from wherever, are the same row. *)
LEMMA SameRow ==
  ASSUME NEW b, BatchShape(b), NEW c, BatchShape(c),
         NEW i \in DOMAIN b.requests, NEW j \in DOMAIN c.requests,
         b.requests[i] = c.requests[j], b.b_seq_len[i] = c.b_seq_len[j],
         \A k \in 1 .. b.b_seq_len[i] - 1 : Cell(b, i, k) = Cell(c, j, k)
  PROVE  /\ Size(b, b.requests[i]) = Size(c, b.requests[i])
         /\ RowCells(b, b.requests[i]) = RowCells(c, b.requests[i])
<1>1. At(b, b.requests[i]) = i /\ At(c, b.requests[i]) = j
  BY AtIsPlace
<1>2. QED
  BY <1>1 DEF Size, RowCells

(* filter takes rows out, moves the others up and drops the columns that   *)
(* only the others used; no row changes.                                   *)
LEMMA FilteredBatch ==
  ASSUME NEW b, BatchShape(b), NEW left, Members(b) \cap left # {}
  PROVE  /\ BatchShape(Filtered(b, left))
         /\ Members(Filtered(b, left)) = Members(b) \cap left
         /\ \A r \in Members(b) \cap left :
              /\ Size(Filtered(b, left), r) = Size(b, r)
              /\ RowCells(Filtered(b, left), r) = RowCells(b, r)
<1> DEFINE stay == {i \in DOMAIN b.requests : b.requests[i] \in left}
           n == Cardinality(stay)
           idx == [k \in 1 .. n |-> Nth(stay, k)]
           lens == [k \in 1 .. n |-> b.b_seq_len[idx[k]]]
           m == Max(Range(lens))
           c == Filtered(b, left)
<1>1. /\ b.requests \in Seq(Req) /\ DOMAIN b.requests = 1 .. Len(b.requests)
      /\ Len(b.requests) \in Nat /\ b.max_len \in Nat
      /\ b.b_seq_len \in [DOMAIN b.requests -> 1 .. b.max_len]
      /\ DOMAIN b.b_loc = DOMAIN b.requests
  BY DEF BatchShape
<1>2. stay \in SUBSET DOMAIN b.requests /\ stay \in SUBSET Nat /\ IsFiniteSet(stay)
  <2>1. stay \in SUBSET DOMAIN b.requests /\ stay \in SUBSET Nat
    BY <1>1
  <2>2. IsFiniteSet(1 .. Len(b.requests))
    BY <1>1, FirstNumbers
  <2> HIDE DEF stay
  <2>3. QED
    BY <1>1, <2>1, <2>2, FS_Subset
<1>3. n \in Nat /\ n # 0
  <2>1. stay # {}
    BY AtIsPlace
  <2> HIDE DEF stay
  <2>2. QED
    BY <1>2, <2>1, FS_EmptySet, FS_CardinalityType
<1>4. /\ idx \in [1 .. n -> stay]
      /\ \A j, k \in 1 .. n : idx[j] = idx[k] => j = k
      /\ \A i \in stay : \E k \in 1 .. n : idx[k] = i
  <2> HIDE DEF stay
  <2>1. QED
    BY <1>2, NthIn
<1>5. /\ c.requests = [k \in 1 .. n |-> b.requests[idx[k]]]
      /\ c.b_loc = [k \in 1 .. n |-> FilteredRow(b, idx[k], m)]
      /\ c.b_seq_len = lens
      /\ c.max_len = m
  <2>1. DOMAIN idx = 1 .. n
    OBVIOUS
  <2>2. QED
    BY <2>1 DEF Filtered
<1> HIDE DEF c, idx, n
<1>6. lens \in [1 .. n -> 1 .. b.max_len]
  BY <1>1, <1>2, <1>4
<1>7. m \in 1 .. b.max_len /\ \A k \in 1 .. n : lens[k] <= m
  <2>1. Range(lens) \in SUBSET (1 .. b.max_len) /\ (\A k \in 1 .. n : lens[k] \in Range(lens))
    BY <1>6 DEF Range
  <2>2. Range(lens) # {}
    <3>1. 1 \in 1 .. n
      BY <1>3
    <3>2. QED
      BY <2>1, <3>1
  <2>3. IsFiniteSet(1 .. b.max_len)
    BY <1>1, FirstNumbers
  <2> HIDE DEF lens
  <2>4. IsFiniteSet(Range(lens)) /\ Range(lens) \in SUBSET Nat
    BY <1>1, <2>1, <2>3, FS_Subset
  <2>5. m \in Range(lens) /\ \A y \in Range(lens) : y <= m
    BY <2>2, <2>4, GreatestNumber
  <2>6. QED
    BY <2>1, <2>5
<1> HIDE DEF m
<1>8. ASSUME NEW k \in 1 .. n
      PROVE  /\ idx[k] \in DOMAIN b.requests /\ b.requests[idx[k]] \in left
             /\ b.requests[idx[k]] \in Req
             /\ c.requests[k] = b.requests[idx[k]]
             /\ c.b_seq_len[k] = b.b_seq_len[idx[k]]
             /\ c.b_loc[k] = FilteredRow(b, idx[k], m)
             /\ c.b_seq_len[k] \in 1 .. m
  <2>1. idx[k] \in stay /\ idx[k] \in DOMAIN b.requests
    BY <1>2, <1>4
  <2>2. lens[k] \in 1 .. m /\ lens[k] = b.b_seq_len[idx[k]]
    BY <1>6, <1>7
  <2> HIDE DEF lens
  <2>3. c.b_seq_len[k] = lens[k]
    BY <1>5
  <2>4. QED
    BY <1>1, <1>5, <2>1, <2>2, <2>3
<1>9. ASSUME NEW k \in 1 .. n
      PROVE  /\ c.b_loc[k] \in Seq(Cells \cup {Unset})
             /\ Len(c.b_loc[k]) = m - 1
             /\ \A j \in 1 .. c.b_seq_len[k] - 1 : Cell(c, k, j) = Cell(b, idx[k], j)
  <2> DEFINE s == b.b_loc[idx[k]]
             old == b.max_len
             lo == old - m + 1
             hi == old - 1
             len == c.b_seq_len[k]
  <2>1. /\ s \in Seq(Cells \cup {Unset}) /\ Len(s) = old - 1
        /\ len = b.b_seq_len[idx[k]] /\ len \in 1 .. m
        /\ c.b_loc[k] = SubSeq(s, lo, hi)
    BY <1>8 DEF BatchShape, FilteredRow
  <2>2. m \in Nat /\ 1 <= m /\ m <= old /\ old \in Nat
    BY <1>1, <1>7
  <2>3. c.max_len = m
    BY <1>5
  <2>4. /\ \A j \in 1 .. len - 1 : Cell(c, k, j) = c.b_loc[k][m - len + j]
        /\ \A j \in 1 .. len - 1 : Cell(b, idx[k], j) = s[old - len + j]
    BY <2>1, <2>3 DEF Cell
  <2> HIDE DEF s, old, len
  <2>5. lo \in Int /\ hi \in Int /\ \A j \in lo .. hi : s[j] \in Cells \cup {Unset}
    <3>1. \A j \in 1 .. Len(s) : s[j] \in Cells \cup {Unset}
      BY <2>1, ElementOfSeq
    <3>2. \A j \in lo .. hi : j \in 1 .. Len(s)
      BY <2>1, <2>2
    <3>3. QED
      BY <2>2, <3>1, <3>2
  <2>6. (IF lo <= hi THEN hi - lo + 1 ELSE 0) = m - 1 /\ hi - lo + 1 = m - 1
    BY <2>2
  <2>7. \A j \in 1 .. len - 1 : /\ m - len + j \in 1 .. m - 1
                                /\ lo + (m - len + j) - 1 = old - len + j
    <3>1. TAKE j \in 1 .. len - 1
    <3>2. len \in Nat /\ 1 <= len /\ len <= m
      BY <2>1, <2>2
    <3>3. j \in Nat /\ 1 <= j /\ j <= len - 1
      BY <3>2
    <3>4. QED
      BY <2>2, <3>2, <3>3
  <2> HIDE DEF lo, hi
  <2>8. /\ SubSeq(s, lo, hi) \in Seq(Cells \cup {Unset})
        /\ Len(SubSeq(s, lo, hi)) = m - 1
        /\ \A j \in 1 .. m - 1 : SubSeq(s, lo, hi)[j] = s[lo + j - 1]
    BY <2>5, <2>6, SubSeqProperties
  <2>9. \A j \in 1 .. len - 1 : c.b_loc[k][m - len + j] = s[old - len + j]
    BY <2>1, <2>7, <2>8
  <2>10. QED
    BY <2>1, <2>4, <2>8, <2>9 DEF len
<1>10. BatchShape(c)
  <2>1. DOMAIN c.requests = 1 .. n /\ c.requests \in [1 .. n -> Req]
    BY <1>5, <1>8
  <2>2. c.requests \in Seq(Req) /\ Len(c.requests) = n
    BY <1>3, <2>1
  <2>3. \A i, j \in 1 .. n : c.requests[i] = c.requests[j] => i = j
    BY <1>4, <1>8 DEF BatchShape
  <2>4. c.max_len = m /\ m \in Nat
    BY <1>1, <1>5, <1>7
  <2>5. DOMAIN c.b_seq_len = 1 .. n /\ c.b_seq_len \in [1 .. n -> 1 .. m]
    BY <1>5, <1>8
  <2>6. c.b_loc \in [1 .. n -> Seq(Cells \cup {Unset})]
    BY <1>5, <1>9
  <2>7. \A k \in 1 .. n : \A j \in 1 .. c.b_seq_len[k] - 1 : Cell(c, k, j) \in Cells
    <3>1. TAKE k \in 1 .. n
    <3>2. /\ idx[k] \in DOMAIN b.requests
          /\ c.b_seq_len[k] = b.b_seq_len[idx[k]]
          /\ \A j \in 1 .. c.b_seq_len[k] - 1 : Cell(c, k, j) = Cell(b, idx[k], j)
      BY <1>8, <1>9
    <3>3. \A j \in 1 .. b.b_seq_len[idx[k]] - 1 : Cell(b, idx[k], j) \in Cells
      BY <3>2 DEF BatchShape
    <3>4. QED
      BY <3>2, <3>3
  <2>8. QED
    BY <1>3, <1>9, <2>1, <2>2, <2>3, <2>4, <2>5, <2>6, <2>7 DEF BatchShape
<1>11. Members(c) = Members(b) \cap left
  <2>1. DOMAIN c.requests = 1 .. n
    BY <1>5
  <2>2. ASSUME NEW r \in Members(b) \cap left
        PROVE  r \in Members(c)
    <3>1. At(b, r) \in stay /\ b.requests[At(b, r)] = r
      BY AtIsPlace
    <3>2. PICK k \in 1 .. n : idx[k] = At(b, r)
      BY <1>4, <3>1
    <3>3. QED
      BY <1>8, <2>1, <3>1, <3>2 DEF Members, Range
  <2>3. ASSUME NEW k \in 1 .. n
        PROVE  c.requests[k] \in Members(b) \cap left
    BY <1>8, AtIsPlace
  <2>4. QED
    BY <2>1, <2>2, <2>3 DEF Members, Range
<1>12. ASSUME NEW r \in Members(c)
       PROVE  Size(c, r) = Size(b, r) /\ RowCells(c, r) = RowCells(b, r)
  <2>1. PICK k \in DOMAIN c.requests : c.requests[k] = r
    BY <1>10, AtIsPlace
  <2>2. k \in 1 .. n
    BY <1>5, <2>1
  <2>3. /\ idx[k] \in DOMAIN b.requests
        /\ c.requests[k] = b.requests[idx[k]] /\ c.b_seq_len[k] = b.b_seq_len[idx[k]]
        /\ \A j \in 1 .. c.b_seq_len[k] - 1 : Cell(c, k, j) = Cell(b, idx[k], j)
    BY <1>8, <1>9, <2>2
  <2>4. QED
    BY <1>10, <2>1, <2>3, SameRow
<1>13. QED
  BY <1>10, <1>11, <1>12 DEF c

(* Columns put before a row push it to the right.                          *)
LEMMA PaddedRow ==
  ASSUME NEW S, Unset \in S, NEW s \in Seq(S), NEW n \in Nat
  PROVE  /\ Padded(s, n) \in Seq(S)
         /\ Len(Padded(s, n)) = n + Len(s)
         /\ \A k \in 1 .. Len(s) : Padded(s, n)[n + k] = s[k]
<1> DEFINE pad == [i \in 1 .. n |-> Unset]
<1>1. pad \in Seq(S) /\ Len(pad) = n
  OBVIOUS
<1>2. Padded(s, n) = pad \o s
  BY DEF Padded
<1>3. Len(s) \in Nat
  BY LenProperties
<1> HIDE DEF pad
<1>4. /\ pad \o s \in Seq(S) /\ Len(pad \o s) = Len(pad) + Len(s)
      /\ \A i \in 1 .. Len(pad) + Len(s) :
           (pad \o s)[i] = IF i <= Len(pad) THEN pad[i] ELSE s[i - Len(pad)]
  BY <1>1, ConcatProperties
<1>5. ASSUME NEW k \in 1 .. Len(s)
      PROVE  (pad \o s)[n + k] = s[k]
  <2>1. n + k \in 1 .. Len(pad) + Len(s) /\ ~(n + k <= Len(pad)) /\ (n + k) - Len(pad) = k
    BY <1>1, <1>3
  <2>2. (pad \o s)[n + k] = s[(n + k) - Len(pad)]
    BY <1>4, <2>1
  <2>3. QED
    BY <2>1, <2>2
<1>6. QED
  BY <1>1, <1>2, <1>4, <1>5

LEMMA BatchParts ==
  ASSUME NEW b, BatchShape(b), NEW n, n = Len(b.requests), NEW m, m = b.max_len
  PROVE  /\ n \in Nat /\ n # 0 /\ m \in Nat
         /\ DOMAIN b.requests = 1 .. n
         /\ b.requests \in [1 .. n -> Req]
         /\ b.b_seq_len \in [1 .. n -> 1 .. m]
         /\ b.b_loc \in [1 .. n -> Seq(Cells \cup {Unset})]
         /\ \A i \in 1 .. n :
              /\ Len(b.b_loc[i]) = m - 1
              /\ \A k \in 1 .. b.b_seq_len[i] - 1 : Cell(b, i, k) \in Cells
         /\ \A i, j \in 1 .. n : b.requests[i] = b.requests[j] => i = j
<1> DEFINE s == b.requests
<1>1. s \in Seq(Req) /\ n = Len(s) /\ n # 0
  BY DEF BatchShape
<1>2. DOMAIN b.requests = 1 .. n /\ b.requests \in [1 .. n -> Req] /\ n \in Nat
  <2> HIDE DEF s
  <2>1. DOMAIN s = 1 .. n /\ s \in [1 .. n -> Req] /\ n \in Nat
    BY <1>1, LenProperties
  <2>2. QED
    BY <2>1 DEF s
<1> HIDE DEF s
<1>3. QED
  BY <1>1, <1>2 DEF BatchShape

(* The other way round, for a batch put together from its parts.           *)
LEMMA BatchOfParts ==
  ASSUME NEW b, NEW n \in Nat, n # 0, b.max_len \in Nat,
         b.requests \in [1 .. n -> Req],
         b.b_seq_len \in [1 .. n -> 1 .. b.max_len],
         b.b_loc \in [1 .. n -> Seq(Cells \cup {Unset})],
         \A i \in 1 .. n :
           /\ Len(b.b_loc[i]) = b.max_len - 1
           /\ \A k \in 1 .. b.b_seq_len[i] - 1 : Cell(b, i, k) \in Cells,
         \A i, j \in 1 .. n : b.requests[i] = b.requests[j] => i = j
  PROVE  BatchShape(b) /\ Len(b.requests) = n
<1>1. b.requests \in Seq(Req) /\ DOMAIN b.requests = 1 .. n /\ Len(b.requests) = n
  OBVIOUS
<1>2. QED
  BY <1>1 DEF BatchShape

(* merge pads the batch with the shorter rows,                             *)
LEMMA PaddedBatch ==
  ASSUME NEW b, BatchShape(b), NEW m \in Nat, b.max_len <= m,
         NEW p, p.requests = b.requests, p.b_seq_len = b.b_seq_len, p.max_len = m,
         p.b_loc = [i \in DOMAIN b.b_loc |-> Padded(b.b_loc[i], m - b.max_len)]
  PROVE  /\ BatchShape(p) /\ Members(p) = Members(b)
         /\ \A r \in Members(b) : Size(p, r) = Size(b, r) /\ RowCells(p, r) = RowCells(b, r)
<1> DEFINE D == DOMAIN b.requests
           old == b.max_len
           S == Cells \cup {Unset}
<1>1. /\ old \in Nat /\ old <= m /\ m - old \in Nat
      /\ DOMAIN b.b_loc = D /\ DOMAIN p.requests = D /\ DOMAIN p.b_loc = D
      /\ b.b_seq_len \in [D -> 1 .. old]
  BY DEF BatchShape
<1>2. ASSUME NEW i \in D
      PROVE  /\ b.b_loc[i] \in Seq(S) /\ Len(b.b_loc[i]) = old - 1
             /\ p.b_loc[i] = Padded(b.b_loc[i], m - old)
             /\ b.b_seq_len[i] \in 1 .. old
             /\ \A k \in 1 .. b.b_seq_len[i] - 1 :
                  /\ Cell(b, i, k) = b.b_loc[i][old - b.b_seq_len[i] + k]
                  /\ Cell(p, i, k) = p.b_loc[i][m - b.b_seq_len[i] + k]
                  /\ Cell(b, i, k) \in Cells
  BY <1>1 DEF BatchShape, Cell
<1> HIDE DEF D, old, S
<1>3. ASSUME NEW i \in D
      PROVE  /\ p.b_loc[i] \in Seq(S) /\ Len(p.b_loc[i]) = m - 1
             /\ \A k \in 1 .. b.b_seq_len[i] - 1 : Cell(p, i, k) = Cell(b, i, k)
  <2> DEFINE s == b.b_loc[i]
             len == b.b_seq_len[i]
  <2>1. /\ s \in Seq(S) /\ Len(s) = old - 1 /\ p.b_loc[i] = Padded(s, m - old)
        /\ len \in Nat /\ 1 <= len /\ len <= old
    BY <1>1, <1>2
  <2>2. Unset \in S
    BY DEF S
  <2> HIDE DEF s
  <2>3. /\ Padded(s, m - old) \in Seq(S) /\ Len(Padded(s, m - old)) = (m - old) + Len(s)
        /\ \A k \in 1 .. Len(s) : Padded(s, m - old)[(m - old) + k] = s[k]
    BY <1>1, <2>1, <2>2, PaddedRow
  <2>4. \A k \in 1 .. len - 1 : /\ old - len + k \in 1 .. Len(s)
                                /\ (m - old) + (old - len + k) = m - len + k
    <3> HIDE DEF len
    <3>1. QED
      BY <1>1, <2>1
  <2>5. \A k \in 1 .. len - 1 : p.b_loc[i][m - len + k] = s[old - len + k]
    BY <2>1, <2>3, <2>4
  <2>6. Len(p.b_loc[i]) = m - 1
    <3> HIDE DEF len
    <3>1. QED
      BY <1>1, <2>1, <2>3
  <2>7. ASSUME NEW k \in 1 .. len - 1
        PROVE  Cell(p, i, k) = Cell(b, i, k)
    <3>1. Cell(b, i, k) = s[old - len + k] /\ Cell(p, i, k) = p.b_loc[i][m - len + k]
      BY <1>2 DEF s
    <3>2. QED
      BY <2>5, <3>1
  <2>8. QED
    BY <2>1, <2>3, <2>6, <2>7
<1>4. BatchShape(p)
  <2>1. p.b_seq_len \in [D -> 1 .. m] /\ p.max_len = m
    BY <1>1
  <2>2. p.b_loc \in [D -> Seq(S)]
    BY <1>1, <1>3
  <2>3. /\ p.requests \in Seq(Req) /\ Len(p.requests) # 0
        /\ \A i, j \in D : p.requests[i] = p.requests[j] => i = j
    BY DEF BatchShape, D
  <2>4. \A i \in D : \A k \in 1 .. p.b_seq_len[i] - 1 : Cell(p, i, k) \in Cells
    BY <1>2, <1>3
  <2>5. QED
    BY <1>1, <1>3, <2>1, <2>2, <2>3, <2>4 DEF BatchShape, S
<1>5. Members(p) = Members(b)
  BY DEF Members
<1>6. ASSUME NEW r \in Members(b)
      PROVE  Size(p, r) = Size(b, r) /\ RowCells(p, r) = RowCells(b, r)
  <2>1. At(b, r) \in DOMAIN b.requests /\ b.requests[At(b, r)] = r
    BY AtIsPlace
  <2>2. \A k \in 1 .. b.b_seq_len[At(b, r)] - 1 : Cell(b, At(b, r), k) = Cell(p, At(b, r), k)
    BY <1>3, <2>1 DEF D
  <2>3. QED
    BY <1>4, <2>1, <2>2, SameRow
<1>7. QED
  BY <1>4, <1>5, <1>6

Stacked(u, s, t, n, l, S) ==
  /\ u \in [1 .. n + l -> S]
  /\ \A i \in 1 .. n : u[i] = s[i]
  /\ \A i \in 1 .. l : u[n + i] = t[i]

LEMMA Joined ==
  ASSUME NEW n \in Nat, NEW l \in Nat, NEW S,
         NEW s \in [1 .. n -> S], NEW t \in [1 .. l -> S], NEW u, u = s \o t
  PROVE  Stacked(u, s, t, n, l, S)
<1>1. s \in Seq(S) /\ Len(s) = n /\ t \in Seq(S) /\ Len(t) = l
  OBVIOUS
<1>2. /\ u \in Seq(S) /\ Len(u) = n + l
      /\ \A i \in 1 .. n + l : u[i] = IF i <= n THEN s[i] ELSE t[i - n]
  BY <1>1, ConcatProperties
<1>3. u \in [1 .. n + l -> S]
  <2> DEFINE N == n + l
  <2>1. u \in Seq(S) /\ Len(u) = N
    BY <1>2
  <2> HIDE DEF N
  <2>2. u \in [1 .. N -> S]
    BY <2>1, LenProperties
  <2>3. QED
    BY <2>2 DEF N
<1>4. \A i \in 1 .. n : i \in 1 .. n + l /\ i <= n
  OBVIOUS
<1>5. \A i \in 1 .. l : n + i \in 1 .. n + l /\ ~(n + i <= n) /\ (n + i) - n = i
  OBVIOUS
<1>6. QED
  BY <1>2, <1>3, <1>4, <1>5 DEF Stacked

(* and then puts the rows of one below those of the other.                 *)
IsJoined(d, b, c) ==
  /\ d.requests = b.requests \o c.requests
  /\ d.b_loc = b.b_loc \o c.b_loc
  /\ d.b_seq_len = b.b_seq_len \o c.b_seq_len
  /\ d.max_len = b.max_len

LEMMA JoinedBatch ==
  ASSUME NEW b, BatchShape(b), NEW c, BatchShape(c), b.max_len = c.max_len,
         Members(b) \cap Members(c) = {},
         NEW d, IsJoined(d, b, c)
  PROVE  /\ BatchShape(d) /\ Members(d) = Members(b) \cup Members(c)
         /\ \A r \in Members(b) : Size(d, r) = Size(b, r) /\ RowCells(d, r) = RowCells(b, r)
         /\ \A r \in Members(c) : Size(d, r) = Size(c, r) /\ RowCells(d, r) = RowCells(c, r)
<1> DEFINE n == Len(b.requests)
           l == Len(c.requests)
           m == d.max_len
           RowLists == Seq(Cells \cup {Unset})
<1>0. m = b.max_len /\ m = c.max_len /\ m = d.max_len /\ n = Len(b.requests) /\ l = Len(c.requests)
  BY DEF IsJoined
<1> HIDE DEF n, l, m
<1>1. n \in Nat /\ l \in Nat /\ n # 0 /\ m \in Nat
  BY <1>0, BatchParts
<1>2. /\ DOMAIN b.requests = 1 .. n
      /\ b.requests \in [1 .. n -> Req]
      /\ b.b_seq_len \in [1 .. n -> 1 .. m]
      /\ b.b_loc \in [1 .. n -> RowLists]
      /\ \A i \in 1 .. n :
           /\ Len(b.b_loc[i]) = m - 1
           /\ \A k \in 1 .. b.b_seq_len[i] - 1 : Cell(b, i, k) \in Cells
      /\ \A i, j \in 1 .. n : b.requests[i] = b.requests[j] => i = j
  BY <1>0, BatchParts
<1>3. /\ DOMAIN c.requests = 1 .. l
      /\ c.requests \in [1 .. l -> Req]
      /\ c.b_seq_len \in [1 .. l -> 1 .. m]
      /\ c.b_loc \in [1 .. l -> RowLists]
      /\ \A i \in 1 .. l :
           /\ Len(c.b_loc[i]) = m - 1
           /\ \A k \in 1 .. c.b_seq_len[i] - 1 : Cell(c, i, k) \in Cells
      /\ \A i, j \in 1 .. l : c.requests[i] = c.requests[j] => i = j
  BY <1>0, BatchParts
<1>4. Stacked(d.requests, b.requests, c.requests, n, l, Req)
  <2> DEFINE s == b.requests
             t == c.requests
             u == d.requests
  <2>1. n \in Nat /\ l \in Nat /\ s \in [1 .. n -> Req] /\ t \in [1 .. l -> Req] /\ u = s \o t
    BY <1>1, <1>2, <1>3 DEF IsJoined
  <2> HIDE DEF s, t, u
  <2>2. Stacked(u, s, t, n, l, Req)
    BY <2>1, Joined
  <2>3. QED
    BY <2>2 DEF s, t, u
<1>5. Stacked(d.b_seq_len, b.b_seq_len, c.b_seq_len, n, l, 1 .. m)
  <2> DEFINE s == b.b_seq_len
             t == c.b_seq_len
             u == d.b_seq_len
             Lens == 1 .. m
  <2>1. n \in Nat /\ l \in Nat /\ s \in [1 .. n -> Lens] /\ t \in [1 .. l -> Lens] /\ u = s \o t
    BY <1>1, <1>2, <1>3 DEF IsJoined
  <2> HIDE DEF s, t, u, Lens
  <2>2. Stacked(u, s, t, n, l, Lens)
    BY <2>1, Joined
  <2>3. QED
    BY <2>2 DEF s, t, u, Lens
<1>6. Stacked(d.b_loc, b.b_loc, c.b_loc, n, l, RowLists)
  <2> DEFINE s == b.b_loc
             t == c.b_loc
             u == d.b_loc
  <2>1. n \in Nat /\ l \in Nat /\ s \in [1 .. n -> RowLists] /\ t \in [1 .. l -> RowLists] /\ u = s \o t
    BY <1>1, <1>2, <1>3 DEF IsJoined
  <2> HIDE DEF s, t, u, RowLists
  <2>2. Stacked(u, s, t, n, l, RowLists)
    BY <2>1, Joined
  <2>3. QED
    BY <2>2 DEF s, t, u
<1> HIDE DEF RowLists
(* A row of the upper part, and one of the lower.                          *)
<1>7. ASSUME NEW i \in 1 .. n
      PROVE  /\ i \in 1 .. n + l
             /\ d.requests[i] = b.requests[i] /\ d.b_seq_len[i] = b.b_seq_len[i]
             /\ d.b_loc[i] = b.b_loc[i]
             /\ \A k : Cell(d, i, k) = Cell(b, i, k)
  <2>1. i \in 1 .. n + l
    BY <1>1
  <2>2. /\ d.requests[i] = b.requests[i] /\ d.b_seq_len[i] = b.b_seq_len[i]
        /\ d.b_loc[i] = b.b_loc[i]
    BY <1>4, <1>5, <1>6 DEF Stacked
  <2>3. QED
    BY <1>0, <2>1, <2>2 DEF Cell
<1>8. ASSUME NEW i \in 1 .. l
      PROVE  /\ n + i \in 1 .. n + l
             /\ d.requests[n + i] = c.requests[i] /\ d.b_seq_len[n + i] = c.b_seq_len[i]
             /\ d.b_loc[n + i] = c.b_loc[i]
             /\ \A k : Cell(d, n + i, k) = Cell(c, i, k)
  <2>1. n + i \in 1 .. n + l
    BY <1>1
  <2>2. /\ d.requests[n + i] = c.requests[i] /\ d.b_seq_len[n + i] = c.b_seq_len[i]
        /\ d.b_loc[n + i] = c.b_loc[i]
    BY <1>4, <1>5, <1>6 DEF Stacked
  <2>3. QED
    BY <1>0, <2>1, <2>2 DEF Cell
<1>9. \A i \in 1 .. n + l : i \in 1 .. n \/ \E j \in 1 .. l : i = n + j
  <2>1. TAKE i \in 1 .. n + l
  <2>2. CASE i <= n
    BY <1>1, <2>2
  <2>3. CASE ~(i <= n)
    <3>1. i - n \in 1 .. l /\ i = n + (i - n)
      BY <1>1, <2>3
    <3>2. QED
      BY <3>1
  <2>4. QED
    BY <2>2, <2>3
<1>10. BatchShape(d) /\ DOMAIN d.requests = 1 .. n + l
  <2>1. \A i \in 1 .. n, j \in 1 .. l : b.requests[i] # c.requests[j]
    <3>1. TAKE i \in 1 .. n, j \in 1 .. l
    <3>2. b.requests[i] \in Members(b) /\ c.requests[j] \in Members(c)
      BY <1>2, <1>3, AtIsPlace
    <3>3. QED
      BY <3>2
  <2>2. \A i, j \in 1 .. n + l : d.requests[i] = d.requests[j] => i = j
    <3>1. TAKE i, j \in 1 .. n + l
    <3>2. CASE i \in 1 .. n /\ j \in 1 .. n
      BY <1>2, <1>7, <3>2
    <3>3. ASSUME NEW p \in 1 .. l, i = n + p, NEW q \in 1 .. l, j = n + q
          PROVE  d.requests[i] = d.requests[j] => i = j
      BY <1>3, <1>8, <3>3
    <3>4. ASSUME i \in 1 .. n, NEW q \in 1 .. l, j = n + q
          PROVE  d.requests[i] # d.requests[j]
      BY <1>7, <1>8, <2>1, <3>4
    <3>5. ASSUME NEW p \in 1 .. l, i = n + p, j \in 1 .. n
          PROVE  d.requests[i] # d.requests[j]
      BY <1>7, <1>8, <2>1, <3>5
    <3>6. QED
      BY <1>9, <3>2, <3>3, <3>4, <3>5
  <2>3. \A i \in 1 .. n + l :
          /\ Len(d.b_loc[i]) = m - 1
          /\ \A k \in 1 .. d.b_seq_len[i] - 1 : Cell(d, i, k) \in Cells
    <3>1. ASSUME NEW i \in 1 .. n
          PROVE  /\ Len(d.b_loc[i]) = m - 1
                 /\ \A k \in 1 .. d.b_seq_len[i] - 1 : Cell(d, i, k) \in Cells
      BY <1>2, <1>7
    <3>2. ASSUME NEW i \in 1 .. l
          PROVE  /\ Len(d.b_loc[n + i]) = m - 1
                 /\ \A k \in 1 .. d.b_seq_len[n + i] - 1 : Cell(d, n + i, k) \in Cells
      BY <1>3, <1>8
    <3>3. QED
      BY <1>9, <3>1, <3>2
  <2>4. n + l \in Nat /\ n + l # 0
    BY <1>1
  <2>5. /\ d.requests \in [1 .. n + l -> Req]
        /\ d.b_seq_len \in [1 .. n + l -> 1 .. m]
        /\ d.b_loc \in [1 .. n + l -> RowLists]
    BY <1>4, <1>5, <1>6 DEF Stacked
  <2>6. d.max_len = m
    BY <1>0 DEF IsJoined
  <2> DEFINE N == n + l
  <2> HIDE DEF N
  <2>7. /\ N \in Nat /\ N # 0 /\ d.max_len \in Nat /\ N = n + l
        /\ d.requests \in [1 .. N -> Req]
        /\ d.b_seq_len \in [1 .. N -> 1 .. d.max_len]
        /\ d.b_loc \in [1 .. N -> Seq(Cells \cup {Unset})]
        /\ \A i \in 1 .. N :
             /\ Len(d.b_loc[i]) = d.max_len - 1
             /\ \A k \in 1 .. d.b_seq_len[i] - 1 : Cell(d, i, k) \in Cells
        /\ \A i, j \in 1 .. N : d.requests[i] = d.requests[j] => i = j
    BY <1>1, <2>2, <2>3, <2>4, <2>5, <2>6 DEF N, RowLists
  <2>8. BatchShape(d)
    BY <2>7, BatchOfParts
  <2>9. QED
    BY <2>7, <2>8
<1>11. Members(d) = Members(b) \cup Members(c)
  <2>1. \A i \in 1 .. n : d.requests[i] \in Members(b) /\ b.requests[i] \in Members(d)
    BY <1>2, <1>7, <1>10 DEF Members, Range
  <2>2. \A i \in 1 .. l : d.requests[n + i] \in Members(c) /\ c.requests[i] \in Members(d)
    BY <1>3, <1>8, <1>10 DEF Members, Range
  <2>3. \A i \in 1 .. n + l : d.requests[i] \in Members(b) \cup Members(c)
    BY <1>9, <2>1, <2>2
  <2>4. Members(d) = {d.requests[i] : i \in 1 .. n + l}
    BY <1>10 DEF Members, Range
  <2>5. /\ Members(b) = {b.requests[i] : i \in 1 .. n}
        /\ Members(c) = {c.requests[i] : i \in 1 .. l}
    BY <1>2, <1>3 DEF Members, Range
  <2>6. Members(d) \subseteq Members(b) \cup Members(c)
    BY <2>3, <2>4
  <2>7. Members(b) \subseteq Members(d) /\ Members(c) \subseteq Members(d)
    BY <2>1, <2>2, <2>5
  <2>8. QED
    BY <2>6, <2>7
<1>12. ASSUME NEW r \in Members(b)
       PROVE  Size(d, r) = Size(b, r) /\ RowCells(d, r) = RowCells(b, r)
  <2>1. PICK i \in 1 .. n : b.requests[i] = r
    <3>1. At(b, r) \in DOMAIN b.requests /\ b.requests[At(b, r)] = r
      BY AtIsPlace
    <3>2. QED
      BY <1>2, <3>1
  <2>2. /\ i \in DOMAIN b.requests /\ i \in DOMAIN d.requests
        /\ d.requests[i] = r /\ d.b_seq_len[i] = b.b_seq_len[i]
        /\ \A k \in 1 .. b.b_seq_len[i] - 1 : Cell(b, i, k) = Cell(d, i, k)
    BY <1>2, <1>7, <1>10, <2>1
  <2>3. QED
    BY <1>10, <2>1, <2>2, SameRow
<1>13. ASSUME NEW r \in Members(c)
       PROVE  Size(d, r) = Size(c, r) /\ RowCells(d, r) = RowCells(c, r)
  <2>1. PICK i \in 1 .. l : c.requests[i] = r
    <3>1. At(c, r) \in DOMAIN c.requests /\ c.requests[At(c, r)] = r
      BY AtIsPlace
    <3>2. QED
      BY <1>3, <3>1
  <2>2. /\ i \in DOMAIN c.requests /\ n + i \in DOMAIN d.requests
        /\ d.requests[n + i] = r /\ d.b_seq_len[n + i] = c.b_seq_len[i]
        /\ \A k \in 1 .. c.b_seq_len[i] - 1 : Cell(c, i, k) = Cell(d, n + i, k)
    BY <1>3, <1>8, <1>10, <2>1
  <2> DEFINE j == n + i
  <2>3. /\ j \in DOMAIN d.requests
        /\ d.requests[j] = r /\ d.b_seq_len[j] = c.b_seq_len[i]
        /\ \A k \in 1 .. c.b_seq_len[i] - 1 : Cell(c, i, k) = Cell(d, j, k)
    BY <2>2
  <2> HIDE DEF j
  <2>4. /\ Size(c, c.requests[i]) = Size(d, c.requests[i])
        /\ RowCells(c, c.requests[i]) = RowCells(d, c.requests[i])
    BY <1>10, <2>1, <2>2, <2>3, SameRow
  <2>5. QED
    BY <2>1, <2>4
<1>14. QED
  BY <1>10, <1>11, <1>12, <1>13

IsMerged(d, b1, b2) ==
  LET m == Max({b1.max_len, b2.max_len})
      rows(b) == [i \in DOMAIN b.b_loc |-> Padded(b.b_loc[i], m - b.max_len)]
  IN  d = [requests  |-> b1.requests \o b2.requests,
           b_loc     |-> rows(b1) \o rows(b2),
           b_seq_len |-> b1.b_seq_len \o b2.b_seq_len,
           max_len   |-> m]

LEMMA MaxOfTwo ==
  ASSUME NEW x \in Nat, NEW y \in Nat
  PROVE  Max({x, y}) \in Nat /\ x <= Max({x, y}) /\ y <= Max({x, y})
<1> DEFINE S == {x, y}
<1>1. S = {x} \cup {y} /\ IsFiniteSet({x})
  BY FS_Singleton
<1>2. IsFiniteSet({x} \cup {y})
  BY <1>1, FS_AddElement
<1>3. S \in SUBSET Nat /\ S # {} /\ IsFiniteSet(S) /\ x \in S /\ y \in S
  BY <1>1, <1>2
<1> HIDE DEF S
<1>4. Max(S) \in S /\ \A z \in S : z <= Max(S)
  BY <1>3, GreatestNumber
<1>5. QED
  BY <1>3, <1>4 DEF S

(* merge keeps the rows of both batches.                                   *)
LEMMA MergedBatch ==
  ASSUME NEW b, BatchShape(b), NEW c, BatchShape(c), Members(b) \cap Members(c) = {},
         NEW d, IsMerged(d, b, c)
  PROVE  /\ BatchShape(d) /\ Members(d) = Members(b) \cup Members(c)
         /\ \A r \in Members(b) : Size(d, r) = Size(b, r) /\ RowCells(d, r) = RowCells(b, r)
         /\ \A r \in Members(c) : Size(d, r) = Size(c, r) /\ RowCells(d, r) = RowCells(c, r)
<1> DEFINE m == Max({b.max_len, c.max_len})
           rows(e) == [i \in DOMAIN e.b_loc |-> Padded(e.b_loc[i], m - e.max_len)]
           p(e) == [requests |-> e.requests, b_loc |-> rows(e),
                    b_seq_len |-> e.b_seq_len, max_len |-> m]
<1>1. m \in Nat /\ b.max_len <= m /\ c.max_len <= m
  <2>1. b.max_len \in Nat /\ c.max_len \in Nat
    BY BatchParts
  <2>2. QED
    BY <2>1, MaxOfTwo
<1> HIDE DEF m
<1>2. ASSUME NEW e, BatchShape(e), e.max_len <= m
      PROVE  /\ BatchShape(p(e)) /\ Members(p(e)) = Members(e)
             /\ \A r \in Members(e) : /\ Size(p(e), r) = Size(e, r)
                                      /\ RowCells(p(e), r) = RowCells(e, r)
  <2>1. /\ p(e).requests = e.requests /\ p(e).b_seq_len = e.b_seq_len /\ p(e).max_len = m
        /\ p(e).b_loc = [i \in DOMAIN e.b_loc |-> Padded(e.b_loc[i], m - e.max_len)]
    OBVIOUS
  <2> HIDE DEF p
  <2>2. QED
    BY <1>1, <1>2, <2>1, PaddedBatch
<1>3. IsJoined(d, p(b), p(c)) /\ p(b).max_len = p(c).max_len
  BY DEF IsMerged, IsJoined, m
<1> HIDE DEF p
<1>4. /\ BatchShape(p(b)) /\ Members(p(b)) = Members(b)
      /\ \A r \in Members(b) : /\ Size(p(b), r) = Size(b, r)
                               /\ RowCells(p(b), r) = RowCells(b, r)
  BY <1>1, <1>2
<1>5. /\ BatchShape(p(c)) /\ Members(p(c)) = Members(c)
      /\ \A r \in Members(c) : /\ Size(p(c), r) = Size(c, r)
                               /\ RowCells(p(c), r) = RowCells(c, r)
  BY <1>1, <1>2
<1>6. /\ BatchShape(d) /\ Members(d) = Members(p(b)) \cup Members(p(c))
      /\ \A r \in Members(p(b)) : /\ Size(d, r) = Size(p(b), r)
                                  /\ RowCells(d, r) = RowCells(p(b), r)
      /\ \A r \in Members(p(c)) : /\ Size(d, r) = Size(p(c), r)
                                  /\ RowCells(d, r) = RowCells(p(c), r)
  BY <1>3, <1>4, <1>5, JoinedBatch
<1>7. QED
  BY <1>4, <1>5, <1>6

LEMMA AppendedRow ==
  ASSUME NEW S, NEW s \in Seq(S), NEW x \in S
  PROVE  /\ Append(s, x) \in Seq(S) /\ Len(Append(s, x)) = Len(s) + 1
         /\ \A k \in 1 .. Len(s) : Append(s, x)[k] = s[k]
         /\ Append(s, x)[Len(s) + 1] = x
BY AppendProperties

IsDecoded(d, b, loc) ==
  LET n == Len(b.requests)
  IN  d = [requests  |-> b.requests,
           b_loc     |-> [i \in 1 .. n |-> Append(b.b_loc[i], Nth(loc, i))],
           b_seq_len |-> [i \in 1 .. n |-> b.b_seq_len[i] + 1],
           max_len   |-> b.max_len + 1]

(* A decode adds a column, with one of the new cells in each row.          *)
LEMMA DecodedBatch ==
  ASSUME NEW b, BatchShape(b), NEW loc, loc \subseteq Cells,
         Cardinality(loc) = Len(b.requests), NEW d, IsDecoded(d, b, loc)
  PROVE  /\ BatchShape(d) /\ Members(d) = Members(b)
         /\ \A r \in Members(b) : /\ Size(d, r) = Size(b, r) + 1
                                  /\ RowCells(b, r) \subseteq RowCells(d, r)
         /\ \A c \in loc : \E r \in Members(b) : c \in RowCells(d, r)
<1> DEFINE n == Len(b.requests)
           m == b.max_len
           S == Cells \cup {Unset}
<1>0. n = Len(b.requests) /\ m = b.max_len /\ Cardinality(loc) = n
  OBVIOUS
<1>1. /\ d.requests = b.requests
      /\ d.b_loc = [i \in 1 .. n |-> Append(b.b_loc[i], Nth(loc, i))]
      /\ d.b_seq_len = [i \in 1 .. n |-> b.b_seq_len[i] + 1]
      /\ d.max_len = m + 1
  BY DEF IsDecoded
<1> HIDE DEF n, m
<1>2. n \in Nat /\ n # 0 /\ m \in Nat
  BY <1>0, BatchParts
<1>3. /\ DOMAIN b.requests = 1 .. n
      /\ b.requests \in [1 .. n -> Req]
      /\ b.b_seq_len \in [1 .. n -> 1 .. m]
      /\ b.b_loc \in [1 .. n -> Seq(S)]
      /\ \A i \in 1 .. n :
           /\ Len(b.b_loc[i]) = m - 1
           /\ \A k \in 1 .. b.b_seq_len[i] - 1 : Cell(b, i, k) \in Cells
      /\ \A i, j \in 1 .. n : b.requests[i] = b.requests[j] => i = j
  BY <1>0, BatchParts
<1>4. /\ \A k \in 1 .. n : Nth(loc, k) \in loc
      /\ \A c \in loc : \E k \in 1 .. n : c = Nth(loc, k)
  <2>1. loc \in SUBSET Nat /\ IsFiniteSet(loc)
    BY PartFinite
  <2>2. QED
    BY <1>0, <2>1, NthIn
<1> HIDE DEF S
<1>5. ASSUME NEW i \in 1 .. n
      PROVE  /\ d.b_loc[i] \in Seq(S) /\ Len(d.b_loc[i]) = m
             /\ b.b_seq_len[i] \in 1 .. m
             /\ d.b_seq_len[i] = b.b_seq_len[i] + 1
             /\ \A k \in 1 .. b.b_seq_len[i] - 1 : Cell(d, i, k) = Cell(b, i, k)
             /\ Cell(d, i, b.b_seq_len[i]) = Nth(loc, i)
  <2> DEFINE s == b.b_loc[i]
             len == b.b_seq_len[i]
             x == Nth(loc, i)
  <2>1. /\ d.b_loc[i] = Append(s, x) /\ d.b_seq_len[i] = len + 1 /\ d.max_len = m + 1
        /\ s \in Seq(S) /\ Len(s) = m - 1 /\ len \in 1 .. m
    BY <1>1, <1>3
  <2>2. x \in S
    BY <1>4 DEF S
  <2>3. \A k : Cell(b, i, k) = s[m - len + k]
    BY <1>0 DEF Cell
  <2>4. \A k : Cell(d, i, k) = Append(s, x)[(m + 1) - (len + 1) + k]
    BY <2>1 DEF Cell
  <2> HIDE DEF s, len, x
  <2>5. /\ Append(s, x) \in Seq(S) /\ Len(Append(s, x)) = Len(s) + 1
        /\ \A k \in 1 .. Len(s) : Append(s, x)[k] = s[k]
        /\ Append(s, x)[Len(s) + 1] = x
    BY <2>1, <2>2, AppendedRow
  <2>6. len \in Nat /\ 1 <= len /\ len <= m
    BY <1>2, <2>1
  <2>7. ASSUME NEW k \in 1 .. len - 1
        PROVE  Cell(d, i, k) = Cell(b, i, k)
    <3>1. (m + 1) - (len + 1) + k = m - len + k /\ m - len + k \in 1 .. Len(s)
      BY <1>2, <2>1, <2>6
    <3>2. QED
      BY <2>3, <2>4, <2>5, <3>1
  <2>8. Cell(d, i, len) = x
    <3>1. (m + 1) - (len + 1) + len = Len(s) + 1
      BY <1>2, <2>1, <2>6
    <3>2. QED
      BY <2>4, <2>5, <3>1
  <2>9. Len(Append(s, x)) = m
    BY <1>2, <2>1, <2>5
  <2>10. QED
    BY <2>1, <2>5, <2>7, <2>8, <2>9 DEF s, len, x
<1>6. BatchShape(d)
  <2>1. d.b_loc \in [1 .. n -> Seq(S)]
    BY <1>1, <1>5
  <2>2. d.max_len \in Nat /\ d.max_len - 1 = m
    BY <1>1, <1>2
  <2>3. d.b_seq_len \in [1 .. n -> 1 .. d.max_len]
    <3>1. \A i \in 1 .. n : b.b_seq_len[i] + 1 \in 1 .. m + 1
      <4>1. TAKE i \in 1 .. n
      <4> DEFINE len == b.b_seq_len[i]
      <4>2. len \in 1 .. m
        BY <1>5
      <4> HIDE DEF len
      <4>3. len + 1 \in 1 .. m + 1
        BY <1>2, <4>2
      <4>4. QED
        BY <4>3 DEF len
    <3>2. QED
      BY <1>1, <3>1
  <2>4. \A i \in 1 .. n :
          /\ Len(d.b_loc[i]) = d.max_len - 1
          /\ \A k \in 1 .. d.b_seq_len[i] - 1 : Cell(d, i, k) \in Cells
    <3>1. TAKE i \in 1 .. n
    <3> DEFINE len == b.b_seq_len[i]
    <3>2. /\ d.b_seq_len[i] = len + 1 /\ len \in 1 .. m
          /\ Cell(d, i, len) = Nth(loc, i) /\ Len(d.b_loc[i]) = m
          /\ \A k \in 1 .. len - 1 : Cell(d, i, k) = Cell(b, i, k) /\ Cell(b, i, k) \in Cells
      BY <1>3, <1>5
    <3> HIDE DEF len
    <3>3. \A k \in 1 .. (len + 1) - 1 : k \in 1 .. len - 1 \/ k = len
      BY <1>2, <3>2
    <3>4. QED
      BY <1>4, <2>2, <3>2, <3>3
  <2>5. /\ d.requests \in [1 .. n -> Req]
        /\ \A i, j \in 1 .. n : d.requests[i] = d.requests[j] => i = j
    BY <1>1, <1>3
  <2>6. QED
    BY <1>2, <2>1, <2>2, <2>3, <2>4, <2>5, BatchOfParts DEF S
<1>7. Members(d) = Members(b)
  BY <1>1 DEF Members
<1>8. ASSUME NEW i \in 1 .. n
      PROVE  /\ Size(b, b.requests[i]) = b.b_seq_len[i] - 1
             /\ Size(d, b.requests[i]) = b.b_seq_len[i]
             /\ RowCells(b, b.requests[i]) = {Cell(b, i, k) : k \in 1 .. b.b_seq_len[i] - 1}
             /\ RowCells(d, b.requests[i]) = {Cell(d, i, k) : k \in 1 .. b.b_seq_len[i]}
  <2>1. At(b, b.requests[i]) = i /\ At(d, d.requests[i]) = i
    BY <1>1, <1>3, <1>6, AtIsPlace
  <2>2. (b.b_seq_len[i] + 1) - 1 = b.b_seq_len[i]
    BY <1>2, <1>5
  <2>3. At(d, b.requests[i]) = i
    BY <1>1, <2>1
  <2>4. QED
    BY <1>5, <2>1, <2>2, <2>3 DEF Size, RowCells
<1>9. ASSUME NEW r \in Members(b)
      PROVE  Size(d, r) = Size(b, r) + 1 /\ RowCells(b, r) \subseteq RowCells(d, r)
  <2>1. PICK i \in 1 .. n : b.requests[i] = r
    BY <1>3, AtIsPlace
  <2> DEFINE len == b.b_seq_len[i]
  <2>2. /\ Size(b, r) = len - 1 /\ Size(d, r) = len /\ len \in 1 .. m
        /\ RowCells(b, r) = {Cell(b, i, k) : k \in 1 .. len - 1}
        /\ RowCells(d, r) = {Cell(d, i, k) : k \in 1 .. len}
        /\ \A k \in 1 .. len - 1 : Cell(d, i, k) = Cell(b, i, k)
    BY <1>5, <1>8, <2>1
  <2> HIDE DEF len
  <2>3. (len - 1) + 1 = len /\ \A k \in 1 .. len - 1 : k \in 1 .. len
    BY <1>2, <2>2
  <2>4. QED
    BY <2>2, <2>3
<1>10. ASSUME NEW c \in loc
       PROVE  \E r \in Members(b) : c \in RowCells(d, r)
  <2>1. PICK i \in 1 .. n : c = Nth(loc, i)
    BY <1>4
  <2>2. b.requests[i] \in Members(b)
    BY <1>3, AtIsPlace
  <2>3. b.b_seq_len[i] \in 1 .. b.b_seq_len[i]
    BY <1>2, <1>5
  <2>4. c \in RowCells(d, b.requests[i])
    BY <1>5, <1>8, <2>1, <2>3
  <2>5. QED
    BY <2>2, <2>4
<1>11. QED
  BY <1>6, <1>7, <1>9, <1>10

IsPrefilled(b, order, loc) ==
  LET len(i) == input_len[order[i]]
      m == Max({len(i) : i \in DOMAIN order})
      from(i) == SumOf([j \in 1 .. i - 1 |-> len(j)])
      row(i) == [k \in 1 .. len(i) |-> Nth(loc, from(i) + k)]
  IN  b = [requests  |-> order,
           b_loc     |-> [i \in DOMAIN order |-> Padded(row(i), m - len(i))],
           b_seq_len |-> [i \in DOMAIN order |-> len(i) + 1],
           max_len   |-> m + 1]

LEMMA MaxOfAll ==
  ASSUME NEW n \in Nat, n # 0, NEW f \in [1 .. n -> Nat],
         NEW S, S = {f[i] : i \in 1 .. n}
  PROVE  Max(S) \in Nat /\ \A i \in 1 .. n : f[i] <= Max(S)
<1>1. S \in SUBSET Nat /\ \A i \in 1 .. n : f[i] \in S
  OBVIOUS
<1>2. f \in Surjection(1 .. n, S) /\ IsFiniteSet(1 .. n)
  BY FirstNumbers DEF Surjection
<1>3. 1 \in 1 .. n
  OBVIOUS
<1>4. IsFiniteSet(S)
  BY <1>2, FS_Surjection
<1>5. Max(S) \in S /\ \A z \in S : z <= Max(S)
  BY <1>1, <1>3, <1>4, GreatestNumber
<1>6. QED
  BY <1>1, <1>5

(* A prefill deals out the cells of the prompts, each to one request.      *)
LEMMA PrefilledBatch ==
  ASSUME NEW reqs \in SUBSET Req, reqs # {}, NEW order \in Orders(reqs),
         NEW loc, loc \subseteq Cells, Cardinality(loc) = SumOver(input_len, reqs),
         NEW b, IsPrefilled(b, order, loc)
  PROVE  /\ BatchShape(b) /\ Members(b) = reqs
         /\ \A r \in reqs : Size(b, r) = input_len[r]
         /\ \A c \in loc : \E r \in reqs : c \in RowCells(b, r)
<1> DEFINE n == Cardinality(reqs)
           len == [i \in 1 .. n |-> input_len[order[i]]]
           from == [i \in 1 .. n |-> SumOf([j \in 1 .. i - 1 |-> input_len[order[j]]])]
           row == [i \in 1 .. n |-> [k \in 1 .. len[i] |-> Nth(loc, from[i] + k)]]
           m == Max({len[i] : i \in 1 .. n})
           S == Cells \cup {Unset}
<1>1. IsFiniteSet(Req) /\ IsFiniteSet(reqs) /\ input_len \in [Req -> Nat \ {0}]
  BY RequestAssumption, PartsFinite
<1>2. /\ n \in Nat
      /\ DOMAIN order = 1 .. n /\ order \in [1 .. n -> reqs]
      /\ \A i, j \in 1 .. n : order[i] = order[j] => i = j
      /\ \A r \in reqs : \E i \in 1 .. n : order[i] = r
  <2> HIDE DEF len, from, row, m, S
  <2>1. IsFiniteSet(reqs) /\ order \in Orders(reqs)
    BY <1>1
  <2>2. QED
    BY <2>1, OrdersAll
<1>3. n # 0
  <2>1. IsFiniteSet(reqs) /\ reqs # {}
    BY <1>1
  <2>2. Cardinality(reqs) # 0
    BY <2>1, FS_EmptySet
  <2>3. QED
    BY <2>2
<1>4. /\ b.requests = order
      /\ b.b_loc = [i \in 1 .. n |-> Padded(row[i], m - len[i])]
      /\ b.b_seq_len = [i \in 1 .. n |-> len[i] + 1]
      /\ b.max_len = m + 1
  <2> HIDE DEF n
  <2>1. \A i \in 1 .. n : input_len[order[i]] = len[i]
    OBVIOUS
  <2>2. {input_len[order[i]] : i \in DOMAIN order} = {len[i] : i \in 1 .. n}
    BY <1>2, <2>1
  <2>3. DOMAIN order = 1 .. n
    BY <1>2
  <2>4. /\ b.requests = order
        /\ b.b_seq_len = [i \in 1 .. n |-> len[i] + 1]
    BY <2>1, <2>3 DEF IsPrefilled
  <2>5. b.max_len = m + 1
    BY <2>2, <2>3 DEF IsPrefilled
  <2>6. b.b_loc = [i \in 1 .. n |-> Padded(row[i], m - len[i])]
    BY <2>2, <2>3 DEF IsPrefilled
  <2>7. QED
    BY <2>4, <2>5, <2>6
<1>5. /\ \A i \in 1 .. n : from[i] \in Nat /\ from[i] + len[i] <= Cardinality(loc)
      /\ \A k \in 1 .. Cardinality(loc) :
           \E i \in 1 .. n : \E j \in 1 .. len[i] : k = from[i] + j
  <2>1. input_len \in [Req -> Nat] /\ IsFiniteSet(Req)
    BY <1>1
  <2>2. AreOffsets(from, input_len, order, Cardinality(reqs))
    BY DEF AreOffsets
  <2> HIDE DEF from
  <2>3. /\ \A i \in 1 .. Cardinality(reqs) :
              /\ from[i] \in Nat
              /\ from[i] + input_len[order[i]] <= SumOver(input_len, reqs)
        /\ \A k \in 1 .. SumOver(input_len, reqs) :
              \E i \in 1 .. Cardinality(reqs) :
                \E j \in 1 .. input_len[order[i]] : k = from[i] + j
    BY <2>1, <2>2, Consecutive
  <2>4. QED
    BY <2>3
<1>6. len \in [1 .. n -> Nat \ {0}] /\ order \in [1 .. n -> Req]
  BY <1>1, <1>2
<1> HIDE DEF from, n
<1>7. m \in Nat /\ \A i \in 1 .. n : len[i] <= m
  <2> DEFINE lens == {len[i] : i \in 1 .. n}
  <2> HIDE DEF len
  <2>1. len \in [1 .. n -> Nat]
    BY <1>6
  <2>2. lens = {len[i] : i \in 1 .. n}
    OBVIOUS
  <2> HIDE DEF lens
  <2>3. Max(lens) \in Nat /\ \A i \in 1 .. n : len[i] <= Max(lens)
    BY <1>2, <1>3, <2>1, <2>2, MaxOfAll
  <2>4. QED
    BY <2>3 DEF lens
<1>8. /\ \A k \in 1 .. Cardinality(loc) : Nth(loc, k) \in loc
      /\ \A c \in loc : \E k \in 1 .. Cardinality(loc) : c = Nth(loc, k)
      /\ Cardinality(loc) \in Nat
  <2>1. loc \in SUBSET Nat /\ IsFiniteSet(loc)
    BY PartFinite
  <2>2. QED
    BY <2>1, NthIn, FS_CardinalityType
<1>9. \A i \in 1 .. n : row[i] = [k \in 1 .. len[i] |-> Nth(loc, from[i] + k)]
  OBVIOUS
<1> HIDE DEF len, m, row, S
<1>10. ASSUME NEW i \in 1 .. n
       PROVE  /\ b.b_loc[i] \in Seq(S) /\ Len(b.b_loc[i]) = m
              /\ b.b_seq_len[i] = len[i] + 1
              /\ \A k \in 1 .. len[i] : /\ Cell(b, i, k) = Nth(loc, from[i] + k)
                                        /\ Cell(b, i, k) \in loc
  <2> DEFINE s == row[i]
             l == len[i]
             f == from[i]
             N == Cardinality(loc)
  <2>1. l \in Nat /\ l <= m /\ f \in Nat /\ f + l <= N /\ m - l \in Nat /\ N \in Nat
    BY <1>5, <1>6, <1>7, <1>8
  <2>2. s = [k \in 1 .. l |-> Nth(loc, f + k)] /\ \A k \in 1 .. N : Nth(loc, k) \in loc
    BY <1>8, <1>9
  <2>3. /\ b.b_loc[i] = Padded(s, m - l) /\ b.b_seq_len[i] = l + 1 /\ b.max_len = m + 1
    BY <1>4
  <2>4. \A k : Cell(b, i, k) = Padded(s, m - l)[(m + 1) - (l + 1) + k]
    BY <2>3 DEF Cell
  <2> HIDE DEF s, l, f, N
  <2>5. \A k \in 1 .. l : f + k \in 1 .. N
    BY <2>1
  <2>6. s \in [1 .. l -> loc] /\ \A k \in 1 .. l : s[k] = Nth(loc, f + k)
    BY <2>2, <2>5
  <2>7. s \in Seq(S) /\ Len(s) = l /\ Unset \in S
    BY <2>1, <2>6 DEF S
  <2>8. /\ Padded(s, m - l) \in Seq(S) /\ Len(Padded(s, m - l)) = (m - l) + Len(s)
        /\ \A k \in 1 .. Len(s) : Padded(s, m - l)[(m - l) + k] = s[k]
    BY <2>1, <2>7, PaddedRow
  <2>9. Len(Padded(s, m - l)) = m
    BY <1>7, <2>1, <2>7, <2>8
  <2>10. \A k \in 1 .. l : (m + 1) - (l + 1) + k = (m - l) + k
    BY <1>7, <2>1
  <2>11. \A k \in 1 .. l : Cell(b, i, k) = s[k]
    BY <2>4, <2>7, <2>8, <2>10
  <2>12. QED
    BY <2>3, <2>6, <2>8, <2>9, <2>11 DEF l, f
<1>11. \A i \in 1 .. n : (len[i] + 1) - 1 = len[i] /\ len[i] + 1 \in 1 .. m + 1
  <2>1. TAKE i \in 1 .. n
  <2> DEFINE l == len[i]
  <2>2. l \in Nat /\ l <= m
    BY <1>6, <1>7
  <2> HIDE DEF l
  <2>3. (l + 1) - 1 = l /\ l + 1 \in 1 .. m + 1
    BY <1>7, <2>2
  <2>4. QED
    BY <2>3 DEF l
<1>12. BatchShape(b)
  <2>1. b.max_len \in Nat /\ b.max_len - 1 = m
    BY <1>4, <1>7
  <2>2. b.b_loc \in [1 .. n -> Seq(S)]
    BY <1>4, <1>10
  <2>3. b.b_seq_len \in [1 .. n -> 1 .. b.max_len]
    BY <1>4, <1>11
  <2>4. \A i \in 1 .. n :
          /\ Len(b.b_loc[i]) = b.max_len - 1
          /\ \A k \in 1 .. b.b_seq_len[i] - 1 : Cell(b, i, k) \in Cells
    BY <1>10, <1>11, <2>1
  <2>5. /\ b.requests \in [1 .. n -> Req]
        /\ \A i, j \in 1 .. n : b.requests[i] = b.requests[j] => i = j
    BY <1>2, <1>4, <1>6
  <2>6. QED
    BY <1>2, <1>3, <2>1, <2>2, <2>3, <2>4, <2>5, BatchOfParts DEF S
<1>13. Members(b) = reqs
  BY <1>2, <1>4 DEF Members, Range
<1>14. ASSUME NEW i \in 1 .. n
       PROVE  /\ Size(b, order[i]) = len[i] /\ len[i] = input_len[order[i]]
              /\ RowCells(b, order[i]) = {Cell(b, i, k) : k \in 1 .. len[i]}
  <2>1. At(b, b.requests[i]) = i
    BY <1>2, <1>4, <1>12, AtIsPlace
  <2>2. At(b, order[i]) = i
    BY <1>4, <2>1
  <2>3. Size(b, order[i]) = len[i]
    BY <1>10, <1>11, <2>2 DEF Size
  <2>4. RowCells(b, order[i]) = {Cell(b, i, k) : k \in 1 .. len[i]}
    BY <2>2, <2>3 DEF RowCells
  <2>5. QED
    BY <2>3, <2>4 DEF len
<1>15. ASSUME NEW c \in loc
       PROVE  \E r \in reqs : c \in RowCells(b, r)
  <2>1. PICK k \in 1 .. Cardinality(loc) : c = Nth(loc, k)
    BY <1>8
  <2>2. PICK i \in 1 .. n : \E j \in 1 .. len[i] : k = from[i] + j
    BY <1>5, <2>1
  <2>3. PICK j \in 1 .. len[i] : k = from[i] + j
    BY <2>2
  <2>4. c = Cell(b, i, j)
    BY <1>10, <2>1, <2>3
  <2>5. c \in RowCells(b, order[i]) /\ order[i] \in reqs
    BY <1>2, <1>14, <2>3, <2>4
  <2>6. QED
    BY <2>5
<1>16. \A r \in reqs : Size(b, r) = input_len[r]
  BY <1>2, <1>14
<1>17. QED
  BY <1>12, <1>13, <1>15, <1>16

-----------------------------------------------------------------------------
(* The books.  Every cell is free, or in the row of some request, or in an *)
(* adapter, and the numbers of cells that each is due add up to the pool.  *)
(* That the rows and the adapters have no cell in common is not said: it   *)
(* follows, and so need not be carried through every step.                 *)
Holders(ch) == UNION {Members(ch[id]) : id \in DOMAIN ch}
Needs(outs) == [r \in Req |-> input_len[r] + outs[r] - 1]

Shaped(ch) ==
  /\ DOMAIN ch \subseteq {Running, Mini}
  /\ \A id \in DOMAIN ch : BatchShape(ch[id])
  /\ \A id, jd \in DOMAIN ch : id # jd => Members(ch[id]) \cap Members(ch[jd]) = {}

Sized(ch, outs) ==
  \A id \in DOMAIN ch : \A r \in Members(ch[id]) : Size(ch[id], r) = Needs(outs)[r]

LoadedOK(loc) ==
  /\ DOMAIN loc \subseteq AdaptersOf(Req)
  /\ \A c \in DOMAIN loc : loc[c] \subseteq Cells /\ Cardinality(loc[c]) <= adapterCells[c]

InRow(ch, x) == \E id \in DOMAIN ch : \E r \in Members(ch[id]) : x \in RowCells(ch[id], r)
InAdapter(loc, x) == \E c \in DOMAIN loc : x \in loc[c]

Due(ch, outs, loc) == SumOver(Needs(outs), Holders(ch)) + SumOver(adapterCells, DOMAIN loc)

Books(mem, use, ch, outs, loc) ==
  /\ mem \subseteq Cells /\ use = Cardinality(mem)
  /\ Shaped(ch) /\ Sized(ch, outs) /\ LoadedOK(loc)
  /\ \A x \in Cells : x \in mem \/ InRow(ch, x) \/ InAdapter(loc, x)
  /\ Cardinality(mem) + Due(ch, outs, loc) = tot_size

LEMMA NeedsNat ==
  ASSUME NEW outs \in [Req -> Nat]
  PROVE  IsFiniteSet(Req) /\ Needs(outs) \in [Req -> Nat]
<1>1. ASSUME NEW r \in Req PROVE input_len[r] + outs[r] - 1 \in Nat
  <2> DEFINE i == input_len[r]
             o == outs[r]
  <2>1. i \in Nat \ {0} /\ o \in Nat
    BY RequestAssumption
  <2> HIDE DEF i, o
  <2>2. i + o - 1 \in Nat
    BY <2>1
  <2>3. QED
    BY <2>2 DEF i, o
<1>2. QED
  BY <1>1, RequestAssumption DEF Needs

LEMMA HoldersAre ==
  ASSUME NEW ch, Shaped(ch)
  PROVE  Holders(ch) \in SUBSET Req
BY RowsHeld DEF Shaped, Holders

LEMMA DueNat ==
  ASSUME NEW ch, Shaped(ch), NEW outs \in [Req -> Nat], NEW loc, LoadedOK(loc)
  PROVE  /\ SumOver(Needs(outs), Holders(ch)) \in Nat
         /\ SumOver(adapterCells, DOMAIN loc) \in Nat
         /\ Due(ch, outs, loc) \in Nat
<1>1. SumOver(Needs(outs), Holders(ch)) \in Nat
  BY HoldersAre, NeedsNat, SumNat
<1>2. SumOver(adapterCells, DOMAIN loc) \in Nat
  <2>1. DOMAIN loc \in SUBSET AdaptersOf(Req)
    BY DEF LoadedOK
  <2>2. QED
    BY <2>1, DirsFinite, SumNat
<1>3. QED
  BY <1>1, <1>2 DEF Due

LEMMA TakenFrom ==
  ASSUME NEW M, M \subseteq Cells, NEW L, L \subseteq M
  PROVE  /\ Cardinality(M) \in Nat /\ Cardinality(L) \in Nat
         /\ Cardinality(M \ L) = Cardinality(M) - Cardinality(L)
<1> DEFINE K == M \ L
<1>1. /\ IsFiniteSet(L) /\ IsFiniteSet(K) /\ L \cup K = M /\ L \cap K = {}
      /\ Cardinality(L) \in Nat /\ Cardinality(K) \in Nat /\ Cardinality(M) \in Nat
  <2>1. L \subseteq Cells /\ K \subseteq Cells
    OBVIOUS
  <2>2. QED
    BY <2>1, PartFinite, FS_CardinalityType
<1> HIDE DEF K
<1>2. Cardinality(L \cup K) = Cardinality(L) + Cardinality(K) - Cardinality(L \cap K)
  BY <1>1, FS_Union
<1>3. Cardinality(L \cap K) = 0
  BY <1>1, FS_EmptySet
<1>4. Cardinality(K) = Cardinality(M) - Cardinality(L)
  <2>1. Cardinality(L \cup K) = Cardinality(M)
    BY <1>1, Zenon
  <2>2. QED
    BY <1>1, <1>2, <1>3, <2>1
<1>5. QED
  BY <1>1, <1>4 DEF K

(* The rows of some requests, and some adapters, together have at most the *)
(* cells that they are due.                                                *)
LEMMA RowsBound ==
  ASSUME NEW ch, Shaped(ch), NEW outs \in [Req -> Nat], Sized(ch, outs),
         NEW T \in SUBSET Req,
         NEW C, \A x \in C : \E id \in DOMAIN ch :
                               \E r \in Members(ch[id]) \cap T : x \in RowCells(ch[id], r)
  PROVE  IsFiniteSet(C) /\ Cardinality(C) <= SumOver(Needs(outs), T)
<1> DEFINE row(r) == {x \in Cells : \E id \in DOMAIN ch :
                                      r \in Members(ch[id]) /\ x \in RowCells(ch[id], r)}
           F == [r \in Req |-> row(r)]
<1>1. ASSUME NEW r \in Req
      PROVE  IsFiniteSet(F[r]) /\ Cardinality(F[r]) <= Needs(outs)[r]
  <2>0. F[r] = row(r) /\ Needs(outs)[r] \in Nat
    BY NeedsNat
  <2>1. CASE r \notin Holders(ch)
    <3>1. F[r] = {}
      BY <2>0, <2>1 DEF Holders
    <3>2. IsFiniteSet({}) /\ Cardinality({}) = 0
      BY FS_EmptySet
    <3>3. 0 <= Needs(outs)[r]
      BY <2>0
    <3>4. QED
      BY <3>1, <3>2, <3>3
  <2>2. CASE r \in Holders(ch)
    <3>1. PICK id \in DOMAIN ch : r \in Members(ch[id])
      BY <2>2 DEF Holders
    <3>2. /\ RowCells(ch[id], r) \subseteq Cells
          /\ IsFiniteSet(RowCells(ch[id], r))
          /\ Cardinality(RowCells(ch[id], r)) <= Size(ch[id], r)
      BY <3>1, RowsHeld DEF Shaped
    <3>3. \A jd \in DOMAIN ch : r \in Members(ch[jd]) => jd = id
      BY <3>1 DEF Shaped
    <3>4. F[r] = RowCells(ch[id], r)
      BY <2>0, <3>1, <3>2, <3>3
    <3>5. Size(ch[id], r) = Needs(outs)[r]
      BY <3>1 DEF Sized
    <3>6. QED
      BY <3>2, <3>4, <3>5
  <2>3. QED
    BY <2>1, <2>2
<1>2. \A x \in C : \E r \in T : x \in F[r]
  <2>1. TAKE x \in C
  <2>2. PICK id \in DOMAIN ch : \E r \in Members(ch[id]) \cap T : x \in RowCells(ch[id], r)
    OBVIOUS
  <2>3. PICK r \in Members(ch[id]) \cap T : x \in RowCells(ch[id], r)
    BY <2>2
  <2>4. x \in Cells
    BY <2>3, RowsHeld DEF Shaped
  <2>5. QED
    BY <2>3, <2>4
<1> HIDE DEF F
<1>3. QED
  BY <1>1, <1>2, NeedsNat, CoverBound

LEMMA LoadedBound ==
  ASSUME NEW loc, LoadedOK(loc), NEW U, U \subseteq DOMAIN loc,
         NEW C, \A x \in C : \E c \in U : x \in loc[c]
  PROVE  IsFiniteSet(C) /\ Cardinality(C) <= SumOver(adapterCells, U)
<1> DEFINE F == [c \in AdaptersOf(Req) |-> IF c \in DOMAIN loc THEN loc[c] ELSE {}]
<1>1. ASSUME NEW c \in AdaptersOf(Req)
      PROVE  IsFiniteSet(F[c]) /\ Cardinality(F[c]) <= adapterCells[c]
  <2>1. CASE c \in DOMAIN loc
    BY <2>1, PartFinite DEF LoadedOK
  <2>2. CASE c \notin DOMAIN loc
    BY <2>2, FS_EmptySet, DirsFinite
  <2>3. QED
    BY <2>1, <2>2
<1>2. U \in SUBSET AdaptersOf(Req) /\ \A x \in C : \E c \in U : x \in F[c]
  BY DEF LoadedOK
<1> HIDE DEF F
<1>3. QED
  BY <1>1, <1>2, DirsFinite, CoverBound

LEMMA BooksBound ==
  ASSUME NEW ch, Shaped(ch), NEW outs \in [Req -> Nat], Sized(ch, outs),
         NEW loc, LoadedOK(loc), NEW T \in SUBSET Req, NEW U, U \subseteq DOMAIN loc,
         NEW C, \A x \in C :
                  \/ \E id \in DOMAIN ch :
                       \E r \in Members(ch[id]) \cap T : x \in RowCells(ch[id], r)
                  \/ \E c \in U : x \in loc[c]
  PROVE  /\ IsFiniteSet(C)
         /\ Cardinality(C) <= SumOver(Needs(outs), T) + SumOver(adapterCells, U)
<1> DEFINE D == {x \in C : \E c \in U : x \in loc[c]}
           E == C \ D
           s == SumOver(Needs(outs), T)
           t == SumOver(adapterCells, U)
<1>1. IsFiniteSet(D) /\ Cardinality(D) <= t
  BY LoadedBound
<1>2. IsFiniteSet(E) /\ Cardinality(E) <= s
  <2>1. \A x \in E : \E id \in DOMAIN ch :
                       \E r \in Members(ch[id]) \cap T : x \in RowCells(ch[id], r)
    OBVIOUS
  <2> HIDE DEF E
  <2>2. QED
    BY <2>1, RowsBound
<1>3. s \in Nat /\ t \in Nat
  <2>1. U \in SUBSET AdaptersOf(Req)
    BY DEF LoadedOK
  <2>2. QED
    BY <2>1, NeedsNat, DirsFinite, SumNat
<1>4. D \cup E = C /\ D \cap E = {}
  OBVIOUS
<1> HIDE DEF D, E, s, t
<1>5. /\ IsFiniteSet(D \cup E)
      /\ Cardinality(D \cup E) = Cardinality(D) + Cardinality(E) - Cardinality(D \cap E)
  BY <1>1, <1>2, FS_Union
<1>6. Cardinality(D \cap E) = 0 /\ Cardinality(D) \in Nat /\ Cardinality(E) \in Nat
  BY <1>1, <1>2, <1>4, FS_EmptySet, FS_CardinalityType
<1>7. Cardinality(C) <= s + t
  <2>1. Cardinality(D \cup E) = Cardinality(C)
    BY <1>4, Zenon
  <2>2. QED
    BY <1>1, <1>2, <1>3, <1>5, <1>6, <2>1
<1>8. QED
  BY <1>4, <1>5, <1>7 DEF s, t

(* Cells are taken from the free ones, and all of them are dealt out.      *)
LEMMA TakeCells ==
  ASSUME NEW mem, NEW use, NEW ch, NEW outs \in [Req -> Nat], NEW loc,
         Books(mem, use, ch, outs, loc),
         NEW L, L \subseteq mem,
         NEW ch2, Shaped(ch2), NEW outs2 \in [Req -> Nat], Sized(ch2, outs2),
         NEW loc2, LoadedOK(loc2),
         Due(ch2, outs2, loc2) = Due(ch, outs, loc) + Cardinality(L),
         \A x \in Cells : InRow(ch, x) => InRow(ch2, x),
         \A x \in Cells : InAdapter(loc, x) => InAdapter(loc2, x),
         \A x \in L : InRow(ch2, x) \/ InAdapter(loc2, x)
  PROVE  Books(mem \ L, use - Cardinality(L), ch2, outs2, loc2)
<1>1. mem \subseteq Cells /\ use = Cardinality(mem)
      /\ Cardinality(mem) + Due(ch, outs, loc) = tot_size
  BY DEF Books
<1>2. /\ Cardinality(mem) \in Nat /\ Cardinality(L) \in Nat
      /\ Cardinality(mem \ L) = Cardinality(mem) - Cardinality(L)
  BY <1>1, TakenFrom
<1>3. Due(ch, outs, loc) \in Nat
  BY DueNat DEF Books
<1>4. \A x \in Cells : x \in mem \ L \/ InRow(ch2, x) \/ InAdapter(loc2, x)
  BY DEF Books
<1>5. Cardinality(mem \ L) + Due(ch2, outs2, loc2) = tot_size
  BY <1>1, <1>2, <1>3
<1>6. QED
  BY <1>1, <1>2, <1>4, <1>5 DEF Books

(* Cells are given back, counted by what those who leave were due.  Were   *)
(* two of them the same cell, the rest of the pool would not go round.     *)
LEMMA GiveBack ==
  ASSUME NEW mem, NEW use, NEW ch, NEW outs \in [Req -> Nat], NEW loc,
         Books(mem, use, ch, outs, loc),
         NEW C, C \subseteq Cells, NEW n \in Nat, Cardinality(C) <= n,
         NEW ch2, Shaped(ch2), Sized(ch2, outs), NEW loc2, LoadedOK(loc2),
         Due(ch, outs, loc) = Due(ch2, outs, loc2) + n,
         \A x \in Cells : InRow(ch, x) => InRow(ch2, x) \/ x \in C,
         \A x \in Cells : InAdapter(loc, x) => InAdapter(loc2, x) \/ x \in C
  PROVE  Books(mem \cup C, use + n, ch2, outs, loc2)
<1> DEFINE M == mem \cup C
           R == Cells \ M
           due == Due(ch2, outs, loc2)
<1>1. mem \subseteq Cells /\ use = Cardinality(mem)
      /\ Cardinality(mem) + Due(ch, outs, loc) = tot_size
  BY DEF Books
<1>2. \A x \in Cells : x \in M \/ InRow(ch2, x) \/ InAdapter(loc2, x)
  BY DEF Books
<1>3. Cardinality(R) <= due
  <2>1. \A x \in R :
          \/ \E id \in DOMAIN ch2 :
               \E r \in Members(ch2[id]) \cap Holders(ch2) : x \in RowCells(ch2[id], r)
          \/ \E c \in DOMAIN loc2 : x \in loc2[c]
    BY <1>2 DEF InRow, InAdapter, Holders
  <2> HIDE DEF R
  <2>2. Cardinality(R) <= SumOver(Needs(outs), Holders(ch2)) + SumOver(adapterCells, DOMAIN loc2)
    BY <2>1, HoldersAre, BooksBound
  <2>3. QED
    BY <2>2 DEF Due
<1>4. /\ Cardinality(Cells) \in Nat /\ Cardinality(M) \in Nat
      /\ Cardinality(R) = Cardinality(Cells) - Cardinality(M)
  BY <1>1, TakenFrom
<1>5. Cardinality(M) <= Cardinality(mem) + Cardinality(C)
      /\ Cardinality(mem) \in Nat /\ Cardinality(C) \in Nat
  <2>1. IsFiniteSet(mem) /\ IsFiniteSet(C) /\ IsFiniteSet(mem \cap C)
    <3>1. mem \cap C \subseteq Cells
      OBVIOUS
    <3>2. QED
      BY <1>1, <3>1, PartFinite
  <2>2. Cardinality(M) = Cardinality(mem) + Cardinality(C) - Cardinality(mem \cap C)
    BY <2>1, FS_Union
  <2>3. Cardinality(mem) \in Nat /\ Cardinality(C) \in Nat /\ Cardinality(mem \cap C) \in Nat
    BY <2>1, FS_CardinalityType
  <2>4. QED
    BY <2>2, <2>3
<1>6. due \in Nat /\ Due(ch, outs, loc) = due + n
  BY DueNat
<1> HIDE DEF M, R, due
<1>7. Cardinality(M) = Cardinality(mem) + n
  BY <1>1, <1>3, <1>4, <1>5, <1>6, CellsFinite
<1>8. M \subseteq Cells
  BY <1>1 DEF M
<1>9. QED
  BY <1>1, <1>2, <1>5, <1>6, <1>7, <1>8 DEF Books, M, due

-----------------------------------------------------------------------------
(* Every method of the server keeps the books.                             *)

LEMMA AdapterCellsAre ==
  \A c \in AdaptersOf(Req) : adapter_len[c] = adapterCells[c] /\ adapterCells[c] \in Nat
<1>1. \A c \in AdaptersOf(Req) : c \in Client
  BY DirsFinite
<1>2. QED
  BY <1>1, DirsFinite DEF adapter_len, adapterCells

LEMMA LoadSizeIs ==
  ASSUME NEW dirs, dirs \subseteq AdaptersOf(Req)
  PROVE  /\ LoadSize(dirs) = SumOver(adapterCells, NewAdapters(dirs))
         /\ LoadSize(dirs) \in Nat
<1> DEFINE e == [c \in NewAdapters(dirs) |-> adapter_len[c]]
           A == AdaptersOf(Req)
           T == NewAdapters(dirs)
<1>1. LoadSize(dirs) = SumOf(e)
  BY DEF LoadSize
<1>2. T \in SUBSET A
  BY DEF NewAdapters
<1>3. IsFiniteSet(A) /\ adapterCells \in [A -> Nat]
  BY DirsFinite
<1>4. DOMAIN e = T /\ \A c \in T : e[c] = adapterCells[c]
  BY <1>2, AdapterCellsAre
<1> HIDE DEF e, A, T
<1>5. SumOf(e) = SumOver(adapterCells, T)
  BY <1>2, <1>3, <1>4, SumOfIsSum
<1>6. SumOver(adapterCells, T) \in Nat
  BY <1>2, <1>3, SumNat
<1>7. QED
  BY <1>1, <1>5, <1>6 DEF T

LEMMA PromptSizeIs ==
  ASSUME NEW reqs \in SUBSET Req
  PROVE  PromptSize(reqs) = SumOver(input_len, reqs) /\ PromptSize(reqs) \in Nat
<1> DEFINE e == [r \in reqs |-> input_len[r]]
<1>1. PromptSize(reqs) = SumOf(e)
  BY DEF PromptSize
<1>2. IsFiniteSet(Req) /\ input_len \in [Req -> Nat]
  BY RequestAssumption
<1>3. DOMAIN e = reqs /\ \A r \in reqs : e[r] = input_len[r]
  OBVIOUS
<1> HIDE DEF e
<1>4. SumOf(e) = SumOver(input_len, reqs) /\ SumOver(input_len, reqs) \in Nat
  BY <1>2, <1>3, SumOfIsSum, SumNat
<1>5. QED
  BY <1>1, <1>4

(* A stretch of the places of a set of cells.                              *)
LEMMA PartSized ==
  ASSUME NEW S, S \subseteq Cells, NEW from \in Nat, NEW len \in Nat,
         from + len <= Cardinality(S)
  PROVE  /\ Part(S, from, len) \subseteq S
         /\ Cardinality(Part(S, from, len)) <= len
         /\ \A j \in 1 .. len : Nth(S, from + j) \in Part(S, from, len)
<1>1. S \in SUBSET Nat /\ IsFiniteSet(S) /\ Cardinality(S) \in Nat
  BY PartFinite, FS_CardinalityType
<1>2. \A k \in from + 1 .. from + len : k \in 1 .. Cardinality(S)
  BY <1>1
<1>3. Part(S, from, len) \subseteq S
  BY <1>1, <1>2, NthIn DEF Part
<1>4. \A j \in 1 .. len : from + j \in from + 1 .. from + len
  OBVIOUS
<1>5. \A k \in from + 1 .. from + len : k - from \in 1 .. len /\ from + (k - from) = k
  OBVIOUS
<1> DEFINE P == Part(S, from, len)
           f == [j \in 1 .. len |-> Nth(S, from + j)]
<1>6. f \in Surjection(1 .. len, P)
  <2>1. f \in [1 .. len -> P]
    BY <1>4 DEF Part
  <2>2. \A x \in P : \E j \in 1 .. len : f[j] = x
    <3>1. TAKE x \in P
    <3>2. PICK k \in from + 1 .. from + len : x = Nth(S, k)
      BY DEF Part
    <3>3. f[k - from] = x
      BY <1>5, <3>2
    <3>4. QED
      BY <1>5, <3>3
  <2>3. QED
    BY <2>1, <2>2 DEF Surjection
<1>7. IsFiniteSet(1 .. len) /\ Cardinality(1 .. len) = len
  BY FirstNumbers
<1> HIDE DEF P, f
<1>8. Cardinality(P) <= len
  BY <1>6, <1>7, FS_Surjection
<1>9. QED
  BY <1>3, <1>4, <1>8 DEF P, Part

(* What load_adapters makes of the loaded adapters.                        *)
AreLoaded(loc2, loc, dirs, new, order, new_loc) ==
  LET offset(i) == SumOf([j \in 1 .. i - 1 |-> adapter_len[order[j]]])
      loaded(i) == Part(new_loc, offset(i), adapter_len[order[i]])
  IN  /\ new = dirs \ DOMAIN loc
      /\ loc2 = [c \in DOMAIN loc \cup dirs |->
                   IF c \in DOMAIN loc THEN loc[c]
                   ELSE loaded(CHOOSE i \in DOMAIN order : order[i] = c)]

LEMMA LoadedParts ==
  ASSUME NEW loc, LoadedOK(loc), NEW dirs, dirs \subseteq AdaptersOf(Req),
         NEW new, NEW order \in Orders(new),
         NEW L, L \subseteq Cells, Cardinality(L) = SumOver(adapterCells, new),
         NEW loc2, AreLoaded(loc2, loc, dirs, new, order, L)
  PROVE  /\ LoadedOK(loc2)
         /\ \A x : InAdapter(loc, x) => InAdapter(loc2, x)
         /\ \A x \in L : InAdapter(loc2, x)
         /\ SumOver(adapterCells, DOMAIN loc2) = SumOver(adapterCells, DOMAIN loc) + Cardinality(L)
<1> DEFINE n == Cardinality(new)
           from == [i \in 1 .. n |-> SumOf([j \in 1 .. i - 1 |-> adapter_len[order[j]]])]
           A == AdaptersOf(Req)
<1>1. new \in SUBSET A /\ IsFiniteSet(A) /\ adapterCells \in [A -> Nat] /\ IsFiniteSet(new)
  <2>1. new \in SUBSET A /\ IsFiniteSet(A) /\ adapterCells \in [A -> Nat]
    BY DirsFinite DEF AreLoaded
  <2>2. QED
    BY <2>1, FS_Subset
<1>2. /\ n \in Nat
      /\ DOMAIN order = 1 .. n /\ order \in [1 .. n -> new]
      /\ \A i, j \in 1 .. n : order[i] = order[j] => i = j
      /\ \A c \in new : \E i \in 1 .. n : order[i] = c
  BY <1>1, OrdersAll
<1> HIDE DEF n
<1>3. \A i \in 1 .. n : adapter_len[order[i]] = adapterCells[order[i]]
                        /\ adapterCells[order[i]] \in Nat
  BY <1>1, <1>2, AdapterCellsAre
<1>4. AreOffsets(from, adapterCells, order, n)
  <2>1. \A i \in 1 .. n : \A j \in 1 .. i - 1 : j \in 1 .. n
    BY <1>2
  <2>2. \A i \in 1 .. n : [j \in 1 .. i - 1 |-> adapter_len[order[j]]]
                            = [j \in 1 .. i - 1 |-> adapterCells[order[j]]]
    BY <1>3, <2>1
  <2>3. QED
    BY <2>2 DEF AreOffsets
<1>5. \A i \in 1 .. n : from[i] = SumOf([j \in 1 .. i - 1 |-> adapter_len[order[j]]])
  OBVIOUS
<1> HIDE DEF from
<1>6. /\ \A i \in 1 .. n : from[i] \in Nat /\ from[i] + adapterCells[order[i]] <= Cardinality(L)
      /\ \A k \in 1 .. Cardinality(L) :
           \E i \in 1 .. n : \E j \in 1 .. adapterCells[order[i]] : k = from[i] + j
  <2> HIDE DEF A
  <2>1. AreOffsets(from, adapterCells, order, Cardinality(new))
    BY <1>4 DEF n
  <2>2. /\ \A i \in 1 .. Cardinality(new) :
              from[i] \in Nat /\ from[i] + adapterCells[order[i]] <= SumOver(adapterCells, new)
        /\ \A k \in 1 .. SumOver(adapterCells, new) :
              \E i \in 1 .. Cardinality(new) :
                \E j \in 1 .. adapterCells[order[i]] : k = from[i] + j
    BY <1>1, <2>1, Consecutive
  <2>3. QED
    BY <2>2 DEF n
<1>7. ASSUME NEW i \in 1 .. n
      PROVE  loc2[order[i]] = Part(L, from[i], adapterCells[order[i]])
  <2>1. order[i] \in dirs /\ order[i] \notin DOMAIN loc
    BY <1>2 DEF AreLoaded
  <2>2. (CHOOSE k \in DOMAIN order : order[k] = order[i]) = i
    BY <1>2
  <2>3. QED
    BY <1>3, <1>5, <2>1, <2>2 DEF AreLoaded
<1>8. /\ DOMAIN loc2 = DOMAIN loc \cup new
      /\ \A c \in DOMAIN loc : loc2[c] = loc[c]
  BY DEF AreLoaded
<1>9. ASSUME NEW i \in 1 .. n
      PROVE  /\ loc2[order[i]] \subseteq L
             /\ Cardinality(loc2[order[i]]) <= adapterCells[order[i]]
             /\ \A j \in 1 .. adapterCells[order[i]] : Nth(L, from[i] + j) \in loc2[order[i]]
  <2> DEFINE f == from[i]
             l == adapterCells[order[i]]
  <2>1. f \in Nat /\ l \in Nat /\ f + l <= Cardinality(L) /\ loc2[order[i]] = Part(L, f, l)
    BY <1>3, <1>6, <1>7
  <2> HIDE DEF f, l
  <2>2. /\ Part(L, f, l) \subseteq L /\ Cardinality(Part(L, f, l)) <= l
        /\ \A j \in 1 .. l : Nth(L, f + j) \in Part(L, f, l)
    BY <2>1, PartSized
  <2>3. QED
    BY <2>1, <2>2 DEF f, l
<1>10. LoadedOK(loc2)
  <2>1. DOMAIN loc2 \subseteq AdaptersOf(Req)
    BY <1>1, <1>8 DEF LoadedOK
  <2>2. ASSUME NEW c \in DOMAIN loc2
        PROVE  loc2[c] \subseteq Cells /\ Cardinality(loc2[c]) <= adapterCells[c]
    <3>1. CASE c \in DOMAIN loc
      BY <1>8, <3>1 DEF LoadedOK
    <3>2. CASE c \in new
      <4>1. PICK i \in 1 .. n : order[i] = c
        BY <1>2, <3>2
      <4>2. QED
        BY <1>9, <4>1
    <3>3. QED
      BY <1>8, <3>1, <3>2
  <2>3. QED
    BY <2>1, <2>2 DEF LoadedOK
<1>11. ASSUME NEW x \in L PROVE InAdapter(loc2, x)
  <2>1. L \in SUBSET Nat /\ IsFiniteSet(L)
    BY PartFinite
  <2>2. PICK k \in 1 .. Cardinality(L) : x = Nth(L, k)
    BY <2>1, NthIn
  <2>3. PICK i \in 1 .. n : \E j \in 1 .. adapterCells[order[i]] : k = from[i] + j
    BY <1>6
  <2>4. x \in loc2[order[i]] /\ order[i] \in DOMAIN loc2
    BY <1>2, <1>8, <1>9, <2>2, <2>3
  <2>5. QED
    BY <2>4 DEF InAdapter
<1>12. \A x : InAdapter(loc, x) => InAdapter(loc2, x)
  BY <1>8 DEF InAdapter
<1>13. SumOver(adapterCells, DOMAIN loc2) = SumOver(adapterCells, DOMAIN loc) + Cardinality(L)
  <2> DEFINE D == DOMAIN loc
  <2>1. D \in SUBSET A /\ D \cap new = {}
    BY DEF LoadedOK, AreLoaded
  <2> HIDE DEF D, A
  <2>2. SumOver(adapterCells, D \cup new) = SumOver(adapterCells, D) + SumOver(adapterCells, new)
    BY <1>1, <2>1, SumUnion
  <2>3. QED
    BY <1>8, <2>2 DEF D
<1>14. QED
  BY <1>10, <1>11, <1>12, <1>13

LEMMA LoadBooks ==
  ASSUME outputs \in [Req -> Nat],
         Books(mem_state, can_use_mem_size, cache, outputs, a_loc),
         NEW dirs, dirs \subseteq AdaptersOf(Req),
         HasRoom(LoadSize(dirs)), LoadAdapters(dirs)
  PROVE  Books(mem_state', can_use_mem_size', cache', outputs, a_loc')
<1> DEFINE L == Lowest(LoadSize(dirs))
           new == dirs \ DOMAIN a_loc
<1>1. PICK order \in Orders(new) :
        /\ Mark(L) /\ AreLoaded(a_loc', a_loc, dirs, new, order, L) /\ cache' = cache
  BY DEF LoadAdapters, NewAdapters, AreLoaded
<1>2. L \subseteq mem_state /\ Cardinality(L) = SumOver(adapterCells, new)
  <2>1. LoadSize(dirs) = SumOver(adapterCells, new) /\ LoadSize(dirs) \in Nat
    BY LoadSizeIs DEF NewAdapters
  <2>2. mem_state \subseteq Cells /\ LoadSize(dirs) \in 0 .. Cardinality(mem_state)
    <3>1. mem_state \subseteq Cells /\ can_use_mem_size = Cardinality(mem_state)
      BY DEF Books
    <3>2. Cardinality(mem_state) \in Nat
      BY <3>1, TakenFrom
    <3>3. QED
      BY <2>1, <3>1, <3>2 DEF HasRoom
  <2>3. QED
    BY <2>1, <2>2, LowestGiven
<1>3. L \subseteq Cells /\ LoadedOK(a_loc) /\ Shaped(cache) /\ Sized(cache, outputs)
  BY <1>2 DEF Books
<1> HIDE DEF L
<1>4. /\ LoadedOK(a_loc')
      /\ \A x : InAdapter(a_loc, x) => InAdapter(a_loc', x)
      /\ \A x \in L : InAdapter(a_loc', x)
      /\ SumOver(adapterCells, DOMAIN a_loc')
           = SumOver(adapterCells, DOMAIN a_loc) + Cardinality(L)
  BY <1>1, <1>2, <1>3, LoadedParts
<1> HIDE DEF new
<1>5. Due(cache, outputs, a_loc') = Due(cache, outputs, a_loc) + Cardinality(L)
  <2> DEFINE s == SumOver(Needs(outputs), Holders(cache))
             t == SumOver(adapterCells, DOMAIN a_loc)
             u == Cardinality(L)
  <2>1. s \in Nat /\ t \in Nat /\ u \in Nat
    BY <1>2, <1>3, DueNat, TakenFrom
  <2> HIDE DEF s, t, u
  <2>2. s + (t + u) = (s + t) + u
    BY <2>1
  <2>3. QED
    BY <1>4, <2>2 DEF Due, s, t, u
<1>6. Books(mem_state \ L, can_use_mem_size - Cardinality(L), cache, outputs, a_loc')
  BY <1>2, <1>3, <1>4, <1>5, TakeCells
<1>7. mem_state' = mem_state \ L /\ can_use_mem_size' = can_use_mem_size - Cardinality(L)
  BY <1>1 DEF Mark
<1>8. QED
  BY <1>1, <1>6, <1>7

(* ch2 is ch with the batch b under id beside the others.                  *)
IsBeside(ch2, ch, id, b) ==
  /\ DOMAIN ch2 = DOMAIN ch \cup {id} /\ ch2[id] = b
  /\ \A k \in DOMAIN ch : ch2[k] = ch[k]
  /\ Members(b) \cap Holders(ch) = {}

LEMMA PutBeside ==
  ASSUME NEW ch, Shaped(ch), NEW id \in {Running, Mini}, id \notin DOMAIN ch,
         NEW b, BatchShape(b), NEW ch2, IsBeside(ch2, ch, id, b)
  PROVE  /\ Shaped(ch2) /\ Holders(ch2) = Holders(ch) \cup Members(b)
         /\ \A x : InRow(ch, x) => InRow(ch2, x)
         /\ \A x : (\E r \in Members(b) : x \in RowCells(b, r)) => InRow(ch2, x)
<1> USE DEF IsBeside
<1>1. \A k \in DOMAIN ch : Members(ch[k]) \cap Members(b) = {}
  BY DEF Holders
<1>2. Shaped(ch2)
  <2>1. DOMAIN ch2 \subseteq {Running, Mini}
    BY DEF Shaped
  <2>2. \A k \in DOMAIN ch2 : BatchShape(ch2[k])
    BY DEF Shaped
  <2>3. ASSUME NEW k \in DOMAIN ch2, NEW l \in DOMAIN ch2, k # l
        PROVE  Members(ch2[k]) \cap Members(ch2[l]) = {}
    <3>1. CASE k \in DOMAIN ch /\ l \in DOMAIN ch
      BY <2>3, <3>1 DEF Shaped
    <3>2. CASE k = id /\ l \in DOMAIN ch
      BY <1>1, <3>2
    <3>3. CASE k \in DOMAIN ch /\ l = id
      BY <1>1, <3>3
    <3>4. QED
      BY <2>3, <3>1, <3>2, <3>3
  <2>4. QED
    BY <2>1, <2>2, <2>3 DEF Shaped
<1>3. Holders(ch2) = Holders(ch) \cup Members(b)
  BY DEF Holders
<1>4. \A x : InRow(ch, x) => InRow(ch2, x)
  BY DEF InRow
<1>5. \A x : (\E r \in Members(b) : x \in RowCells(b, r)) => InRow(ch2, x)
  BY DEF InRow
<1>6. QED
  BY <1>2, <1>3, <1>4, <1>5

LEMMA PrefillBooks ==
  ASSUME outputs \in [Req -> Nat], outputs' \in [Req -> Nat],
         Books(mem_state, can_use_mem_size, cache, outputs, a_loc),
         NEW reqs \in SUBSET Req, reqs # {}, reqs \cap Holders(cache) = {},
         NEW id \in {Running, Mini}, id \notin DOMAIN cache,
         \A r \in reqs : outputs'[r] = 1,
         \A r \in Req \ reqs : outputs'[r] = outputs[r],
         HasRoom(PromptSize(reqs)), PrefillBatch(id, reqs)
  PROVE  /\ Books(mem_state', can_use_mem_size', cache', outputs', a_loc')
         /\ DOMAIN cache' = DOMAIN cache \cup {id} /\ Members(cache'[id]) = reqs
         /\ \A k \in DOMAIN cache : cache'[k] = cache[k]
<1> DEFINE L == Lowest(PromptSize(reqs))
           b == cache'[id]
           H == Holders(cache)
           f == Needs(outputs)
           g == Needs(outputs')
<1>1. PICK order \in Orders(reqs) :
        /\ Mark(L) /\ a_loc' = a_loc
        /\ DOMAIN cache' = DOMAIN cache \cup {id} /\ IsPrefilled(b, order, L)
        /\ \A k \in DOMAIN cache : cache'[k] = cache[k]
  BY DEF PrefillBatch, IsPrefilled
<1>2. L \subseteq mem_state /\ Cardinality(L) = SumOver(input_len, reqs)
  <2>1. PromptSize(reqs) = SumOver(input_len, reqs) /\ PromptSize(reqs) \in Nat
    BY PromptSizeIs
  <2>2. mem_state \subseteq Cells /\ PromptSize(reqs) \in 0 .. Cardinality(mem_state)
    <3>1. mem_state \subseteq Cells /\ can_use_mem_size = Cardinality(mem_state)
      BY DEF Books
    <3>2. Cardinality(mem_state) \in Nat
      BY <3>1, TakenFrom
    <3>3. QED
      BY <2>1, <3>1, <3>2 DEF HasRoom
  <2>3. QED
    BY <2>1, <2>2, LowestGiven
<1>3. L \subseteq Cells /\ LoadedOK(a_loc) /\ Shaped(cache) /\ Sized(cache, outputs)
  BY <1>2 DEF Books
<1> HIDE DEF L, b
<1>4. /\ BatchShape(b) /\ Members(b) = reqs
      /\ \A r \in reqs : Size(b, r) = input_len[r]
      /\ \A c \in L : \E r \in reqs : c \in RowCells(b, r)
  BY <1>1, <1>2, <1>3, PrefilledBatch
<1>5. /\ Shaped(cache') /\ Holders(cache') = H \cup reqs
      /\ \A x : InRow(cache, x) => InRow(cache', x)
      /\ \A x \in L : InRow(cache', x)
  <2> DEFINE ch == cache'
  <2>1. /\ DOMAIN ch = DOMAIN cache \cup {id} /\ ch[id] = b
        /\ \A k \in DOMAIN cache : ch[k] = cache[k]
    BY <1>1 DEF b
  <2> HIDE DEF ch
  <2>2. IsBeside(ch, cache, id, b)
    BY <1>4, <2>1 DEF IsBeside
  <2>3. /\ Shaped(ch) /\ Holders(ch) = Holders(cache) \cup Members(b)
        /\ \A x : InRow(cache, x) => InRow(ch, x)
        /\ \A x : (\E r \in Members(b) : x \in RowCells(b, r)) => InRow(ch, x)
    <3>1. Shaped(cache) /\ BatchShape(b) /\ id \in {Running, Mini} /\ id \notin DOMAIN cache
      BY <1>3, <1>4
    <3>2. QED
      BY <3>1, <2>2, PutBeside
  <2>4. QED
    BY <1>4, <2>3 DEF ch
<1>6. /\ \A r \in reqs : g[r] = input_len[r]
      /\ \A r \in Req \ reqs : g[r] = f[r]
  <2>1. \A r \in Req : input_len[r] + 1 - 1 = input_len[r]
    BY RequestAssumption
  <2>2. QED
    BY <2>1 DEF Needs
<1>7. H \in SUBSET Req /\ H \cap reqs = {} /\ f \in [Req -> Nat] /\ g \in [Req -> Nat]
      /\ IsFiniteSet(Req) /\ input_len \in [Req -> Nat]
  <2>1. IsFiniteSet(Req) /\ input_len \in [Req -> Nat]
    BY RequestAssumption
  <2>2. QED
    BY <1>3, <2>1, HoldersAre, NeedsNat
<1>8. Sized(cache', outputs')
  <2>1. ASSUME NEW k \in DOMAIN cache, NEW r \in Members(cache'[k])
        PROVE  Size(cache'[k], r) = g[r]
    <3>1. cache'[k] = cache[k] /\ r \in H
      BY <1>1, <2>1 DEF Holders
    <3>2. Size(cache[k], r) = f[r] /\ g[r] = f[r]
      BY <1>3, <1>6, <1>7, <2>1, <3>1 DEF Sized
    <3>3. QED
      BY <3>1, <3>2
  <2>2. \A r \in Members(b) : Size(b, r) = g[r]
    BY <1>4, <1>6
  <2>3. QED
    BY <1>1, <2>1, <2>2 DEF Sized, b
<1> HIDE DEF f, g, H
<1>9. SumOver(g, H \cup reqs) = SumOver(f, H) + SumOver(input_len, reqs)
  <2>1. SumOver(g, H \cup reqs) = SumOver(g, H) + SumOver(g, reqs)
    BY <1>7, SumUnion
  <2>2. SumOver(g, H) = SumOver(f, H)
    <3>1. \A r \in H : g[r] = f[r]
      BY <1>6, <1>7
    <3>2. QED
      BY <1>7, <3>1, SumSame
  <2>3. SumOver(g, reqs) = SumOver(input_len, reqs)
    BY <1>6, <1>7, SumSame
  <2>4. QED
    BY <2>1, <2>2, <2>3
<1>10. Due(cache', outputs', a_loc) = Due(cache, outputs, a_loc) + Cardinality(L)
  <2> DEFINE s == SumOver(f, H)
             t == SumOver(adapterCells, DOMAIN a_loc)
             u == Cardinality(L)
  <2>1. s \in Nat /\ t \in Nat /\ u \in Nat
    BY <1>2, <1>3, DueNat, TakenFrom DEF f, H
  <2>2. SumOver(g, Holders(cache')) = s + u
    BY <1>2, <1>5, <1>9
  <2> HIDE DEF s, t, u
  <2>3. (s + u) + t = (s + t) + u
    BY <2>1
  <2>4. QED
    BY <2>2, <2>3 DEF Due, s, t, u, f, g, H
<1>11. Books(mem_state \ L, can_use_mem_size - Cardinality(L), cache', outputs', a_loc)
  <2> DEFINE ch == cache'
             outs == outputs'
  <2>1. /\ Shaped(ch) /\ outs \in [Req -> Nat] /\ Sized(ch, outs)
        /\ Due(ch, outs, a_loc) = Due(cache, outputs, a_loc) + Cardinality(L)
        /\ \A x \in Cells : InRow(cache, x) => InRow(ch, x)
        /\ \A x \in Cells : InAdapter(a_loc, x) => InAdapter(a_loc, x)
        /\ \A x \in L : InRow(ch, x) \/ InAdapter(a_loc, x)
    BY <1>5, <1>8, <1>10
  <2> HIDE DEF ch, outs
  <2>2. Books(mem_state \ L, can_use_mem_size - Cardinality(L), ch, outs, a_loc)
    BY <1>2, <1>3, <2>1, TakeCells
  <2>3. QED
    BY <2>2 DEF ch, outs
<1>12. mem_state' = mem_state \ L /\ can_use_mem_size' = can_use_mem_size - Cardinality(L)
  BY <1>1 DEF Mark
<1>13. QED
  BY <1>1, <1>4, <1>11, <1>12 DEF b

(* The batch b, under id, is all there is in the cache.                    *)
IsSole(ch, id, b) == DOMAIN ch = {id} /\ ch[id] = b

LEMMA SoleBatch ==
  ASSUME NEW id \in {Running, Mini}, NEW b, BatchShape(b), NEW ch, IsSole(ch, id, b)
  PROVE  /\ Shaped(ch) /\ Holders(ch) = Members(b)
         /\ \A x : InRow(ch, x) <=> \E r \in Members(b) : x \in RowCells(b, r)
<1> USE DEF IsSole
<1>1. Shaped(ch)
  BY DEF Shaped
<1>2. Holders(ch) = Members(b)
  BY DEF Holders
<1>3. \A x : InRow(ch, x) <=> \E r \in Members(b) : x \in RowCells(b, r)
  BY DEF InRow
<1>4. QED
  BY <1>1, <1>2, <1>3

LEMMA MembersCounted ==
  ASSUME NEW b, BatchShape(b)
  PROVE  Cardinality(Members(b)) = Len(b.requests)
<1> DEFINE s == b.requests
           n == Len(s)
<1>1. s \in Seq(Req) /\ n \in Nat /\ DOMAIN s = 1 .. n
      /\ \A i, j \in 1 .. n : s[i] = s[j] => i = j
  BY LenProperties DEF BatchShape
<1> HIDE DEF n
<1>2. /\ \A i \in 1 .. n : s[i] \in Members(b)
      /\ \A r \in Members(b) : \E i \in 1 .. n : s[i] = r
  BY <1>1 DEF Members, Range
<1> HIDE DEF s
<1>3. IsFiniteSet(1 .. n) /\ Cardinality(1 .. n) = n
  BY <1>1, FirstNumbers
<1> DEFINE e == [i \in 1 .. n |-> s[i]]
           M == Members(b)
<1>4. e \in Injection(1 .. n, M) /\ e \in Surjection(1 .. n, M)
  <2>1. e \in [1 .. n -> M]
    BY <1>2
  <2>2. e \in Injection(1 .. n, M)
    BY <1>1, <2>1 DEF Injection, IsInjective
  <2>3. e \in Surjection(1 .. n, M)
    BY <1>2, <2>1 DEF Surjection
  <2>4. QED
    BY <2>2, <2>3
<1> HIDE DEF e, M
<1>5. Cardinality(M) = n
  BY <1>3, <1>4, FS_Surjection
<1>6. QED
  BY <1>5 DEF M, n, s

LEMMA DecodeBooks ==
  ASSUME outputs \in [Req -> Nat], outputs' \in [Req -> Nat],
         Books(mem_state, can_use_mem_size, cache, outputs, a_loc),
         NEW id \in {Running, Mini}, DOMAIN cache = {id},
         \A r \in Members(cache[id]) : outputs'[r] = outputs[r] + 1,
         HasRoom(Cardinality(Members(cache[id]))), DecodeBatch(id)
  PROVE  /\ Books(mem_state', can_use_mem_size', cache', outputs', a_loc')
         /\ DOMAIN cache' = {id} /\ Members(cache'[id]) = Members(cache[id])
<1> DEFINE b == cache[id]
           n == Len(b.requests)
           L == IF FreeStarts(n) # {} THEN FirstWindow(n) ELSE Lowest(n)
           d == cache'[id]
           H == Members(b)
           f == Needs(outputs)
           g == Needs(outputs')
<1>1. /\ Mark(L) /\ a_loc' = a_loc /\ DOMAIN cache' = {id} /\ IsDecoded(d, b, L)
  BY DEF DecodeBatch, IsDecoded
<1>2. BatchShape(b) /\ Shaped(cache) /\ Sized(cache, outputs) /\ LoadedOK(a_loc)
  BY DEF Books, Shaped
<1>3. n \in Nat /\ Cardinality(H) = n /\ H \in SUBSET Req /\ IsFiniteSet(Req)
  BY <1>2, MembersCounted, RowsHeld, LenProperties, RequestAssumption DEF BatchShape
<1>4. L \subseteq mem_state /\ Cardinality(L) = n
  <2>1. mem_state \subseteq Cells /\ n \in 0 .. Cardinality(mem_state)
    <3>1. mem_state \subseteq Cells /\ can_use_mem_size = Cardinality(mem_state)
      BY DEF Books
    <3>2. Cardinality(mem_state) \in Nat
      BY <3>1, TakenFrom
    <3>3. QED
      BY <1>3, <3>1, <3>2 DEF HasRoom
  <2>2. QED
    BY <1>3, <2>1, LowestGiven, WindowGiven
<1>5. L \subseteq Cells
  BY <1>4 DEF Books
<1> HIDE DEF L, d
<1>6. /\ BatchShape(d) /\ Members(d) = H
      /\ \A r \in H : Size(d, r) = Size(b, r) + 1 /\ RowCells(b, r) \subseteq RowCells(d, r)
      /\ \A c \in L : \E r \in H : c \in RowCells(d, r)
  BY <1>1, <1>2, <1>4, <1>5, DecodedBatch
<1>7. \A r \in H : Size(b, r) = f[r]
  BY <1>2 DEF Sized
<1>8. f \in [Req -> Nat] /\ g \in [Req -> Nat]
  BY NeedsNat
<1>9. \A r \in H : g[r] = f[r] + 1
  <2> SUFFICES ASSUME NEW r \in H PROVE g[r] = f[r] + 1
    OBVIOUS
  <2> DEFINE i == input_len[r]
             o == outputs[r]
             p == outputs'[r]
  <2>1. i \in Nat /\ o \in Nat /\ p = o + 1
    BY <1>3, RequestAssumption
  <2>2. f[r] = i + o - 1 /\ g[r] = i + p - 1
    BY <1>3 DEF Needs
  <2> HIDE DEF i, o, p, f, g
  <2>3. QED
    BY <2>1, <2>2
<1> HIDE DEF f, g, n
<1>10. SumOver(g, H) = n + SumOver(f, H)
  <2>1. SumOver(g, H) = 1 * Cardinality(H) + SumOver(f, H)
    BY <1>3, <1>8, <1>9, SumMore
  <2>2. QED
    BY <1>3, <2>1
<1> HIDE DEF b, H
<1> DEFINE ch == cache'
           outs == outputs'
<1>11. IsSole(cache, id, b) /\ IsSole(ch, id, d)
  BY <1>1 DEF IsSole, b, d
<1>12. Sized(ch, outs)
  BY <1>1, <1>6, <1>7, <1>9 DEF Sized, d, g
<1> HIDE DEF ch
<1>13. /\ Shaped(ch) /\ Holders(cache) = H /\ Holders(ch) = H
       /\ \A x : InRow(cache, x) => InRow(ch, x)
       /\ \A x \in L : InRow(ch, x)
  <2>1. /\ Holders(cache) = H
        /\ \A x : InRow(cache, x) <=> \E r \in H : x \in RowCells(b, r)
    BY <1>2, <1>11, SoleBatch DEF H
  <2>2. /\ Shaped(ch) /\ Holders(ch) = H
        /\ \A x : InRow(ch, x) <=> \E r \in H : x \in RowCells(d, r)
    BY <1>6, <1>11, SoleBatch
  <2>3. QED
    BY <1>6, <2>1, <2>2
<1>14. Due(ch, outs, a_loc) = Due(cache, outputs, a_loc) + Cardinality(L)
  <2> DEFINE s == SumOver(f, H)
             t == SumOver(adapterCells, DOMAIN a_loc)
  <2>1. s \in Nat /\ t \in Nat
    BY <1>2, <1>13, DueNat DEF f
  <2>2. Due(ch, outs, a_loc) = (n + s) + t
    BY <1>10, <1>13 DEF Due, g
  <2>3. Due(cache, outputs, a_loc) = s + t
    BY <1>13 DEF Due, f
  <2> HIDE DEF s, t
  <2>4. QED
    BY <1>3, <1>4, <2>1, <2>2, <2>3
<1>15. Books(mem_state \ L, can_use_mem_size - Cardinality(L), ch, outs, a_loc)
  <2>1. /\ \A x \in Cells : InRow(cache, x) => InRow(ch, x)
        /\ \A x \in Cells : InAdapter(a_loc, x) => InAdapter(a_loc, x)
        /\ \A x \in L : InRow(ch, x) \/ InAdapter(a_loc, x)
        /\ outs \in [Req -> Nat]
    BY <1>13
  <2> HIDE DEF outs
  <2>2. QED
    BY <1>2, <1>4, <1>12, <1>13, <1>14, <2>1, TakeCells
<1>16. mem_state' = mem_state \ L /\ can_use_mem_size' = can_use_mem_size - Cardinality(L)
  BY <1>1 DEF Mark
<1>17. QED
  BY <1>1, <1>6, <1>15, <1>16 DEF ch, d, b, H

LEMMA MergeBooks ==
  ASSUME outputs \in [Req -> Nat],
         Books(mem_state, can_use_mem_size, cache, outputs, a_loc),
         NEW id \in {Running, Mini}, NEW jd \in {Running, Mini}, id # jd,
         DOMAIN cache = {id, jd}, MergeBatch(id, jd)
  PROVE  /\ Books(mem_state', can_use_mem_size', cache', outputs, a_loc')
         /\ DOMAIN cache' = {id}
         /\ Members(cache'[id]) = Members(cache[id]) \cup Members(cache[jd])
<1> DEFINE b == cache[id]
           c == cache[jd]
           d == cache'[id]
           f == Needs(outputs)
<1>1. DOMAIN cache' = {id} /\ IsMerged(d, b, c)
      /\ mem_state' = mem_state /\ can_use_mem_size' = can_use_mem_size /\ a_loc' = a_loc
  BY DEF MergeBatch, IsMerged, poolVars
<1>2. /\ BatchShape(b) /\ BatchShape(c) /\ Members(b) \cap Members(c) = {}
      /\ Holders(cache) = Members(b) \cup Members(c)
  BY DEF Books, Shaped, Holders
<1>3. /\ \A r \in Members(b) : Size(b, r) = f[r]
      /\ \A r \in Members(c) : Size(c, r) = f[r]
  BY DEF Books, Sized
<1>4. \A x : InRow(cache, x) => \/ \E r \in Members(b) : x \in RowCells(b, r)
                                \/ \E r \in Members(c) : x \in RowCells(c, r)
  BY DEF InRow
<1> HIDE DEF b, c, d, f
<1>5. /\ BatchShape(d) /\ Members(d) = Members(b) \cup Members(c)
      /\ \A r \in Members(b) : Size(d, r) = Size(b, r) /\ RowCells(d, r) = RowCells(b, r)
      /\ \A r \in Members(c) : Size(d, r) = Size(c, r) /\ RowCells(d, r) = RowCells(c, r)
  BY <1>1, <1>2, MergedBatch
<1> DEFINE ch == cache'
<1>6. IsSole(ch, id, d)
  BY <1>1 DEF IsSole, d
<1>7. Sized(ch, outputs)
  BY <1>1, <1>3, <1>5 DEF Sized, d, f
<1> HIDE DEF ch
<1>8. /\ Shaped(ch) /\ Holders(ch) = Members(d)
      /\ \A x : InRow(ch, x) <=> \E r \in Members(d) : x \in RowCells(d, r)
  BY <1>5, <1>6, SoleBatch
<1>9. \A x : InRow(cache, x) => InRow(ch, x)
  BY <1>4, <1>5, <1>8
<1>10. Holders(ch) = Holders(cache)
  BY <1>2, <1>5, <1>8
<1>11. Due(ch, outputs, a_loc) = Due(cache, outputs, a_loc)
  BY <1>10 DEF Due
<1>12. Books(mem_state, can_use_mem_size, ch, outputs, a_loc)
  BY <1>7, <1>8, <1>9, <1>11 DEF Books
<1>13. QED
  BY <1>1, <1>5, <1>12 DEF ch, d, b, c

(* What the rows of those who leave are together.                          *)
Leavers(b, left) == {i \in DOMAIN b.requests : b.requests[i] \notin left}

LEMMA GoneSum ==
  ASSUME NEW b, BatchShape(b), NEW f \in [Req -> Nat],
         \A r \in Members(b) : Size(b, r) = f[r], NEW left
  PROVE  SumOf([i \in Leavers(b, left) |-> Len(RowSlice(b, i))])
           = SumOver(f, Members(b) \ left)
<1> DEFINE gone == Leavers(b, left)
           s == b.requests
           n == Len(s)
           G == Members(b) \ left
<1>1. s \in Seq(Req) /\ n \in Nat /\ DOMAIN s = 1 .. n
      /\ \A i, j \in 1 .. n : s[i] = s[j] => i = j
  BY LenProperties DEF BatchShape
<1>2. IsFiniteSet(1 .. n) /\ IsFiniteSet(Req)
  BY <1>1, FirstNumbers, RequestAssumption
<1>3. \A i \in 1 .. n : s[i] \in Req /\ Len(RowSlice(b, i)) = f[s[i]]
  BY <1>1, AtIsPlace, SliceIsRow
<1>4. gone \in SUBSET (1 .. n) /\ G = {s[i] : i \in gone}
  BY <1>1 DEF Members, Range, Leavers
<1> HIDE DEF G, gone
<1> DEFINE g == [i \in 1 .. n |-> f[s[i]]]
           t == [i \in 1 .. n |-> s[i]]
           e == [i \in gone |-> Len(RowSlice(b, i))]
<1> HIDE DEF n, s
<1>5. g \in [1 .. n -> Nat] /\ t \in [1 .. n -> Req]
  BY <1>3
<1>6. t \in Injection(1 .. n, Req)
  BY <1>1, <1>5 DEF Injection, IsInjective
<1>7. \A i \in 1 .. n : g[i] = f[t[i]]
  OBVIOUS
<1>8. G = {t[i] : i \in gone}
  BY <1>4
<1>9. DOMAIN e = gone /\ \A i \in gone : e[i] = g[i]
  BY <1>3, <1>4
<1> DEFINE N == 1 .. n
<1>10. /\ IsFiniteSet(Req) /\ IsFiniteSet(N) /\ t \in Injection(N, Req)
       /\ g \in [N -> Nat] /\ (\A i \in N : g[i] = f[t[i]]) /\ gone \in SUBSET N
  BY <1>2, <1>4, <1>5, <1>6, <1>7
<1> HIDE DEF g, t, e, N
<1>11. SumOver(g, gone) = SumOver(f, G)
  BY <1>8, <1>10, SumImage
<1>12. SumOf(e) = SumOver(g, gone)
  BY <1>9, <1>10, SumOfIsSum
<1>13. QED
  BY <1>11, <1>12 DEF e, G, gone

(* The cache after filter_batch or remove_batch.                           *)
IsReleased(ch2, ch, id, left) ==
  ch2 = IF left = {} THEN [k \in DOMAIN ch \ {id} |-> ch[k]]
        ELSE [ch EXCEPT ![id] = Filtered(ch[id], left)]

(* Of the batch under id those of left are left, the others and their rows *)
(* are gone, and the rest of the cache is what it was.                     *)
OnlyLeft(ch2, ch, id, left) ==
  /\ DOMAIN ch2 = IF left = {} THEN DOMAIN ch \ {id} ELSE DOMAIN ch
  /\ left # {} => Members(ch2[id]) = left
  /\ \A k \in DOMAIN ch \ {id} : ch2[k] = ch[k]
  /\ Holders(ch2) = Holders(ch) \ (Members(ch[id]) \ left)
  /\ \A x : InRow(ch, x) => \/ InRow(ch2, x)
                            \/ \E r \in Members(ch[id]) \ left : x \in RowCells(ch[id], r)

LEMMA ReleasedCache ==
  ASSUME NEW ch, Shaped(ch), NEW outs, Sized(ch, outs),
         NEW id \in DOMAIN ch, NEW left, left \subseteq Members(ch[id]),
         NEW ch2, IsReleased(ch2, ch, id, left)
  PROVE  Shaped(ch2) /\ Sized(ch2, outs) /\ OnlyLeft(ch2, ch, id, left)
<1> DEFINE b == ch[id]
           d == Filtered(b, left)
<1>1. /\ DOMAIN ch2 = IF left = {} THEN DOMAIN ch \ {id} ELSE DOMAIN ch
      /\ \A k \in DOMAIN ch \ {id} : ch2[k] = ch[k]
      /\ left # {} => ch2[id] = d
  BY DEF IsReleased
<1>2. BatchShape(b)
  BY DEF Shaped
<1>3. ASSUME left # {}
      PROVE  /\ BatchShape(d) /\ Members(d) = left
             /\ \A r \in left : Size(d, r) = Size(b, r) /\ RowCells(d, r) = RowCells(b, r)
  <2>1. Members(b) \cap left = left
    OBVIOUS
  <2> HIDE DEF b
  <2>2. QED
    BY <1>2, <1>3, <2>1, FilteredBatch
<1>4. \A k \in DOMAIN ch \ {id} : /\ BatchShape(ch[k])
                                  /\ Members(ch[k]) \cap Members(b) = {}
  BY DEF Shaped
<1>5. left # {} => Members(ch2[id]) = left
  BY <1>1, <1>3
<1>6. \A k \in DOMAIN ch2 : k \in DOMAIN ch /\ (k = id => left # {})
  BY <1>1
<1>7. Shaped(ch2)
  <2>1. DOMAIN ch2 \subseteq {Running, Mini}
    BY <1>6 DEF Shaped
  <2>2. \A k \in DOMAIN ch2 : BatchShape(ch2[k]) /\ Members(ch2[k]) \subseteq Members(ch[k])
    BY <1>1, <1>3, <1>4, <1>6
  <2>3. \A k, l \in DOMAIN ch2 : k # l => Members(ch2[k]) \cap Members(ch2[l]) = {}
    BY <1>6, <2>2 DEF Shaped
  <2>4. QED
    BY <2>1, <2>2, <2>3 DEF Shaped
<1>8. Sized(ch2, outs)
  BY <1>1, <1>3, <1>6 DEF Sized
<1>9. Holders(ch2) = Holders(ch) \ (Members(b) \ left)
  <2>1. ASSUME NEW r \in Holders(ch2) PROVE r \in Holders(ch) \ (Members(b) \ left)
    <3>1. PICK k \in DOMAIN ch2 : r \in Members(ch2[k])
      BY DEF Holders
    <3>2. CASE k = id
      BY <1>5, <1>6, <3>1, <3>2 DEF Holders
    <3>3. CASE k # id
      BY <1>1, <1>4, <1>6, <3>1, <3>3 DEF Holders
    <3>4. QED
      BY <3>2, <3>3
  <2>2. ASSUME NEW r \in Holders(ch), r \notin Members(b) \ left PROVE r \in Holders(ch2)
    <3>1. PICK k \in DOMAIN ch : r \in Members(ch[k])
      BY DEF Holders
    <3>2. CASE k = id
      <4>1. r \in left /\ left # {} /\ id \in DOMAIN ch2
        BY <1>1, <2>2, <3>1, <3>2
      <4>2. QED
        BY <1>5, <4>1 DEF Holders
    <3>3. CASE k # id
      BY <1>1, <3>1, <3>3 DEF Holders
    <3>4. QED
      BY <3>2, <3>3
  <2>3. QED
    BY <2>1, <2>2
<1>10. ASSUME NEW x, InRow(ch, x), ~ \E r \in Members(b) \ left : x \in RowCells(b, r)
       PROVE  InRow(ch2, x)
  <2>1. PICK k \in DOMAIN ch : \E r \in Members(ch[k]) : x \in RowCells(ch[k], r)
    BY <1>10 DEF InRow
  <2>2. CASE k = id
    <3>1. PICK r \in left : x \in RowCells(b, r)
      BY <1>10, <2>1, <2>2
    <3>2. left # {} /\ id \in DOMAIN ch2 /\ ch2[id] = d
      BY <1>1
    <3>3. r \in Members(ch2[id]) /\ x \in RowCells(ch2[id], r)
      BY <1>3, <3>1, <3>2
    <3>4. QED
      BY <3>2, <3>3 DEF InRow
  <2>3. CASE k # id
    BY <1>1, <2>1, <2>3 DEF InRow
  <2>4. QED
    BY <2>2, <2>3
<1>11. QED
  BY <1>1, <1>5, <1>7, <1>8, <1>9, <1>10 DEF OnlyLeft

LEMMA ReleaseBooks ==
  ASSUME outputs \in [Req -> Nat],
         Books(mem_state, can_use_mem_size, cache, outputs, a_loc),
         NEW id \in DOMAIN cache, NEW left, left \subseteq Members(cache[id]),
         NEW kept, Release(id, left, kept)
  PROVE  /\ Books(mem_state', can_use_mem_size', cache', outputs, a_loc')
         /\ DOMAIN cache' = IF left = {} THEN DOMAIN cache \ {id} ELSE DOMAIN cache
         /\ left # {} => Members(cache'[id]) = left
         /\ \A k \in DOMAIN cache \ {id} : cache'[k] = cache[k]
<1> DEFINE b == cache[id]
           f == Needs(outputs)
           M == Members(b)
           G == M \ left
           gone == Leavers(b, left)
           U == DOMAIN a_loc \ kept
           rows == UNION {Range(RowSlice(b, i)) : i \in gone}
           cells == UNION {a_loc[c] : c \in U}
           C == rows \cup cells
           x == SumOf([i \in gone |-> Len(RowSlice(b, i))])
           y == SumOf([c \in U |-> adapter_len[c]])
           n == x + y
           ch == cache'
           loc == a_loc'
<1>1. /\ Free(C, n) /\ loc = [c \in DOMAIN a_loc \cap kept |-> a_loc[c]]
      /\ IsReleased(ch, cache, id, left)
  BY DEF Release, Leavers, IsReleased
<1>2. /\ BatchShape(b) /\ Shaped(cache) /\ Sized(cache, outputs) /\ LoadedOK(a_loc)
      /\ \A r \in M : Size(b, r) = f[r]
  BY DEF Books, Shaped, Sized
<1>3. /\ f \in [Req -> Nat] /\ IsFiniteSet(Req) /\ G \in SUBSET Req /\ Holders(cache) \in SUBSET Req
      /\ G \subseteq Holders(cache)
  BY <1>2, NeedsNat, RowsHeld, HoldersAre DEF Holders
<1>4. /\ IsFiniteSet(AdaptersOf(Req)) /\ adapterCells \in [AdaptersOf(Req) -> Nat]
      /\ DOMAIN a_loc \in SUBSET AdaptersOf(Req) /\ U \subseteq DOMAIN a_loc
  BY <1>2, DirsFinite DEF LoadedOK
<1>5. x = SumOver(f, G)
  <2> HIDE DEF b, f
  <2>1. QED
    BY <1>2, <1>3, GoneSum
<1>6. y = SumOver(adapterCells, U)
  <2> DEFINE e == [c \in U |-> adapter_len[c]]
             A == AdaptersOf(Req)
  <2>1. DOMAIN e = U /\ \A c \in U : e[c] = adapterCells[c]
    BY <1>4, AdapterCellsAre
  <2>2. U \in SUBSET A
    BY <1>4
  <2> HIDE DEF e, A, U
  <2>3. SumOf(e) = SumOver(adapterCells, U)
    BY <1>4, <2>1, <2>2, SumOfIsSum DEF A
  <2>4. QED
    BY <2>3 DEF e
<1> HIDE DEF x, y
<1>7. x \in Nat /\ y \in Nat /\ n \in Nat
  <2>1. x \in Nat
    BY <1>3, <1>5, SumNat
  <2>2. y \in Nat
    <3>1. U \in SUBSET AdaptersOf(Req)
      BY <1>4
    <3> HIDE DEF U
    <3>2. QED
      BY <1>4, <1>6, <3>1, SumNat
  <2>3. QED
    BY <2>1, <2>2
<1>8. \A c \in rows : \E r \in G : c \in RowCells(b, r)
  <2>1. \A i \in gone : /\ b.requests[i] \in G
                        /\ Range(RowSlice(b, i)) = RowCells(b, b.requests[i])
    BY <1>2, AtIsPlace, SliceIsRow DEF Leavers
  <2>2. QED
    BY <2>1
<1>9. \A r \in G : RowCells(b, r) \subseteq rows
  <2>1. ASSUME NEW r \in G PROVE \E i \in gone : Range(RowSlice(b, i)) = RowCells(b, r)
    <3>1. At(b, r) \in DOMAIN b.requests /\ b.requests[At(b, r)] = r
      BY <1>2, AtIsPlace
    <3>2. At(b, r) \in gone
      BY <3>1 DEF Leavers
    <3>3. Range(RowSlice(b, At(b, r))) = RowCells(b, r)
      BY <1>2, <3>1, SliceIsRow
    <3>4. QED
      BY <3>2, <3>3
  <2>2. QED
    BY <2>1
<1> HIDE DEF rows, gone, n
<1>10. C \subseteq Cells /\ Cardinality(C) <= n
  <2>1. ASSUME NEW c \in C
        PROVE  \/ \E k \in DOMAIN cache :
                    \E r \in Members(cache[k]) \cap G : c \in RowCells(cache[k], r)
               \/ \E a \in U : c \in a_loc[a]
    <3>1. CASE c \in rows
      <4>1. PICK r \in G : c \in RowCells(b, r)
        BY <1>8, <3>1
      <4>2. r \in Members(cache[id]) \cap G
        OBVIOUS
      <4>3. QED
        BY <4>1, <4>2
    <3>2. CASE c \in cells
      BY <3>2
    <3>3. QED
      BY <3>1, <3>2
  <2>2. C \subseteq Cells
    <3>1. rows \subseteq Cells
      BY <1>2, <1>8, RowsHeld
    <3>2. cells \subseteq Cells
      BY <1>2, <1>4 DEF LoadedOK
    <3>3. QED
      BY <3>1, <3>2
  <2> HIDE DEF C, G, U
  <2>3. Cardinality(C) <= SumOver(f, G) + SumOver(adapterCells, U)
    BY <1>2, <1>3, <1>4, <2>1, BooksBound
  <2>4. QED
    BY <1>5, <1>6, <2>2, <2>3 DEF n
<1>11. /\ Shaped(ch) /\ Sized(ch, outputs)
       /\ DOMAIN ch = IF left = {} THEN DOMAIN cache \ {id} ELSE DOMAIN cache
       /\ left # {} => Members(ch[id]) = left
       /\ \A k \in DOMAIN cache \ {id} : ch[k] = cache[k]
       /\ Holders(ch) = Holders(cache) \ G
       /\ \A c : InRow(cache, c) => InRow(ch, c) \/ \E r \in G : c \in RowCells(b, r)
  <2> HIDE DEF ch
  <2>1. Shaped(ch) /\ Sized(ch, outputs) /\ OnlyLeft(ch, cache, id, left)
    BY <1>1, <1>2, ReleasedCache
  <2>2. QED
    BY <2>1 DEF OnlyLeft
<1>12. /\ LoadedOK(loc) /\ DOMAIN loc = DOMAIN a_loc \ U
       /\ \A c : InAdapter(a_loc, c) => InAdapter(loc, c) \/ c \in cells
  <2> HIDE DEF loc
  <2>1. DOMAIN loc = DOMAIN a_loc \ U /\ \A a \in DOMAIN loc : loc[a] = a_loc[a]
    BY <1>1
  <2>2. LoadedOK(loc)
    BY <1>2, <2>1 DEF LoadedOK
  <2>3. ASSUME NEW c, InAdapter(a_loc, c) PROVE InAdapter(loc, c) \/ c \in cells
    <3>1. PICK a \in DOMAIN a_loc : c \in a_loc[a]
      BY <2>3 DEF InAdapter
    <3>2. CASE a \in U
      BY <3>1, <3>2
    <3>3. CASE a \notin U
      BY <2>1, <3>1, <3>3 DEF InAdapter
    <3>4. QED
      BY <3>2, <3>3
  <2>4. QED
    BY <2>1, <2>2, <2>3
<1> HIDE DEF ch, loc, G, U, cells, f
<1>13. Due(cache, outputs, a_loc) = Due(ch, outputs, loc) + n
  <2> DEFINE H == Holders(cache)
             K == Holders(ch)
             D == DOMAIN a_loc
             E == DOMAIN loc
             A == AdaptersOf(Req)
  <2>1. H = K \cup G /\ K \cap G = {} /\ K \in SUBSET Req
    BY <1>3, <1>11
  <2>2. D = E \cup U /\ E \cap U = {} /\ E \in SUBSET A /\ U \in SUBSET A
    BY <1>4, <1>12
  <2> DEFINE s == SumOver(f, K)
             t == SumOver(adapterCells, E)
  <2>3. Due(cache, outputs, a_loc) = SumOver(f, H) + SumOver(adapterCells, D)
        /\ Due(ch, outputs, loc) = s + t
    BY DEF Due, f
  <2> HIDE DEF H, K, D, E, A
  <2>4. SumOver(f, K \cup G) = s + SumOver(f, G)
    BY <1>3, <2>1, SumUnion
  <2>5. SumOver(adapterCells, E \cup U) = t + SumOver(adapterCells, U)
    BY <1>4, <2>2, SumUnion DEF A
  <2>6. SumOver(f, H) = s + x
    BY <1>5, <2>1, <2>4
  <2>7. SumOver(adapterCells, D) = t + y
    BY <1>6, <2>2, <2>5
  <2>8. s \in Nat /\ t \in Nat
    BY <1>3, <1>4, <2>1, <2>2, SumNat DEF A
  <2> HIDE DEF s, t
  <2>9. (s + x) + (t + y) = (s + t) + (x + y)
    BY <1>7, <2>8
  <2>10. QED
    BY <2>3, <2>6, <2>7, <2>9 DEF n
<1>14. Books(mem_state \cup C, can_use_mem_size + n, ch, outputs, loc)
  <2>1. /\ \A c \in Cells : InRow(cache, c) => InRow(ch, c) \/ c \in C
        /\ \A c \in Cells : InAdapter(a_loc, c) => InAdapter(loc, c) \/ c \in C
    BY <1>9, <1>11, <1>12
  <2> HIDE DEF C
  <2>2. QED
    BY <1>7, <1>10, <1>11, <1>12, <1>13, <2>1, GiveBack
<1>15. mem_state' = mem_state \cup C /\ can_use_mem_size' = can_use_mem_size + n
  BY <1>1 DEF Free
<1>16. QED
  BY <1>11, <1>14, <1>15 DEF ch, loc

-----------------------------------------------------------------------------
(* The server and the router together.                                     *)

(* The server has the batch of the router under id, or nothing.            *)
Holds(ch, id, batch) ==
  IF batch = {} THEN id \notin DOMAIN ch
  ELSE id \in DOMAIN ch /\ Members(ch[id]) = batch

(* The server has the batch, perhaps with those who have just finished.    *)
StillHolds(ch, id, batch) == id \in DOMAIN ch /\ batch \subseteq Members(ch[id])

(* Which batches the server has, wherever loop_for_fwd is.                 *)
InStep(ch, at, run, new) ==
  /\ at \in {"top", "sleep", "charge", "decode", "admit"} =>
       Mini \notin DOMAIN ch /\ Holds(ch, Running, run)
  /\ at \in {"charge", "decode"} => run # {}
  /\ at = "prefill" =>
       /\ run # {} /\ Mini \notin DOMAIN ch
       /\ IF new = {} THEN Running \notin DOMAIN ch ELSE Holds(ch, Running, run)
  /\ at = "prefillCleanup" =>
       IF Mini \in DOMAIN ch
         THEN run # {} /\ Holds(ch, Running, run) /\ StillHolds(ch, Mini, new)
         ELSE new = {} /\ StillHolds(ch, Running, run)
  /\ at = "merge" =>
       run # {} /\ new # {} /\ Holds(ch, Running, run) /\ Holds(ch, Mini, new)
  /\ at = "decodeCleanup" => Mini \notin DOMAIN ch /\ StillHolds(ch, Running, run)

ServerOK ==
  alive => /\ Books(mem_state, can_use_mem_size, cache, outputs, a_loc)
           /\ InStep(cache, pc, running, mini)

LEMMA RouterAloneOK ==
  ASSUME ServerOK, alive, RouterAlone
  PROVE  ServerOK'
<1>1. /\ UNCHANGED <<mem_state, can_use_mem_size, cache, a_loc, outputs>>
      /\ running' = running
  BY DEF RouterAlone, serverVars, poolVars, Wake, DecodeStep, StartAdmission, NothingAdmitted,
         StartDecode, Admit, DropAborted, Charge, routerVars
<1>2. /\ pc \in {"top", "sleep", "charge", "admit"}
      /\ pc' \in {"top", "sleep", "charge", "decode", "admit"}
      /\ pc' \in {"charge", "decode"} => running # {}
  <2>1. CASE \E r \in Req : Charge(r)
    BY <2>1 DEF Charge, ServerOK, InStep
  <2>2. CASE Wake \/ DecodeStep \/ StartAdmission \/ NothingAdmitted
    BY <2>2 DEF Wake, DecodeStep, StartAdmission, NothingAdmitted, StartDecode, AdmissionOver
  <2>3. CASE \E k \in Client : Admit(k) \/ DropAborted(k)
    BY <2>3 DEF Admit, DropAborted, routerVars
  <2>4. QED
    BY <2>1, <2>2, <2>3 DEF RouterAlone
<1>3. InStep(cache, pc', running, mini')
  BY <1>2 DEF ServerOK, InStep
<1>4. QED
  BY <1>1, <1>3 DEF ServerOK

LEMMA StartPrefillOK ==
  ASSUME TypeOK, ServerOK, alive, ServedStartPrefill
  PROVE  ServerOK'
<1>1. CASE alive' = FALSE
  BY <1>1 DEF ServerOK
<1>2. CASE HasRoom(LoadSize(Dirs(mini))) /\ LoadAdapters(Dirs(mini))
  <2>1. Dirs(mini) \subseteq AdaptersOf(Req)
    BY DEF TypeOK, Dirs, AdaptersOf
  <2>2. outputs \in [Req -> Nat] /\ Books(mem_state, can_use_mem_size, cache, outputs, a_loc)
    BY DEF TypeOK, ServerOK
  <2>3. Books(mem_state', can_use_mem_size', cache', outputs, a_loc')
    BY <1>2, <2>1, <2>2, LoadBooks
  <2>4. cache' = cache /\ outputs' = outputs
    BY <1>2 DEF LoadAdapters, ServedStartPrefill, StartPrefill
  <2>5. InStep(cache, pc', running', mini')
    BY DEF ServedStartPrefill, StartPrefill, AdmissionOver, ServerOK, InStep, Holds
  <2>6. QED
    BY <2>3, <2>4, <2>5 DEF ServerOK
<1>3. QED
  BY <1>1, <1>2 DEF ServedStartPrefill, Dies

LEMMA PrefillOK ==
  ASSUME TypeOK, TypeOK', BatchesOK, StartedOK, ServerOK, alive, ServedPrefill
  PROVE  ServerOK'
<1>1. PICK F : \/ F \in SUBSET running /\ FinishFirstPrefill(F)
               \/ F \in SUBSET mini /\ FinishMiniPrefill(F)
  BY DEF ServedPrefill
<1>2. /\ outputs \in [Req -> Nat] /\ outputs' \in [Req -> Nat]
      /\ Books(mem_state, can_use_mem_size, cache, outputs, a_loc)
      /\ Prefilled \in SUBSET Req
  BY DEF TypeOK, ServerOK, Prefilled
<1>3. pc = "prefill" /\ Prefilled # {} /\ PrefilledId \notin DOMAIN cache
      /\ PrefilledId \in {Running, Mini}
  BY <1>1 DEF FinishFirstPrefill, FinishMiniPrefill, ServerOK, InStep, Prefilled, PrefilledId
<1>4. DOMAIN cache = IF mini = {} THEN {} ELSE {Running}
  BY <1>3 DEF ServerOK, InStep, Holds, Books, Shaped
<1>5. Prefilled \cap Holders(cache) = {}
  <2>1. CASE mini = {}
    BY <1>4, <2>1 DEF Holders
  <2>2. CASE mini # {}
    <3>1. Holders(cache) = running
      BY <1>3, <1>4, <2>2 DEF Holders, ServerOK, InStep, Holds
    <3>2. QED
      BY <2>2, <3>1 DEF Prefilled, BatchesOK
  <2>3. QED
    BY <2>1, <2>2
<1>6. outputs' = [r \in Req |-> IF r \in Prefilled THEN outputs[r] + 1 ELSE outputs[r]]
  BY <1>1 DEF FinishFirstPrefill, FinishMiniPrefill, GiveTokens, Prefilled
<1>7. \A r \in Prefilled : outputs[r] = 0
  BY <1>3 DEF StartedOK, Prefilled
<1>8. /\ \A r \in Prefilled : outputs'[r] = 1
      /\ \A r \in Req \ Prefilled : outputs'[r] = outputs[r]
  BY <1>2, <1>6, <1>7
<1>9. HasRoom(PromptSize(Prefilled)) /\ PrefillBatch(PrefilledId, Prefilled) /\ alive'
  BY DEF ServedPrefill
<1>10. /\ Books(mem_state', can_use_mem_size', cache', outputs', a_loc')
       /\ DOMAIN cache' = DOMAIN cache \cup {PrefilledId}
       /\ Members(cache'[PrefilledId]) = Prefilled
       /\ \A k \in DOMAIN cache : cache'[k] = cache[k]
  BY <1>2, <1>3, <1>5, <1>8, <1>9, PrefillBooks
<1>11. InStep(cache', pc', running', mini')
  <2>1. CASE mini = {}
    <3>1. DOMAIN cache' = {Running} /\ Members(cache'[Running]) = running /\ running # {}
      BY <1>3, <1>4, <1>10, <2>1 DEF Prefilled, PrefilledId
    <3>2. /\ running' = running \ F /\ mini' = {}
          /\ pc' = IF F = {} THEN "top" ELSE "prefillCleanup"
      BY <1>1, <2>1 DEF FinishFirstPrefill, FinishMiniPrefill
    <3>3. Mini \notin DOMAIN cache'
      BY <3>1, PoolAssumption
    <3>4. QED
      BY <3>1, <3>2, <3>3 DEF InStep, Holds, StillHolds
  <2>2. CASE mini # {}
    <3>1. /\ DOMAIN cache' = {Running, Mini} /\ Members(cache'[Mini]) = mini
          /\ Members(cache'[Running]) = running /\ running # {}
      BY <1>3, <1>4, <1>10, <2>2 DEF Prefilled, PrefilledId, ServerOK, InStep, Holds
    <3>2. /\ running' = running /\ mini' = mini \ F
          /\ pc' = IF F = {} THEN "merge" ELSE "prefillCleanup"
      BY <1>1, <2>2 DEF FinishFirstPrefill, FinishMiniPrefill
    <3>3. QED
      BY <2>2, <3>1, <3>2 DEF InStep, Holds, StillHolds
  <2>3. QED
    BY <2>1, <2>2
<1>12. QED
  BY <1>10, <1>11 DEF ServerOK

(* Both cleanups let go of who is not in left any more.                    *)
LEMMA CleanupOK ==
  ASSUME TypeOK, ServerOK, alive, outputs' = outputs,
         NEW id \in {Running, Mini}, NEW left \in SUBSET Req, StillHolds(cache, id, left),
         NEW kept, Release(id, left, kept),
         \A ch : /\ Holds(ch, id, left)
                 /\ DOMAIN ch \subseteq DOMAIN cache
                 /\ \A k \in DOMAIN cache \ {id} : k \in DOMAIN ch /\ ch[k] = cache[k]
                 => InStep(ch, pc', running', mini')
  PROVE  ServerOK'
<1>1. /\ outputs \in [Req -> Nat] /\ Books(mem_state, can_use_mem_size, cache, outputs, a_loc)
      /\ id \in DOMAIN cache /\ left \subseteq Members(cache[id])
  BY DEF TypeOK, ServerOK, StillHolds
<1>2. /\ Books(mem_state', can_use_mem_size', cache', outputs, a_loc')
      /\ DOMAIN cache' = IF left = {} THEN DOMAIN cache \ {id} ELSE DOMAIN cache
      /\ left # {} => Members(cache'[id]) = left
      /\ \A k \in DOMAIN cache \ {id} : cache'[k] = cache[k]
  BY <1>1, ReleaseBooks
<1>3. Holds(cache', id, left)
  BY <1>1, <1>2 DEF Holds
<1>4. DOMAIN cache' \subseteq DOMAIN cache
      /\ \A k \in DOMAIN cache \ {id} : k \in DOMAIN cache' /\ cache'[k] = cache[k]
  BY <1>2
<1>5. InStep(cache', pc', running', mini')
  BY <1>3, <1>4
<1>6. QED
  BY <1>2, <1>5 DEF ServerOK

LEMMA PrefillCleanupOK ==
  ASSUME TypeOK, ServerOK, alive, ServedPrefillCleanup
  PROVE  ServerOK'
<1>1. /\ pc = "prefillCleanup" /\ outputs' = outputs /\ running' = running /\ mini' = mini
      /\ pc' = IF mini # {} THEN "merge" ELSE AfterStep(running)
      /\ running \in SUBSET Req /\ mini \in SUBSET Req
  BY DEF ServedPrefillCleanup, PrefillCleanedUp, TypeOK
<1>2. CASE Mini \in DOMAIN cache
  <2>1. running # {} /\ Holds(cache, Running, running) /\ StillHolds(cache, Mini, mini)
        /\ Release(Mini, mini, DOMAIN a_loc)
    BY <1>1, <1>2 DEF ServedPrefillCleanup, ServerOK, InStep
  <2>2. ASSUME NEW ch, Holds(ch, Mini, mini), DOMAIN ch \subseteq DOMAIN cache,
               \A k \in DOMAIN cache \ {Mini} : k \in DOMAIN ch /\ ch[k] = cache[k]
        PROVE  InStep(ch, pc', running', mini')
    <3>1. Running \in DOMAIN cache \ {Mini}
      BY <2>1, PoolAssumption DEF Holds
    <3>2. Holds(ch, Running, running)
      BY <2>1, <2>2, <3>1 DEF Holds
    <3>3. pc' = IF mini # {} THEN "merge" ELSE "top"
      BY <1>1, <2>1 DEF AfterStep
    <3>4. QED
      BY <1>1, <2>1, <2>2, <3>2, <3>3 DEF InStep, Holds
  <2>3. QED
    BY <1>1, <2>1, <2>2, CleanupOK
<1>3. CASE Mini \notin DOMAIN cache
  <2> DEFINE kept == IF running = {} THEN {} ELSE DOMAIN a_loc
  <2>1. mini = {} /\ StillHolds(cache, Running, running) /\ Release(Running, running, kept)
    BY <1>1, <1>3 DEF ServedPrefillCleanup, ServerOK, InStep
  <2>2. ASSUME NEW ch, Holds(ch, Running, running), DOMAIN ch \subseteq DOMAIN cache,
               \A k \in DOMAIN cache \ {Running} : k \in DOMAIN ch /\ ch[k] = cache[k]
        PROVE  InStep(ch, pc', running', mini')
    <3>1. pc' = AfterStep(running) /\ Mini \notin DOMAIN ch
      BY <1>1, <1>3, <2>1, <2>2
    <3>2. QED
      BY <1>1, <2>2, <3>1 DEF InStep, AfterStep
  <2> HIDE DEF kept
  <2>3. QED
    BY <1>1, <2>1, <2>2, CleanupOK
<1>4. QED
  BY <1>2, <1>3

LEMMA MergeOK ==
  ASSUME TypeOK, ServerOK, alive, ServedMerge
  PROVE  ServerOK'
<1>1. /\ pc = "merge" /\ outputs' = outputs /\ running' = running \cup mini /\ mini' = {}
      /\ pc' = "top" /\ MergeBatch(Running, Mini)
  BY DEF ServedMerge, Merge
<1>2. running # {} /\ mini # {} /\ Holds(cache, Running, running) /\ Holds(cache, Mini, mini)
  BY <1>1 DEF ServerOK, InStep
<1>3. outputs \in [Req -> Nat] /\ Books(mem_state, can_use_mem_size, cache, outputs, a_loc)
  BY DEF TypeOK, ServerOK
<1>4. DOMAIN cache = {Running, Mini} /\ Running # Mini
  BY <1>2, <1>3, PoolAssumption DEF Holds, Books, Shaped
<1>5. /\ Books(mem_state', can_use_mem_size', cache', outputs, a_loc')
      /\ DOMAIN cache' = {Running}
      /\ Members(cache'[Running]) = Members(cache[Running]) \cup Members(cache[Mini])
  BY <1>1, <1>3, <1>4, MergeBooks
<1>6. Holds(cache', Running, running \cup mini) /\ Mini \notin DOMAIN cache'
  BY <1>2, <1>4, <1>5 DEF Holds
<1>7. InStep(cache', pc', running', mini')
  BY <1>1, <1>6 DEF InStep
<1>8. QED
  BY <1>1, <1>5, <1>7 DEF ServerOK

LEMMA DecodeOK ==
  ASSUME TypeOK, TypeOK', ServerOK, alive, ServedDecode
  PROVE  ServerOK'
<1>1. PICK F \in SUBSET running : FinishDecode(F)
  BY DEF ServedDecode
<1>2. /\ pc = "decode" /\ running' = running \ F
      /\ pc' = IF F = {} THEN "top" ELSE "decodeCleanup"
      /\ outputs' = [r \in Req |-> IF r \in running THEN outputs[r] + 1 ELSE outputs[r]]
      /\ HasRoom(Cardinality(running)) /\ DecodeBatch(Running)
  BY <1>1 DEF FinishDecode, GiveTokens, ServedDecode
<1>3. running # {} /\ Mini \notin DOMAIN cache /\ Holds(cache, Running, running)
  BY <1>2 DEF ServerOK, InStep
<1>4. /\ outputs \in [Req -> Nat] /\ outputs' \in [Req -> Nat] /\ running \in SUBSET Req
      /\ Books(mem_state, can_use_mem_size, cache, outputs, a_loc)
  BY DEF TypeOK, ServerOK
<1>5. DOMAIN cache = {Running} /\ Members(cache[Running]) = running
  BY <1>3, <1>4 DEF Holds, Books, Shaped
<1>6. \A r \in Members(cache[Running]) : outputs'[r] = outputs[r] + 1
  BY <1>2, <1>4, <1>5
<1>7. /\ Books(mem_state', can_use_mem_size', cache', outputs', a_loc')
      /\ DOMAIN cache' = {Running} /\ Members(cache'[Running]) = running
  <2>1. HasRoom(Cardinality(Members(cache[Running]))) /\ DecodeBatch(Running)
    BY <1>2, <1>5
  <2>2. /\ Books(mem_state', can_use_mem_size', cache', outputs', a_loc')
        /\ DOMAIN cache' = {Running} /\ Members(cache'[Running]) = Members(cache[Running])
    BY <1>4, <1>5, <1>6, <2>1, DecodeBooks
  <2>3. QED
    BY <1>5, <2>2
<1>8. Mini \notin DOMAIN cache'
  BY <1>7, PoolAssumption
<1>9. InStep(cache', pc', running', mini')
  BY <1>2, <1>3, <1>7, <1>8 DEF InStep, Holds, StillHolds
<1>10. QED
  BY <1>7, <1>9 DEF ServerOK

LEMMA DecodeCleanupOK ==
  ASSUME TypeOK, ServerOK, alive, ServedDecodeCleanup
  PROVE  ServerOK'
<1>1. /\ pc = "decodeCleanup" /\ outputs' = outputs /\ running' = running /\ mini' = mini
      /\ pc' = AfterStep(running) /\ running \in SUBSET Req
      /\ Release(Running, running, KeptAdapters(Dirs(running)))
  BY DEF ServedDecodeCleanup, DecodeCleanedUp, TypeOK
<1>2. Mini \notin DOMAIN cache /\ StillHolds(cache, Running, running)
  BY <1>1 DEF ServerOK, InStep
<1>3. ASSUME NEW ch, Holds(ch, Running, running), DOMAIN ch \subseteq DOMAIN cache,
             \A k \in DOMAIN cache \ {Running} : k \in DOMAIN ch /\ ch[k] = cache[k]
      PROVE  InStep(ch, pc', running', mini')
  <2>1. pc' = AfterStep(running) /\ Mini \notin DOMAIN ch /\ running' = running
    BY <1>1, <1>2, <1>3
  <2>2. QED
    BY <1>3, <2>1 DEF InStep, AfterStep
<1>4. QED
  BY <1>1, <1>2, <1>3, CleanupOK

LEMMA ServerStep ==
  ASSUME TypeOK, TypeOK', BatchesOK, StartedOK, ServerOK, [ServedNext]_servedVars
  PROVE  ServerOK'
<1>1. CASE ~alive'
  BY <1>1 DEF ServerOK
<1>2. CASE alive /\ ServedForward
  BY <1>1, <1>2, RouterAloneOK, StartPrefillOK, PrefillOK, PrefillCleanupOK, MergeOK,
     DecodeOK, DecodeCleanupOK
  DEF ServedForward, PrefillFails, DecodeFails, Dies
<1>3. CASE Netio /\ UNCHANGED <<serverVars, alive>>
  <2>1. UNCHANGED <<serverVars, alive, pc, running, mini, outputs>>
    BY <1>3 DEF Netio, AddReq, ReceiveReq, Abort, ReceiveAbort
  <2>2. QED
    BY <2>1 DEF ServerOK, serverVars, poolVars
<1>4. CASE UNCHANGED servedVars
  BY <1>4 DEF servedVars, serverVars, poolVars, vars, routerVars, ServerOK
<1>5. QED
  BY <1>1, <1>2, <1>3, <1>4 DEF ServedNext, ServedForward

LEMMA ServerAlways == ServedSpec => []ServerOK
<1>1. ServedInit => ServerOK
  <2> SUFFICES ASSUME ServedInit PROVE ServerOK
    OBVIOUS
  <2>1. /\ mem_state = Cells /\ can_use_mem_size = tot_size /\ pc = "top" /\ running = {}
        /\ DOMAIN cache = {} /\ DOMAIN a_loc = {} /\ outputs \in [Req -> Nat]
    BY DEF ServedInit, Init, ServerInit, PoolInit
  <2>2. Shaped(cache) /\ Sized(cache, outputs) /\ LoadedOK(a_loc) /\ Holders(cache) = {}
    BY <2>1 DEF Shaped, Sized, LoadedOK, Holders
  <2>3. Due(cache, outputs, a_loc) = 0
    <3>1. SumOver(Needs(outputs), {}) = 0
      BY <2>1, NeedsNat, SumEmpty
    <3>2. SumOver(adapterCells, {}) = 0
      BY DirsFinite, SumEmpty
    <3>3. QED
      BY <2>1, <2>2, <3>1, <3>2 DEF Due
  <2>4. tot_size \in Nat /\ Cardinality(Cells) = tot_size
    BY CellsFinite, FS_CardinalityType
  <2>5. Books(mem_state, can_use_mem_size, cache, outputs, a_loc)
    BY <2>1, <2>2, <2>3, <2>4 DEF Books
  <2>6. InStep(cache, pc, running, mini)
    BY <2>1 DEF InStep, Holds
  <2>7. QED
    BY <2>5, <2>6 DEF ServerOK
<1>2. QED
  BY <1>1, ServerStep, TypeCorrect, BatchesCorrect, StartedAlways, RouterUnderneath, PTL
  DEF ServedSpec

LEMMA BooksTypes ==
  ASSUME NEW mem, NEW use, NEW ch, NEW outs, NEW loc, Books(mem, use, ch, outs, loc)
  PROVE  /\ mem \in SUBSET Cells /\ use \in 0 .. tot_size
         /\ DOMAIN loc \subseteq Client /\ (\A c \in DOMAIN loc : loc[c] \subseteq Cells)
         /\ DOMAIN ch \subseteq {Running, Mini}
<1>1. mem \in SUBSET Cells /\ use \in 0 .. tot_size
  BY PartFinite DEF Books
<1>2. DOMAIN loc \subseteq Client /\ \A c \in DOMAIN loc : loc[c] \subseteq Cells
  BY DirsFinite DEF Books, LoadedOK
<1>3. DOMAIN ch \subseteq {Running, Mini}
  BY DEF Books, Shaped
<1>4. QED
  BY <1>1, <1>2, <1>3

(* The pool is a set of cells, its counter within its size, the loaded     *)
(* adapters are clients' adapters, whether or not the server has raised.   *)
THEOREM ServedTypes == ServedSpec => []ServedTypeOK
<1>1. ServedInit => ServedTypeOK
  <2> SUFFICES ASSUME ServedInit PROVE ServedTypeOK
    OBVIOUS
  <2>1. tot_size \in Nat
    BY CellsFinite, FS_CardinalityType
  <2>2. QED
    BY <2>1 DEF ServedInit, ServerInit, PoolInit, ServedTypeOK
<1>2. ServedTypeOK /\ ServerOK' /\ [ServedNext]_servedVars => ServedTypeOK'
  <2> SUFFICES ASSUME ServedTypeOK, ServerOK', [ServedNext]_servedVars
               PROVE  ServedTypeOK'
    OBVIOUS
  <2>1. alive' \in BOOLEAN
    BY DEF ServedNext, ServedForward, RouterAlone, ServedStartPrefill, Dies, ServedPrefill,
           PrefillFails, ServedPrefillCleanup, ServedMerge, ServedDecode, DecodeFails,
           ServedDecodeCleanup, servedVars, ServedTypeOK
  <2>2. CASE alive'
    BY <2>1, <2>2, BooksTypes DEF ServerOK, ServedTypeOK
  <2>3. CASE ~alive'
    <3>1. \/ UNCHANGED <<mem_state, can_use_mem_size, a_loc, cache>>
          \/ DecodeFails
      <4>1. CASE alive /\ (ServedStartPrefill \/ PrefillFails)
        BY <2>3, <4>1 DEF ServedStartPrefill, PrefillFails, Dies, serverVars, poolVars
      <4>2. QED
        BY <2>3, <4>1 DEF ServedNext, ServedForward, RouterAlone, ServedPrefill,
           ServedPrefillCleanup, ServedMerge, ServedDecode, ServedDecodeCleanup,
           servedVars, serverVars, poolVars
    <3>2. UNCHANGED <<mem_state, can_use_mem_size, a_loc>> /\ DOMAIN cache' \subseteq DOMAIN cache
      BY <3>1 DEF DecodeFails, poolVars
    <3>3. QED
      BY <2>1, <3>2 DEF ServedTypeOK
  <2>4. QED
    BY <2>2, <2>3
<1>3. QED
  BY <1>1, <1>2, ServerAlways, PTL DEF ServedSpec

(* The server's batches are the router's, each request with the cells of   *)
(* its prompt and of its tokens but the last.                              *)
LEMMA HoldsAgrees ==
  ASSUME TypeOK, ServerOK, alive, NEW id \in {Running, Mini}, NEW batch, Holds(cache, id, batch)
  PROVE  Agrees(id, batch)
<1>1. CASE batch = {}
  BY <1>1 DEF Holds, Agrees
<1>2. CASE batch # {}
  <2> DEFINE b == cache[id]
  <2>1. id \in DOMAIN cache /\ Members(b) = batch
    BY <1>2 DEF Holds
  <2>2. /\ BatchShape(b)
        /\ \A r \in Members(b) : Size(b, r) = Needs(outputs)[r]
    BY <2>1 DEF ServerOK, Books, Shaped, Sized
  <2>3. ASSUME NEW i \in DOMAIN b.requests
        PROVE  LET r == b.requests[i]
               IN  Len(Row(<<id, i>>)) = input_len[r] + outputs[r] - 1
    <3> DEFINE r == b.requests[i]
    <3>1. r \in Members(b) /\ r \in Req
      BY <2>2, AtIsPlace
    <3>2. Len(RowSlice(b, i)) = Needs(outputs)[r]
      BY <2>2, <3>1, SliceIsRow
    <3>3. Row(<<id, i>>) = RowSlice(b, i)
      BY DEF Row
    <3>4. QED
      BY <3>1, <3>2, <3>3 DEF Needs
  <2>4. QED
    BY <1>2, <2>1, <2>3 DEF Agrees, Members
<1>3. QED
  BY <1>1, <1>2

(* The router's view of the batches and the server's are kept by separate  *)
(* calls and never compared: they agree all the same.                      *)
THEOREM ServerAndRouterAgree == ServedSpec => []ServerMatchesRouter
<1>1. TypeOK /\ BatchesOK /\ ServerOK => ServerMatchesRouter
  <2> SUFFICES ASSUME TypeOK, BatchesOK, ServerOK, alive,
                      pc \in {"top", "sleep", "charge", "merge", "decode"}
               PROVE  Agrees(Running, running) /\ Agrees(Mini, mini)
    BY DEF ServerMatchesRouter
  <2>1. Holds(cache, Running, running) /\ Holds(cache, Mini, mini)
    BY DEF ServerOK, InStep, BatchesOK, Holds
  <2>2. QED
    BY <2>1, HoldsAgrees
<1>2. QED
  BY <1>1, ServerAlways, TypeCorrect, BatchesCorrect, RouterUnderneath, PTL

(* The entries of the server's batches are numbered pairs, one of each     *)
(* request that has a row, and what they hold is that row.                 *)
RequestOf(e) == cache[e[1]].requests[e[2]]

LEMMA EntryIsRow ==
  ASSUME Shaped(cache), NEW e \in Entries
  PROVE  /\ e[1] \in DOMAIN cache /\ e[2] \in DOMAIN cache[e[1]].requests
         /\ RequestOf(e) \in Members(cache[e[1]])
         /\ Len(Row(e)) = Size(cache[e[1]], RequestOf(e))
         /\ Range(Row(e)) = RowCells(cache[e[1]], RequestOf(e))
<1> DEFINE b == cache[e[1]]
           i == e[2]
<1>1. e[1] \in DOMAIN cache /\ i \in DOMAIN b.requests
  BY DEF Entries
<1>2. BatchShape(b)
  BY <1>1 DEF Shaped
<1>3. RequestOf(e) = b.requests[i] /\ Row(e) = RowSlice(b, i)
  BY DEF RequestOf, Row
<1> HIDE DEF b, i
<1>4. /\ b.requests[i] \in Members(b)
      /\ Len(RowSlice(b, i)) = Size(b, b.requests[i])
      /\ Range(RowSlice(b, i)) = RowCells(b, b.requests[i])
  BY <1>1, <1>2, AtIsPlace, SliceIsRow
<1>5. QED
  BY <1>1, <1>3, <1>4 DEF b, i

LEMMA RowHasEntry ==
  ASSUME Shaped(cache), NEW id \in DOMAIN cache, NEW r \in Members(cache[id])
  PROVE  \E e \in Entries : e[1] = id /\ RequestOf(e) = r
<1> DEFINE b == cache[id]
           n == Len(b.requests)
           i == At(b, r)
           N == Cardinality(Req)
<1>1. BatchShape(b) /\ id \in {Running, Mini}
  BY DEF Shaped
<1>2. i \in DOMAIN b.requests /\ b.requests[i] = r
  BY <1>1, AtIsPlace
<1>3. n \in Nat /\ DOMAIN b.requests = 1 .. n
  BY <1>1, LenProperties DEF BatchShape
<1>4. n <= N /\ N \in Nat
  <2>1. IsFiniteSet(Req) /\ Members(b) \in SUBSET Req
    BY <1>1, RowsHeld, RequestAssumption
  <2>2. Cardinality(Members(b)) <= N /\ N \in Nat
    BY <2>1, FS_Subset, FS_CardinalityType
  <2>3. QED
    BY <1>1, <2>2, MembersCounted
<1>5. i \in 1 .. N
  BY <1>2, <1>3, <1>4
<1>6. <<id, i>> \in Entries
  BY <1>1, <1>2, <1>5 DEF Entries
<1>7. RequestOf(<<id, i>>) = r
  BY <1>2 DEF RequestOf
<1>8. QED
  BY <1>6, <1>7

LEMMA EntriesAreRows ==
  ASSUME outputs \in [Req -> Nat], Shaped(cache), Sized(cache, outputs)
  PROVE  SumOf([e \in Entries |-> Len(Row(e))]) = SumOver(Needs(outputs), Holders(cache))
<1> DEFINE I == Entries
           H == Holders(cache)
           f == Needs(outputs)
           s == [e \in I |-> RequestOf(e)]
           g == [e \in I |-> f[RequestOf(e)]]
           w == [e \in I |-> Len(Row(e))]
<1>1. IsFiniteSet(Req) /\ f \in [Req -> Nat]
  BY NeedsNat
<1>2. IsFiniteSet(I)
  <2> DEFINE A == {Running, Mini}
             B == 1 .. Cardinality(Req)
  <2>1. IsFiniteSet(A)
    <3>1. IsFiniteSet({Running} \cup {Mini})
      BY FS_Singleton, FS_Union
    <3>2. A = {Running} \cup {Mini}
      OBVIOUS
    <3>3. QED
      BY <3>1, <3>2, Zenon
  <2>2. IsFiniteSet(B)
    BY <1>1, FS_CardinalityType, FirstNumbers
  <2>3. I \in SUBSET (A \X B)
    BY DEF Entries
  <2> HIDE DEF A, B, I
  <2>4. QED
    BY <2>1, <2>2, <2>3, FS_Product, FS_Subset
<1>3. \A e \in I : /\ e[1] \in DOMAIN cache /\ RequestOf(e) \in Members(cache[e[1]])
                   /\ Len(Row(e)) = f[RequestOf(e)]
  BY EntryIsRow DEF Sized
<1>4. \A e \in I : RequestOf(e) \in H /\ RequestOf(e) \in Req
  BY <1>3, HoldersAre DEF Holders
<1>5. \A r \in H : \E e \in I : RequestOf(e) = r
  BY RowHasEntry DEF Holders
<1>6. ASSUME NEW d \in I, NEW e \in I, RequestOf(d) = RequestOf(e)
      PROVE  d = e
  <2>1. d[1] = e[1]
    BY <1>3, <1>6 DEF Shaped
  <2>2. d[2] = e[2]
    <3>1. BatchShape(cache[d[1]])
      BY <1>3 DEF Shaped
    <3>2. /\ d[2] \in DOMAIN cache[d[1]].requests /\ e[2] \in DOMAIN cache[d[1]].requests
          /\ cache[d[1]].requests[d[2]] = cache[d[1]].requests[e[2]]
      BY <1>6, <2>1, EntryIsRow DEF RequestOf
    <3>3. QED
      BY <3>1, <3>2 DEF BatchShape
  <2>3. d = <<d[1], d[2]>> /\ e = <<e[1], e[2]>>
    BY DEF Entries
  <2>4. QED
    BY <2>1, <2>2, <2>3
<1> HIDE DEF I, H, f
<1>7. s \in [I -> Req] /\ g \in [I -> Nat] /\ \A e \in I : g[e] = f[s[e]]
  BY <1>1, <1>4
<1>8. s \in Injection(I, Req)
  BY <1>6, <1>7 DEF Injection, IsInjective
<1>9. H = {s[e] : e \in I}
  BY <1>4, <1>5
<1>10. DOMAIN w = I /\ \A e \in I : w[e] = g[e]
  BY <1>3
<1>11. I \in SUBSET I
  OBVIOUS
<1> HIDE DEF s, g, w
<1>12. SumOver(g, I) = SumOver(f, H)
  BY <1>1, <1>2, <1>7, <1>8, <1>9, <1>11, SumImage
<1>13. SumOf(w) = SumOver(g, I)
  BY <1>2, <1>7, <1>10, <1>11, SumOfIsSum
<1>14. QED
  BY <1>12, <1>13 DEF w, f, H, I

LEMMA LoadedSum ==
  ASSUME LoadedOK(a_loc), NEW T, T \subseteq DOMAIN a_loc
  PROVE  SumOf([c \in T |-> adapter_len[c]]) = SumOver(adapterCells, T)
<1> DEFINE e == [c \in T |-> adapter_len[c]]
           A == AdaptersOf(Req)
<1>1. T \in SUBSET A
  BY DEF LoadedOK
<1>2. IsFiniteSet(A) /\ adapterCells \in [A -> Nat]
  BY DirsFinite
<1>3. DOMAIN e = T /\ \A c \in T : e[c] = adapterCells[c]
  BY <1>1, AdapterCellsAre
<1> HIDE DEF e, A
<1>4. SumOf(e) = SumOver(adapterCells, T)
  BY <1>1, <1>2, <1>3, SumOfIsSum
<1>5. QED
  BY <1>4 DEF e

(* Through every mixture of prefills, decodes, filters, merges, loads and  *)
(* offloads no cell of the pool leaks and none has two users: each is      *)
(* free, or in one adapter, or in one row, and the counter is the number   *)
(* of free ones.                                                           *)
THEOREM CellsAreAccounted == ServedSpec => []CellsAccounted
<1>1. TypeOK /\ ServerOK => CellsAccounted
  <2> SUFFICES ASSUME TypeOK, ServerOK, alive PROVE CellsAccounted
    BY DEF CellsAccounted
  <2> DEFINE rows == UNION {Range(Row(e)) : e \in Entries}
             adapters == UNION {a_loc[c] : c \in DOMAIN a_loc}
  <2>1. outputs \in [Req -> Nat] /\ Books(mem_state, can_use_mem_size, cache, outputs, a_loc)
    BY DEF TypeOK, ServerOK
  <2>2. /\ Shaped(cache) /\ Sized(cache, outputs) /\ LoadedOK(a_loc)
        /\ mem_state \subseteq Cells /\ can_use_mem_size = Cardinality(mem_state)
        /\ \A x \in Cells : x \in mem_state \/ InRow(cache, x) \/ InAdapter(a_loc, x)
        /\ Cardinality(mem_state) + Due(cache, outputs, a_loc) = tot_size
    BY <2>1 DEF Books
  <2>3. mem_state \cup rows \cup adapters = Cells
    <3>1. ASSUME NEW x, InRow(cache, x) PROVE x \in rows
      <4>1. PICK id \in DOMAIN cache : \E r \in Members(cache[id]) : x \in RowCells(cache[id], r)
        BY <3>1 DEF InRow
      <4>2. PICK r \in Members(cache[id]) : x \in RowCells(cache[id], r)
        BY <4>1
      <4>3. PICK e \in Entries : e[1] = id /\ RequestOf(e) = r
        BY <2>2, RowHasEntry
      <4>4. Range(Row(e)) = RowCells(cache[id], r)
        BY <2>2, <4>3, EntryIsRow
      <4>5. QED
        BY <4>2, <4>4
    <3>2. \A x : InAdapter(a_loc, x) => x \in adapters
      BY DEF InAdapter
    <3>3. rows \subseteq Cells
      <4>1. ASSUME NEW e \in Entries PROVE Range(Row(e)) \subseteq Cells
        <5>1. /\ e[1] \in DOMAIN cache /\ RequestOf(e) \in Members(cache[e[1]])
              /\ Range(Row(e)) = RowCells(cache[e[1]], RequestOf(e))
          BY <2>2, EntryIsRow
        <5>2. BatchShape(cache[e[1]])
          BY <2>2, <5>1 DEF Shaped
        <5>3. QED
          BY <5>1, <5>2, RowsHeld
      <4>2. QED
        BY <4>1
    <3>4. adapters \subseteq Cells
      BY <2>2 DEF LoadedOK
    <3> HIDE DEF rows, adapters
    <3>5. QED
      BY <2>2, <3>1, <3>2, <3>3, <3>4
  <2>4. Cardinality(mem_state) + SumOf([e \in Entries |-> Len(Row(e))])
          + SumOf([c \in DOMAIN a_loc |-> adapter_len[c]]) = tot_size
    <3> DEFINE m == Cardinality(mem_state)
               s == SumOver(Needs(outputs), Holders(cache))
               t == SumOver(adapterCells, DOMAIN a_loc)
    <3>1. m \in Nat /\ s \in Nat /\ t \in Nat
      BY <2>1, <2>2, DueNat, TakenFrom
    <3>2. /\ SumOf([e \in Entries |-> Len(Row(e))]) = s
          /\ SumOf([c \in DOMAIN a_loc |-> adapter_len[c]]) = t
      BY <2>1, <2>2, EntriesAreRows, LoadedSum
    <3>3. m + (s + t) = tot_size
      BY <2>2 DEF Due
    <3> HIDE DEF m, s, t
    <3>4. m + s + t = tot_size
      BY <3>1, <3>3
    <3>5. QED
      BY <3>2, <3>4 DEF m
  <2>5. QED
    BY <2>2, <2>3, <2>4 DEF CellsAccounted
<1>2. QED
  BY <1>1, ServerAlways, TypeCorrect, RouterUnderneath, PTL

(* A batch that fits by the estimate has room, but for the adapters that   *)
(* none of its requests uses: for the adapters that it still has to load,  *)
(* the prompts of those that hold no cells yet, and a token of each of the *)
(* others.                                                                 *)
LEMMA RoomFor ==
  ASSUME outputs \in [Req -> Nat],
         Books(mem_state, can_use_mem_size, cache, outputs, a_loc),
         NEW B \in SUBSET Req, Holders(cache) \subseteq B,
         \A r \in B \ Holders(cache) : outputs[r] = 0,
         TokensHeld(B, outputs) + AdapterSize(B) < max_total_tokens
  PROVE  /\ LoadSize(Dirs(B)) \in Nat /\ PromptSize(B \ Holders(cache)) \in Nat
         /\ Cardinality(Holders(cache)) \in Nat
         /\ LoadSize(Dirs(B)) + PromptSize(B \ Holders(cache)) + Cardinality(Holders(cache))
              <= can_use_mem_size + SumOf([k \in DOMAIN a_loc \ Dirs(B) |-> adapter_len[k]])
<1> DEFINE H == Holders(cache)
           P == B \ H
           f == [r \in Req |-> input_len[r] + outputs[r]]
           g == Needs(outputs)
           A == AdaptersOf(Req)
           D == DOMAIN a_loc
           E == AdaptersOf(B)
           linger == SumOf([k \in D \ E |-> adapter_len[k]])
<1>1. /\ Shaped(cache) /\ LoadedOK(a_loc) /\ mem_state \subseteq Cells
      /\ can_use_mem_size = Cardinality(mem_state)
      /\ can_use_mem_size + (SumOver(g, H) + SumOver(adapterCells, D)) = tot_size
  BY DEF Books, Due
<1>2. /\ IsFiniteSet(Req) /\ input_len \in [Req -> Nat]
      /\ f \in [Req -> Nat] /\ g \in [Req -> Nat]
  BY NeedsNat, RequestAssumption, RunNat
<1>3. /\ IsFiniteSet(A) /\ adapterCells \in [A -> Nat] /\ D \in SUBSET A /\ E \in SUBSET A
  BY <1>1, DirsFinite DEF LoadedOK, AdaptersOf
<1>4. H \in SUBSET Req /\ P \in SUBSET Req /\ B = H \cup P /\ H \cap P = {}
      /\ Cardinality(H) \in Nat
  BY PartsFinite
<1>5. Dirs(B) = E /\ E \subseteq A
  BY DEF Dirs, AdaptersOf
<1>6. /\ LoadSize(E) = SumOver(adapterCells, E \ D) /\ LoadSize(E) \in Nat
      /\ PromptSize(P) = SumOver(input_len, P) /\ PromptSize(P) \in Nat
  BY <1>4, <1>5, LoadSizeIs, PromptSizeIs DEF NewAdapters
<1>7. linger = SumOver(adapterCells, D \ E)
  BY <1>1, LoadedSum
<1>8. TokensHeld(B, outputs) = SumOver(f, B) /\ AdapterSize(B) = SumOver(adapterCells, E)
  BY TokensHeldIsSum, AdapterSizeIsSum
<1>9. \A r \in H : f[r] = g[r] + 1
  <2> SUFFICES ASSUME NEW r \in H PROVE f[r] = g[r] + 1
    OBVIOUS
  <2> DEFINE i == input_len[r]
             o == outputs[r]
  <2>1. i \in Nat /\ o \in Nat /\ f[r] = i + o /\ g[r] = i + o - 1
    BY <1>2, <1>4 DEF Needs
  <2> HIDE DEF i, o, f, g
  <2>2. QED
    BY <2>1
<1>10. \A r \in P : f[r] = input_len[r]
  BY <1>2, <1>4
<1> HIDE DEF f, g, H, P, A, D, E, linger
<1>11. SumOver(f, B) = SumOver(g, H) + Cardinality(H) + SumOver(input_len, P)
  <2>1. SumOver(f, H \cup P) = SumOver(f, H) + SumOver(f, P)
    BY <1>2, <1>4, SumUnion
  <2>2. SumOver(f, H) = 1 * Cardinality(H) + SumOver(g, H)
    BY <1>2, <1>4, <1>9, SumMore
  <2>3. SumOver(f, P) = SumOver(input_len, P)
    BY <1>2, <1>4, <1>10, SumSame
  <2>4. SumOver(g, H) \in Nat /\ SumOver(input_len, P) \in Nat
    BY <1>2, <1>4, SumNat
  <2>5. SumOver(f, B) = SumOver(f, H \cup P)
    BY <1>4, Zenon
  <2> DEFINE s == SumOver(g, H)
             t == SumOver(input_len, P)
             c == Cardinality(H)
  <2> HIDE DEF s, t, c
  <2>6. (1 * c + s) + t = s + c + t
    BY <1>4, <2>4 DEF s, t, c
  <2>7. QED
    BY <2>1, <2>2, <2>3, <2>5, <2>6 DEF s, t, c
<1> DEFINE X == D \cap E
           Y == D \ E
           Z == E \ D
<1>12. /\ X \in SUBSET A /\ Y \in SUBSET A /\ Z \in SUBSET A
       /\ D = X \cup Y /\ X \cap Y = {} /\ E = X \cup Z /\ X \cap Z = {}
  BY <1>3
<1> HIDE DEF X, Y, Z
<1>13. /\ SumOver(adapterCells, X \cup Y) = SumOver(adapterCells, X) + SumOver(adapterCells, Y)
       /\ SumOver(adapterCells, X \cup Z) = SumOver(adapterCells, X) + SumOver(adapterCells, Z)
       /\ SumOver(adapterCells, X) \in Nat /\ SumOver(adapterCells, Y) \in Nat
       /\ SumOver(adapterCells, Z) \in Nat
  BY <1>3, <1>12, SumUnion, SumNat
<1> DEFINE u == can_use_mem_size
           s == SumOver(g, H)
           p == SumOver(input_len, P)
           c == Cardinality(H)
           x == SumOver(adapterCells, X)
           y == SumOver(adapterCells, Y)
           z == SumOver(adapterCells, Z)
<1>14. /\ u \in Nat /\ s \in Nat /\ p \in Nat /\ c \in Nat
       /\ x \in Nat /\ y \in Nat /\ z \in Nat
  BY <1>1, <1>2, <1>4, <1>13, TakenFrom, SumNat
<1>15. u + (s + (x + y)) = tot_size
  <2>1. SumOver(adapterCells, D) = SumOver(adapterCells, X \cup Y)
    BY <1>12, Zenon
  <2>2. QED
    BY <1>1, <1>13, <2>1
<1>16. (s + c + p) + (x + z) < max_total_tokens
  <2>1. SumOver(adapterCells, E) = SumOver(adapterCells, X \cup Z)
    BY <1>12, Zenon
  <2>2. QED
    BY <1>8, <1>11, <1>13, <2>1
<1>17. max_total_tokens \in Nat /\ max_total_tokens <= tot_size /\ tot_size \in Nat
  BY PoolAssumption, LimitAssumption
<1> HIDE DEF u, s, p, c, x, y, z
<1>18. z + p + c <= u + y
  BY <1>14, <1>15, <1>16, <1>17
<1>19. QED
  BY <1>4, <1>5, <1>6, <1>7, <1>18 DEF u, p, c, y, z, Y, Z, H, P, D, E, linger

(* When the server is idle, at a prefill and at a decode it holds the rows *)
(* of the running requests, but of nobody who is about to be prefilled.    *)
LEMMA HoldersWhenAllocating ==
  ASSUME TypeOK, BatchesOK, ServerOK, alive, pc \in {"admit", "prefill", "decode"}
  PROVE  /\ pc \in {"admit", "decode"} => Holders(cache) = running
         /\ pc = "prefill" => Holders(cache) = IF mini = {} THEN {} ELSE running
         /\ pc \in {"prefill", "decode"} => running # {}
<1>1. DOMAIN cache \subseteq {Running, Mini} /\ Mini \notin DOMAIN cache
  BY DEF ServerOK, Books, Shaped, InStep
<1>2. CASE pc = "prefill" /\ mini = {}
  <2>1. Running \notin DOMAIN cache /\ running # {}
    BY <1>2 DEF ServerOK, InStep
  <2>2. DOMAIN cache = {}
    BY <1>1, <2>1
  <2>3. QED
    BY <1>2, <2>1, <2>2 DEF Holders
<1>3. CASE pc # "prefill" \/ mini # {}
  <2>1. Holds(cache, Running, running) /\ (pc # "admit" => running # {})
    BY <1>3 DEF ServerOK, InStep
  <2>2. CASE running = {}
    <3>1. DOMAIN cache = {}
      BY <1>1, <2>1, <2>2 DEF Holds
    <3>2. QED
      BY <1>3, <2>1, <2>2, <3>1 DEF Holders
  <2>3. CASE running # {}
    <3>1. DOMAIN cache = {Running} /\ Members(cache[Running]) = running
      BY <1>1, <2>1, <2>3 DEF Holds
    <3>2. QED
      BY <1>3, <2>3, <3>1 DEF Holders
  <2>4. QED
    BY <2>2, <2>3
<1>4. QED
  BY <1>2, <1>3

LEMMA RoomWhenFits ==
  ASSUME TypeOK, BatchesOK, StartedOK, AdaptersLoaded, ServerOK, BatchFits, alive,
         pc \in {"admit", "prefill", "decode"}
  PROVE  /\ pc = "admit" => LoadSize(Dirs(mini)) + PromptSize(mini) <= can_use_mem_size + Lingering
         /\ pc = "prefill" => PromptSize(Prefilled) <= can_use_mem_size + Lingering
         /\ pc = "decode" => Cardinality(running) <= can_use_mem_size + Lingering
<1> DEFINE B == running \cup mini
           H == Holders(cache)
           l == LoadSize(Dirs(B))
           p == PromptSize(B \ H)
           c == Cardinality(H)
           room == can_use_mem_size + Lingering
<1>1. /\ outputs \in [Req -> Nat] /\ B \in SUBSET Req
      /\ Books(mem_state, can_use_mem_size, cache, outputs, a_loc)
      /\ TokensHeld(B, outputs) + AdapterSize(B) < max_total_tokens
  BY DEF TypeOK, ServerOK, BatchFits
<1>2. /\ H \subseteq B
      /\ pc = "admit" => B \ H = mini
      /\ pc = "prefill" => B \ H = Prefilled
      /\ pc = "decode" => H = running
  BY HoldersWhenAllocating DEF Prefilled, BatchesOK
<1>3. \A r \in B \ H : outputs[r] = 0
  BY <1>2, HoldersWhenAllocating DEF StartedOK, Prefilled, BatchesOK
<1>4. Lingering = SumOf([k \in DOMAIN a_loc \ Dirs(B) |-> adapter_len[k]])
  BY DEF Lingering
<1>5. can_use_mem_size \in Nat /\ Lingering \in Nat
  <2>1. can_use_mem_size \in Nat
    BY <1>1, BooksTypes
  <2>2. LoadedOK(a_loc)
    BY <1>1 DEF Books
  <2> DEFINE Y == DOMAIN a_loc \ Dirs(B)
             A == AdaptersOf(Req)
  <2>3. Y \subseteq DOMAIN a_loc /\ Y \in SUBSET A
    BY <2>2 DEF LoadedOK
  <2>4. IsFiniteSet(A) /\ adapterCells \in [A -> Nat]
    BY DirsFinite
  <2> HIDE DEF Y, A
  <2>5. SumOf([k \in Y |-> adapter_len[k]]) = SumOver(adapterCells, Y)
        /\ SumOver(adapterCells, Y) \in Nat
    BY <2>2, <2>3, <2>4, LoadedSum, SumNat
  <2>6. QED
    BY <1>4, <2>1, <2>5 DEF Y
<1> HIDE DEF B, H
<1>6. /\ l \in Nat /\ p \in Nat /\ c \in Nat
      /\ l + p + c <= can_use_mem_size + SumOf([k \in DOMAIN a_loc \ Dirs(B) |-> adapter_len[k]])
  BY <1>1, <1>2, <1>3, RoomFor DEF H
<1>7. pc = "admit" => LoadSize(Dirs(mini)) = l
  <2>1. Dirs(B) = Dirs(running) \cup Dirs(mini) /\ Dirs(running) \subseteq DOMAIN a_loc
    BY DEF Dirs, B, AdaptersLoaded
  <2>2. NewAdapters(Dirs(B)) = NewAdapters(Dirs(mini))
    BY <2>1 DEF NewAdapters
  <2>3. QED
    BY <2>2 DEF LoadSize
<1> HIDE DEF l, p, c
<1>8. l + p + c <= room
  BY <1>4, <1>6
<1> HIDE DEF room
<1>9. room \in Nat
  BY <1>5 DEF room
<1>10. l + p <= room /\ p <= room /\ c <= room
  BY <1>6, <1>8, <1>9
<1>11. QED
  BY <1>2, <1>7, <1>10 DEF room, p, c

(* The estimate, which never asks the pool, leaves out the adapters that   *)
(* linger for requests which are gone, and nothing else: but for theirs,   *)
(* there are always the cells that the next allocation asks for.           *)
THEOREM RoomIsKept == ServedSpec => []RoomButForLingering
<1>1. CASE Req = {}
  <2>1. TypeOK /\ BatchesOK /\ ServerOK => RoomButForLingering
    <3> SUFFICES ASSUME TypeOK, BatchesOK, ServerOK, alive
                 PROVE  ~ (AdmissionOver /\ mini # {}) /\ pc \notin {"prefill", "decode"}
      BY DEF RoomButForLingering
    <3>1. running = {} /\ mini = {}
      BY <1>1 DEF TypeOK
    <3>2. QED
      BY <3>1, HoldersWhenAllocating
  <2>2. QED
    BY <2>1, ServerAlways, TypeCorrect, BatchesCorrect, RouterUnderneath, PTL
<1>2. CASE Req # {}
  <2>1. TypeOK /\ BatchesOK /\ StartedOK /\ AdaptersLoaded /\ ServerOK /\ BatchFits
          => RoomButForLingering
    BY RoomWhenFits DEF RoomButForLingering, AdmissionOver
  <2>2. Spec => []BatchFits
    BY <1>2, EstimateIsSafe
  <2>3. QED
    BY <2>1, <2>2, ServerAlways, TypeCorrect, BatchesCorrect, StartedAlways, LoadedAlways,
       RouterUnderneath, PTL
<1>3. QED
  BY <1>1, <1>2
=============================================================================
