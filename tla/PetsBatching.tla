---------------------------- MODULE PetsBatching ----------------------------
(***************************************************************************)
(* The batching of PETSReqQueue (pets_req_queue.py): waiting requests are  *)
(* split into mini batches of one adapter, and these into macro batches,   *)
(* so that the predicted latency is least; the latencies come from the     *)
(* tables that AlphaModel and BetaModel (profiler.py) were measured with.  *)
(*                                                                         *)
(* Latencies are doubled throughout, so that the mean of two is a number.  *)
(***************************************************************************)
EXTENDS Admission, Integers, Sequences
LOCAL INSTANCE SequencesExt

CONSTANTS
  base_prefill,     (* [batch size -> [padded length -> latency]]           *)
  adapter_prefill,  (* [rank -> [batch size -> [padded length -> latency]]] *)
  seq_len_step,     (* 32 in the code, smaller in the runs                  *)
  Inf               (* numpy's Inf: no entry for this batch size            *)

PadTo(n) == ((n + seq_len_step - 1) \div seq_len_step) * seq_len_step

(* The tables have an entry for every prompt (the code asserts that none   *)
(* is longer than 1024, and looks the others up in a dict).  An adapter's  *)
(* latency is a difference of two measurements and may be negative.        *)
ASSUME TableAssumption ==
  /\ Inf \notin Int
  /\ seq_len_step \in Nat \ {0}
  /\ DOMAIN base_prefill \subseteq Nat
  /\ \A n \in DOMAIN base_prefill, r \in Req :
       /\ base_prefill[n][PadTo(input_len[r])] \in Int
       /\ \A c \in Client :
            lora_rank[c] # 0 => adapter_prefill[lora_rank[c]][n][PadTo(input_len[r])] \in Int

(* A batch size that was measured, the least one, one between two that     *)
(* were, or an unknown one, in a table [size -> latency].                  *)
Looked(n, table) ==
  LET measured == DOMAIN table
  IN  IF n \in measured THEN 2 * table[n]
      ELSE IF n = 1 /\ 2 \in measured THEN 2 * table[2]
      ELSE IF n % 2 # 0 /\ {n - 1, n + 1} \subseteq measured
        THEN table[n - 1] + table[n + 1]
      ELSE Inf

(* get_latency of AlphaModel and of BetaModel.                             *)
AlphaLatency(n, len) ==
  Looked(n, [k \in DOMAIN base_prefill |-> base_prefill[k][PadTo(len)]])
BetaLatency(rank, n, len) ==
  IF rank = 0
    THEN 0
    ELSE Looked(n, [k \in DOMAIN base_prefill |->
                      adapter_prefill[rank][k][PadTo(len)] - base_prefill[k][PadTo(len)]])

Plus(x, y) == IF Inf \in {x, y} THEN Inf ELSE x + y
Less(x, y) == x # Inf /\ (y = Inf \/ x < y)
Cheapest(S) == CHOOSE x \in S : \A y \in S : ~Less(y, x)

(* The dynamic programs of both stages: the items 1..n in consecutive      *)
(* groups, given the latency of the group from k to j.  MinCost is the     *)
(* array of the least costs of the first items.                            *)
MinCost(n, latency) ==
  LET cost[j \in 0..n] ==
        IF j = 0 THEN 0
        ELSE Cheapest({Plus(cost[k - 1], latency[k][j]) : k \in 1..j})
  IN  cost

(* Mutation of FirstOfLast: its cost is looked up one place too far.       *)
OneTooFar(j, cost, latency) ==
  Max({k \in 1..j : k = 1 \/ ~Less(cost[j], Plus(cost[k - 2], latency[k][j]))})

(* The first item of the last group of the first j: of equally good cuts   *)
(* the first (the comparison with min_cost is strict).                     *)
FirstOfLast(j, cost, latency) ==
  Min({k \in 1..j : Plus(cost[k - 1], latency[k][j]) = cost[j]})

(* The groups, last one first.                                             *)
Split(n, latency) ==
  LET cost == MinCost(n, latency)
      groups[j \in 0..n] ==
        IF j = 0 THEN <<>>
        ELSE LET k == FirstOfLast(j, cost, latency)
             IN  <<<<k, j>>>> \o groups[k - 1]
  IN  groups[n]

Cut(s, groups) == [i \in DOMAIN groups |-> SubSeq(s, groups[i][1], groups[i][2])]

-----------------------------------------------------------------------------
(* The k-th of a set of places, and the elements of s at some places, in   *)
(* their order: what a comprehension or filter over a list keeps.          *)
Place(places, k) == CHOOSE i \in places : Cardinality({j \in places : j <= i}) = k
Picked(s, places) == [k \in 1..Cardinality(places) |-> s[Place(places, k)]]
OfAdapters(s, dirs) == Picked(s, {i \in DOMAIN s : adapter_dir[s[i]] \in dirs})

(* sorted(s), given the keys of its elements: equal keys keep their order. *)
StableSort(s, key) ==
  LET upTo(i) == {j \in DOMAIN s : key[j] < key[i] \/ (key[j] = key[i] /\ j <= i)}
  IN  [k \in DOMAIN s |-> s[CHOOSE i \in DOMAIN s : Cardinality(upTo(i)) = k]]

(* The queries of one adapter, shortest prompt first.                      *)
Queries(reqs, c) ==
  LET of == OfAdapters(reqs, {c})
  IN  StableSort(of, [i \in DOMAIN of |-> input_len[of[i]]])

QueryLatency(queries, c) ==
  [k \in DOMAIN queries |-> [j \in DOMAIN queries |->
     BetaLatency(lora_rank[c], j - k + 1, input_len[queries[j]])]]

(* A mini batch is the sequence of its requests, its max_len the prompt    *)
(* length of the last.                                                     *)
MaxLen(mini_batch) == input_len[Last(mini_batch)]

(* One dict entry per adapter, in the order of their first requests.      *)
IntraTaskBatching(reqs) ==
  LET firsts == Picked(reqs, {i \in DOMAIN reqs :
                                \A j \in 1..i - 1 : adapter_dir[reqs[j]] # adapter_dir[reqs[i]]})
      of(c) == LET q == Queries(reqs, c) IN Cut(q, Split(Len(q), QueryLatency(q, c)))
  IN  FlattenSeq([i \in DOMAIN firsts |-> of(adapter_dir[firsts[i]])])

(* The mini batches, shortest prompts first, and the latency of several in *)
(* a row: that of all their requests at the prompt length of the last.     *)
SortedMinis(mini_batches) ==
  StableSort(mini_batches, [i \in DOMAIN mini_batches |-> MaxLen(mini_batches[i])])
MacroLatency(m) ==
  [k \in DOMAIN m |-> [j \in DOMAIN m |->
     AlphaLatency(Len(FlattenSeq(SubSeq(m, k, j))), MaxLen(m[j]))]]

MacroGroups(m) == Split(Len(m), MacroLatency(m))

(* The macro batches, each a sequence of mini batches, and the requests of *)
(* the last of them, which is the one of the shortest prompts.             *)
InterTaskBatching(mini_batches) ==
  LET m == SortedMinis(mini_batches) IN Cut(m, MacroGroups(m))
ShortestMacroBatch(mini_batches) ==
  LET m == SortedMinis(mini_batches)
      g == Last(MacroGroups(m))
  IN  FlattenSeq(SubSeq(m, g[1], g[2]))
=============================================================================
