----------------------------- MODULE ListQueues -----------------------------
(***************************************************************************)
(* The schedulers that keep one list of waiting requests: ReqQueue         *)
(* ("slora") and its subclasses AbortReqQueue ("abort", --enable-abort),   *)
(* ClusterReqQueue ("cluster", --batch-num-adapters), PEFTReqQueue         *)
(* ("peft") and PETSReqQueue ("pets").  generate_new_batch runs without an *)
(* await; here it is a function of the state, one operator per class, and  *)
(* its result a record: the requests taken, the list left, those given up. *)
(***************************************************************************)
EXTENDS PetsBatching
LOCAL INSTANCE SequencesExt

CONSTANTS
  batch_num_adapters,     (* --batch-num-adapters                           *)
  max_other_waited_reqs,  (* 30 in the code, smaller in the runs            *)
  pets_threshold          (* 10 in the code, smaller in the runs            *)

ASSUME ThresholdAssumption == pets_threshold \in Nat

VARIABLES
  policy,          (* which class req_queue has (get_scheduler)             *)
  waiting,         (* waiting_req_list                                      *)
  running,         (* running_batch.reqs; {} also when it is None           *)
  outputs,         (* len(req.output_ids)                                   *)
  aborted,         (* requests with req.aborted set                         *)
  order,           (* requests add_req was called with, in that order       *)
  expired,         (* how many of them came 5.5 s ago or more               *)
  req_time_stamp,  (* of AbortReqQueue: times, as indices of order          *)
  apprx_req_rate, apprx_bs, last_req_num   (* of AbortReqQueue              *)

Policies == {"slora", "abort", "cluster", "peft", "pets"}

estimates == <<apprx_req_rate, apprx_bs, last_req_num>>
listVars == <<waiting, req_time_stamp, apprx_req_rate, apprx_bs, last_req_num>>

ListInit ==
  /\ waiting = <<>>
  /\ req_time_stamp = <<>>
  /\ apprx_req_rate = 1
  /\ apprx_bs = 1
  /\ last_req_num = 0

(* append: AbortReqQueue keeps the latest first.                           *)
AppendReq(r) ==
  /\ order' = Append(order, r)
  /\ IF policy = "abort"
       THEN /\ waiting' = <<r>> \o waiting
            /\ req_time_stamp' = <<Len(order')>> \o req_time_stamp
       ELSE waiting' = Append(waiting, r) /\ UNCHANGED req_time_stamp
  /\ UNCHANGED estimates

-----------------------------------------------------------------------------
Without(s, gone) == Picked(s, {i \in DOMAIN s : s[i] \notin gone})

(* cache_len_list when the requests of judged were added to it, in that    *)
(* order, after those of the running batch (which have place 0): a list,   *)
(* in which a request that was judged twice is twice.                      *)
CacheList(judged) ==
  [e \in ({0} \X running) \cup {<<i, judged[i]>> : i \in DOMAIN judged} |->
     IF e[1] = 0 THEN RunningEntry(e[2], outputs[e[2]]) ELSE NewEntry(e[2])]

(* Mutation of CanAdd: the adapters of the running batch only.             *)
CanAddWithoutNewAdapters(judged) ==
  LET cache == CacheList(judged)
  IN  /\ NeedMaxTokenNum(cache) + AdapterSize(running) < max_total_tokens
      /\ Cardinality(DOMAIN cache) <= running_max_req_size

(* _can_add_new_req for the last of judged: every request it was asked     *)
(* about since _init_cache_list is in the cache list, refused or not.      *)
CanAdd(judged) ==
  LET cache == CacheList(judged)
  IN  /\ NeedMaxTokenNum(cache) + AdapterSize(running \cup ToSet(judged)) < max_total_tokens
      /\ Cardinality(DOMAIN cache) <= running_max_req_size

(* Mutation of Scan: req.aborted is not looked at.                         *)
ScanAll(reqs, judged, taken) ==
  LET fits(i) ==
        LET now == SubSeq(reqs, 1, i)
        IN  /\ CanAdd(judged \o now)
            /\ InputTokens(ToSet(taken \o now)) <= batch_max_tokens
      stop == Min({i \in DOMAIN reqs : ~fits(i)} \cup {Len(reqs) + 1})
      seen == SubSeq(reqs, 1, stop - 1)
  IN  [seen |-> seen, taken |-> taken \o seen, aborted_count |-> 0,
       judged |-> judged \o seen]

(* Mutation of Scan: an aborted request ends the loop.                     *)
ScanToAborted(reqs, judged, taken) ==
  LET head(i) == SubSeq(reqs, 1, i)
      fits(i) == /\ CanAdd(judged \o head(i))
                 /\ InputTokens(ToSet(taken \o head(i))) <= batch_max_tokens
      stop == Min({i \in DOMAIN reqs : reqs[i] \in aborted \/ ~fits(i)} \cup {Len(reqs) + 1})
  IN  [seen |-> head(stop - 1), taken |-> taken \o head(stop - 1), aborted_count |-> 0,
       judged |-> judged \o head(stop - 1)]

(* The loop every class has: over reqs, past the aborted ones, until one   *)
(* is refused.  judged and taken are what earlier loops left.              *)
Scan(reqs, judged, taken) ==
  LET live(i) == Without(SubSeq(reqs, 1, i), aborted)
      fits(i) == /\ CanAdd(judged \o live(i))
                 /\ InputTokens(ToSet(taken \o live(i))) <= batch_max_tokens
      stop == Min({i \in DOMAIN reqs : reqs[i] \notin aborted /\ ~fits(i)}
                    \cup {Len(reqs) + 1})
  IN  [seen          |-> SubSeq(reqs, 1, stop - 1),
       taken         |-> taken \o live(stop - 1),
       aborted_count |-> stop - 1 - Len(live(stop - 1)),
       judged        |-> judged \o live(IF stop > Len(reqs) THEN Len(reqs) ELSE stop)]

Batch(taken, left) ==
  [taken |-> taken, left |-> left, late |-> {}, times |-> req_time_stamp,
   rate |-> apprx_req_rate, bs |-> apprx_bs, num |-> last_req_num]
NoBatch == Batch(<<>>, waiting)

(* Mutation of Fcfs: aborted requests are not counted in the slice.        *)
FcfsSlicesShort ==
  LET s == Scan(waiting, <<>>, <<>>)
  IN  IF s.taken = <<>> THEN NoBatch
      ELSE Batch(s.taken, SubSeq(waiting, Len(s.taken) + 1, Len(waiting)))

(* ReqQueue: the list is sliced, and only when somebody was taken.         *)
Fcfs ==
  LET s == Scan(waiting, <<>>, <<>>)
  IN  IF s.taken = <<>> THEN NoBatch
      ELSE Batch(s.taken,
                 SubSeq(waiting, Len(s.taken) + s.aborted_count + 1, Len(waiting)))

(* ClusterReqQueue: once the batch has its adapters, their requests first, *)
(* then anybody's, judged by the same cache list.                          *)
Dirs(reqs) == {adapter_dir[r] : r \in reqs}

Cluster ==
  LET live == {i \in DOMAIN waiting : waiting[i] \notin aborted}
      sliced == SubSeq(waiting, Min(live), Len(waiting))
      one == Scan(OfAdapters(sliced, Dirs(running)), <<>>, <<>>)
      rest == Without(sliced, ToSet(one.seen))
      two == Scan(rest, one.judged, one.taken)
  IN  IF /\ running # {}
         /\ Cardinality(Dirs(running)) >= batch_num_adapters
         /\ live # {}
        THEN Batch(two.taken, Without(rest, ToSet(two.seen)))
        ELSE Fcfs

(* PEFTReqQueue: the adapter of the running batch or of the first request, *)
(* aborted or not; nothing when too many others wait before it.            *)
PeftAdapters == IF running # {} THEN Dirs(running) ELSE {adapter_dir[waiting[1]]}

Peft ==
  LET mine == {i \in DOMAIN waiting : adapter_dir[waiting[i]] \in PeftAdapters}
      others == Min(mine) - 1
      s == Scan(OfAdapters(waiting, PeftAdapters), <<>>, <<>>)
  IN  IF waiting = <<>> THEN NoBatch
      ELSE IF mine = {} THEN NoBatch
      ELSE IF others > max_other_waited_reqs THEN NoBatch
      ELSE Batch(s.taken, Without(waiting, ToSet(s.taken)))

PetsReqs == IF Len(waiting) > pets_threshold
              THEN ShortestMacroBatch(IntraTaskBatching(waiting))
              ELSE waiting

Pets ==
  LET s == Scan(PetsReqs, <<>>, <<>>)
  IN  IF s.taken = <<>> THEN NoBatch ELSE Batch(s.taken, Without(waiting, ToSet(s.seen)))

-----------------------------------------------------------------------------
(* AbortReqQueue, which changes its list when it returns no batch, too.    *)

(* int(0.7 * n + 0.3 * m): truncation towards zero.  (The code's floating  *)
(* point gives the same for the values that the runs reach.)               *)
Mix(n, m) == LET x == 7 * n + 3 * m IN IF x < 0 THEN -((-x) \div 10) ELSE x \div 10

(* Mutation of Aligned: w has already been cut.                            *)
AlignedTooLate(s, w, gone) == SubSeq(s, 1, Len(Without(w, gone)))

(* Mutation of Aligned: the parallel list is not cut.                      *)
AlignedNever(s, w, gone) == s

(* The elements of s at the places where w has a request that stays.       *)
Aligned(s, w, gone) == Picked(s, {i \in DOMAIN w : w[i] \notin gone})

(* attainment_func(time.time() - stamp + 0.5) == 0                         *)
Late == {waiting[i] : i \in {j \in DOMAIN waiting : req_time_stamp[j] <= expired}}

AbortQueue ==
  LET rate  == Mix(Len(waiting) - last_req_num, apprx_req_rate)
      kept  == Without(waiting, Late)
      times == Aligned(req_time_stamp, waiting, Late)
      s     == Scan(IF rate >= apprx_bs THEN kept ELSE Reverse(kept), <<>>, <<>>)
      gone  == IF s.taken = <<>> THEN {} ELSE ToSet(s.seen)
      bs    == Mix(Len(s.taken), apprx_bs)
  IN  [taken |-> s.taken, left |-> Without(kept, gone), late |-> Late,
       times |-> Aligned(times, kept, gone), rate |-> rate,
       bs    |-> IF s.taken = <<>> THEN apprx_bs ELSE IF bs > 1 THEN bs ELSE 1,
       num   |-> IF s.taken = <<>> THEN last_req_num ELSE Len(kept) - Len(s.seen)]

(* generate_new_batch of the class in use.                                 *)
NewBatch ==
  CASE policy = "slora"   -> Fcfs
    [] policy = "abort"   -> AbortQueue
    [] policy = "cluster" -> Cluster
    [] policy = "peft"    -> Peft
    [] policy = "pets"    -> Pets

SetList(b) ==
  /\ waiting' = b.left
  /\ req_time_stamp' = b.times
  /\ apprx_req_rate' = b.rate
  /\ apprx_bs' = b.bs
  /\ last_req_num' = b.num
=============================================================================
