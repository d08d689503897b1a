--------------------------- MODULE AdmissionCheck ---------------------------
(***************************************************************************)
(* The admission estimate of module Admission on its own, against two      *)
(* definitions: the list computation of _can_add_new_req, and what the     *)
(* estimate is meant to be, the largest number of cells the batch can come *)
(* to hold if nobody stops early.  The steps below only bring about every  *)
(* mix of running and joining requests the estimate can be asked about.    *)
(***************************************************************************)
EXTENDS Admission, Sequences
LOCAL INSTANCE SequencesExt

VARIABLES current, joining, outputs

checkVars == <<current, joining, outputs>>

CheckInit ==
  /\ current = {}
  /\ joining = {}
  /\ outputs = [r \in Req |-> 0]

(* The candidate is put in the list; whether it then fits is left open.    *)
Take(r) ==
  /\ r \notin current \cup joining
  /\ joining' = joining \cup {r}
  /\ outputs' = [outputs EXCEPT ![r] = 0]
  /\ UNCHANGED current

(* The joining requests get their first token and run, or all running ones *)
(* get one; those in F stop, as those at their limit must.                 *)
Generate(reqs, F) ==
  /\ reqs # {}
  /\ \A r \in reqs : outputs[r] + 1 >= max_output_len[r] => r \in F
  /\ outputs' = [r \in Req |-> IF r \in reqs THEN outputs[r] + 1 ELSE outputs[r]]
  /\ current' = (current \cup reqs) \ F

Prefill(F) == Generate(joining, F) /\ joining' = {}
Decode(F) == joining = {} /\ Generate(current, F) /\ UNCHANGED joining

CheckNext ==
  \/ \E r \in Req : Take(r)
  \/ \E F \in SUBSET joining : Prefill(F)
  \/ \E F \in SUBSET current : Decode(F)

CheckSpec == CheckInit /\ [][CheckNext]_checkVars

-----------------------------------------------------------------------------
Cache == CacheLenList(current, joining, outputs)
Estimate == IF DOMAIN Cache = {} THEN 0 ELSE NeedMaxTokenNum(Cache)

(* cache_len_list sorted by -left, in any order its sort may leave equal   *)
(* entries; then max(left * size + cumsum(has_run)).                       *)
SortedLists ==
  {s \in SetToSeqs(DOMAIN Cache) :
     \A i \in 2..Len(s) : Cache[s[i - 1]].left >= Cache[s[i]].left}
CumRunLen(s, k) == MapThenSumSet(LAMBDA i : Cache[s[i]].has_run, 1..k)
ListNeed(s) == Max({Cache[s[k]].left * k + CumRunLen(s, k) : k \in 1..Len(s)})

(* Cells held t steps from now by the requests with at least t steps left. *)
HeldAfter(t) ==
  MapThenSumSet(LAMBDA r : Cache[r].has_run + t,
                {r \in DOMAIN Cache : Cache[r].left >= t})
LongestLeft == Max({Cache[r].left : r \in DOMAIN Cache})

(* The estimate is what the array arithmetic of _can_add_new_req computes, *)
(* whichever way its sort orders entries with equally many tokens left.    *)
EstimateIsListNeed ==
  DOMAIN Cache # {} => \A s \in SortedLists : Estimate = ListNeed(s)

(* The estimate is exactly the peak, neither an under-count that overflows *)
(* the pool nor an over-count that keeps a fitting request out.            *)
EstimateIsPeak ==
  DOMAIN Cache # {} => Estimate = Max({HeldAfter(t) : t \in 0..LongestLeft})

(* Generating never raises the estimate, so a batch that was admitted      *)
(* stays admissible and the next admission starts from a sound figure.     *)
EstimateNeverGrows ==
  [][(\A r \in Req : r \in joining' => r \in joining) => Estimate' <= Estimate]_checkVars
=============================================================================
