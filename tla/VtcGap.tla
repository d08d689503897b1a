------------------------------- MODULE VtcGap -------------------------------
(***************************************************************************)
(* The fairness promise of the VTC scheduler, on the counters of VtcRouter *)
(* (module FairQueue), and the invariant that explains why it holds.       *)
(*                                                                         *)
(* For every client u let base[u] be the counter u had when one of its     *)
(* requests was last taken from the queue, or the value u was lifted to if *)
(* that is later, and steps[u] the decode steps that charged u since.      *)
(* No waiting client is below any base, because a request is only taken    *)
(* from a client with the smallest counter and a returning client is       *)
(* lifted; and a counter leaves its base only by one prompt and by the     *)
(* decode steps of requests that were all admitted by then, of which there *)
(* can be no more than the longest output allows.                          *)
(***************************************************************************)
EXTENDS VtcRouter

(* The most decode steps a request can be charged for: its prompt takes a  *)
(* token of max_req_total_len, and prefill makes its first output token.   *)
MaxSteps == IF max_req_total_len > 2 THEN max_req_total_len - 2 ELSE 0

(* The largest charges of one admission and of one decode step.            *)
MaxPromptCharge == PromptCharge(max_req_input_len)
MaxDecodeCharge == DecodeCharge(max_req_input_len, MaxSteps)
MaxRoundCharge == MaxDecodeCharge * running_max_req_size

GapBound == MaxPromptCharge + MaxRoundCharge * MaxSteps

(* No client is ever ahead of a waiting client by more than one prompt and *)
(* a full batch of the longest outputs, whoever came and went, whatever    *)
(* was aborted: a client that returns has no credit, one that waits is not *)
(* overtaken for longer, and a late charge cannot run away.                *)
BoundedGap ==
  \A u \in Client, v \in ClientsInQueue : counters[u] <= counters[v] + GapBound

-----------------------------------------------------------------------------
(* The inductive invariant, for given base and steps.                      *)

RequestsOf(u, reqs) == {r \in reqs : adapter_dir[r] = u}

(* Anchored: how far a counter is from its base; what is still to be       *)
(* charged in this decode step counts as charged.                          *)
Anchored(base, steps) ==
  \A u \in Client :
    counters[u] + MaxDecodeCharge * Cardinality(RequestsOf(u, uncharged))
      <= base[u] + MaxPromptCharge + MaxRoundCharge * steps[u]

(* No waiting client is below a base; nor is the floor the next client to  *)
(* arrive at an empty queue is lifted to.                                  *)
Floor == IF lastLeft = NoClient THEN 0 ELSE counters[lastLeft]
BasesBelowQueue(base) ==
  \A u \in Client :
    /\ \A v \in ClientsInQueue : base[u] <= counters[v]
    /\ ClientsInQueue = {} => base[u] <= Floor

(* The requests of a batch have outlived the decode steps since their      *)
(* client's base was set.                                                  *)
Generating(r, steps, charged) ==
  /\ 1 <= outputs[r]
  /\ outputs[r] < max_output_len[r]
  /\ steps[adapter_dir[r]] + 1 <= outputs[r] + charged
NotStarted(r, steps) == outputs[r] = 0 /\ steps[adapter_dir[r]] = 0

StepsCovered(steps) ==
  /\ \A r \in running :
       IF pc = "prefill" /\ mini = {}
         THEN NotStarted(r, steps)
         ELSE Generating(r, steps, IF pc \in {"charge", "decode"} THEN 1 ELSE 0)
  /\ \A r \in mini :
       IF pc \in {"admit", "prefill"}
         THEN NotStarted(r, steps)
         ELSE Generating(r, steps, 0) /\ steps[adapter_dir[r]] = 0

GapInv(base, steps) ==
  /\ Anchored(base, steps)
  /\ BasesBelowQueue(base)
  /\ StepsCovered(steps)
=============================================================================
