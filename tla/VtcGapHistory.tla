--------------------------- MODULE VtcGapHistory ---------------------------
(***************************************************************************)
(* VtcRouter with base and steps of module VtcGap as history variables, so *)
(* that the invariant of the proof can be checked on small instances       *)
(* and proved of these very values (Fairness_proofs).                      *)
(***************************************************************************)
EXTENDS VtcGap

VARIABLES base, steps

historyVars == <<vars, base, steps>>

HistoryInit ==
  /\ Init
  /\ base = [u \in Client |-> 0]
  /\ steps = [u \in Client |-> 0]

(* Only an admission and a lift move a counter outside update_counter.     *)
Taken(u) == pc = "admit" /\ counters'[u] # counters[u]
Lifted(u) == arrived' # arrived /\ counters'[u] # counters[u]
Charged(u) == pc # "charge" /\ pc' = "charge" /\ RequestsOf(u, running) # {}

HistoryNext ==
  /\ Next
  /\ base' = [u \in Client |-> IF Taken(u) THEN counters[u]
                               ELSE IF Lifted(u) THEN counters'[u] ELSE base[u]]
  /\ steps' = [u \in Client |-> IF Taken(u) \/ Lifted(u) THEN 0
                                ELSE IF Charged(u) THEN steps[u] + 1 ELSE steps[u]]

HistorySpec == HistoryInit /\ [][HistoryNext]_historyVars

(* The inductive invariant of the fairness proof: every counter is within  *)
(* one prompt and steps[u] full decode rounds of a base no waiting client  *)
(* is below, and no client accumulates more rounds than an output is long. *)
HistoryInv ==
  /\ GapInv(base, steps)
  /\ BatchesOK
  /\ QueueOK
  /\ \A u \in Client : steps[u] <= MaxSteps
=============================================================================
