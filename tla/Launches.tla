------------------------------ MODULE Launches ------------------------------
(***************************************************************************)
(* Kernel launches: the host puts launches on a stream that runs them one  *)
(* after another, and the device runs the programs of a launch in any      *)
(* order.  What a program does is one step here, since programs of one     *)
(* launch store apart from each other, as the layers' properties say.      *)
(***************************************************************************)
EXTENDS Naturals, Sequences, FiniteSetsExt, TLC

VARIABLES
  memory,    (* address -> value, of what has been written                  *)
  launches,  (* launches to come, the current one first                     *)
  grid       (* programs of the current one that have not run               *)

launchVars == <<memory, launches, grid>>

Junk == <<"junk">>   (* memory nobody wrote: any number, also not-a-number  *)
Zero == <<"zero">>   (* what masked loads give                              *)

Load(a) == IF a \in DOMAIN memory THEN memory[a] ELSE Junk
CDiv(n, block) == (n + block - 1) \div block
Rows(m, block) == m * block .. m * block + block - 1

(* Where part n begins of parts laid one after another (torch.cumsum).     *)
SumTo(f, n) == MapThenSumSet(LAMBDA x : f[x], 0 .. n - 1)

NoLaunches == memory = << >> /\ launches = << >> /\ grid = {}

Run(p, stores) ==
  /\ p \in grid
  /\ memory' = [a \in DOMAIN stores \cup DOMAIN memory |->
                  IF a \in DOMAIN stores THEN stores[a] ELSE memory[a]]
  /\ grid' = grid \ {p}
  /\ UNCHANGED launches

Launch(programs) ==
  /\ grid = {}
  /\ Len(launches) > 1
  /\ launches' = Tail(launches)
  /\ grid' = programs
  /\ UNCHANGED memory

Finished == grid = {} /\ Len(launches) = 1
=============================================================================
