-------------------------- MODULE ServingContract --------------------------
(***************************************************************************)
(* What a request scheduler promises its clients, whatever its policy:     *)
(* the requests of one client are started in the order they came, never    *)
(* more than Capacity at a time, each is served at most once, none is      *)
(* forgotten, and only a cancelled one is dropped.  Which client is next,  *)
(* how many requests start or complete together, and everything about      *)
(* batches and tokens is left open.                                        *)
(***************************************************************************)
EXTENDS Naturals, FiniteSets, Sequences

CONSTANTS
  Client, Req,
  client,     (* Req -> Client                                              *)
  Capacity    (* requests in service at a time                              *)

VARIABLES
  sent,       (* requests the scheduler was given                           *)
  waiting,    (* per client, those not started yet, in order of arrival     *)
  serving,    (* those in service                                           *)
  served,     (* those answered in full                                     *)
  cancelled   (* those the scheduler was told to give up                    *)

contractVars == <<sent, waiting, serving, served, cancelled>>

Init ==
  /\ sent = {}
  /\ waiting = [c \in Client |-> <<>>]
  /\ serving = {}
  /\ served = {}
  /\ cancelled = {}

Send(r) ==
  /\ r \notin sent
  /\ sent' = sent \cup {r}
  /\ waiting' = [waiting EXCEPT ![client[r]] = Append(@, r)]
  /\ UNCHANGED <<serving, served, cancelled>>

Cancel(r) ==
  /\ r \in sent \ served
  /\ cancelled' = cancelled \cup {r}
  /\ UNCHANGED <<sent, waiting, serving, served>>

Start(c) ==
  /\ waiting[c] # <<>>
  /\ Head(waiting[c]) \notin cancelled
  /\ Cardinality(serving \cup {Head(waiting[c])}) <= Capacity
  /\ waiting' = [waiting EXCEPT ![c] = Tail(@)]
  /\ serving' = serving \cup {Head(waiting[c])}
  /\ UNCHANGED <<sent, served, cancelled>>

Drop(c) ==
  /\ waiting[c] # <<>>
  /\ Head(waiting[c]) \in cancelled
  /\ waiting' = [waiting EXCEPT ![c] = Tail(@)]
  /\ UNCHANGED <<sent, serving, served, cancelled>>

Complete(F) ==
  /\ serving' = serving \ F
  /\ served' = served \cup F
  /\ UNCHANGED <<sent, waiting, cancelled>>

Next ==
  \/ \E r \in Req : Send(r) \/ Cancel(r)
  \/ \E c \in Client : Start(c) \/ Drop(c)
  \/ \E F \in SUBSET serving : Complete(F)

Spec == Init /\ [][Next]_contractVars
=============================================================================
