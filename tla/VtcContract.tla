---------------------------- MODULE VtcContract ----------------------------
(***************************************************************************)
(* VtcRouter implements ServingContract: a request waits while it is in    *)
(* FairQueue, is in service from the moment generate_new_batch takes it    *)
(* until it is reported finished, whichever batch object holds it between. *)
(***************************************************************************)
EXTENDS VtcRouter

Contract ==
  INSTANCE ServingContract WITH
    client    <- adapter_dir,
    Capacity  <- running_max_req_size,
    sent      <- arrived,
    waiting   <- queued,
    serving   <- running \cup mini,
    served    <- finished,
    cancelled <- aborted

(* Every behaviour of the router is one the contract allows: first come    *)
(* first served within a client, at most running_max_req_size in service,  *)
(* served at most once, dropped only after an abort; batches, merges and   *)
(* clean-ups are invisible.                                                *)
ImplementsContract == Contract!Spec
=============================================================================
