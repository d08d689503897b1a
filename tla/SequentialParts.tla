--------------------------- MODULE SequentialParts ---------------------------
(***************************************************************************)
(* Parts of the server that share no state and run to completion inside    *)
(* one call are checked side by side: a behaviour is about one of them,    *)
(* its subject, and the others stand still.                                *)
(***************************************************************************)
EXTENDS AdmissionCheck, MemoryAllocator, AdapterPool, AttentionLayer, LoraLayer

VARIABLE subject

partVars ==
  <<subject, checkVars, allocVars, adapterVars, layerVars, engineVars, launchVars>>

Init ==
  /\ subject \in {"admission", "allocator", "adapters", "attention", "lora"}
  /\ CheckInit
  /\ AllocInit
  /\ AdapterInit
  /\ IF subject = "attention" THEN AttentionInit ELSE AttentionIdle
  /\ IF subject = "lora" THEN LoraInit ELSE LoraIdle
  /\ subject \notin {"attention", "lora"} => NoLaunches

Next ==
  /\ UNCHANGED subject
  /\ \/ /\ subject = "admission" /\ CheckNext
        /\ UNCHANGED <<allocVars, adapterVars, layerVars, engineVars, launchVars>>
     \/ /\ subject = "allocator" /\ AllocNext
        /\ UNCHANGED <<checkVars, adapterVars, layerVars, engineVars, launchVars>>
     \/ /\ subject = "adapters" /\ AdapterNext
        /\ UNCHANGED <<checkVars, allocVars, layerVars, engineVars, launchVars>>
     \/ /\ subject = "attention" /\ AttentionNext
        /\ UNCHANGED <<checkVars, allocVars, adapterVars, engineVars>>
     \/ /\ subject = "lora" /\ LoraNext
        /\ UNCHANGED <<checkVars, allocVars, adapterVars, layerVars>>

Spec == Init /\ [][Next]_partVars
=============================================================================
