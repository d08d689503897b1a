-------------------------- MODULE MCSequentialParts --------------------------
(* Constants of the run of SequentialParts: four requests of unlike shapes *)
(* for the admission estimate, what the user of the pool asks for, and two *)
(* requests of unlike lengths for the attention kernels, whose blocks are  *)
(* smaller than the tensors, and two adapters of unlike rank in cells of   *)
(* the pool that do not follow one another.                                *)
EXTENDS SequentialParts

CONSTANTS ada, adb, adc, r1, r2, r3, r4

MCClient == {ada}
MCReq == {r1, r2, r3, r4}
MCAdapter == [r \in Req |-> ada]
MCInputLen == [r \in Req |-> CASE r = r1 -> 1 [] r = r2 -> 4 [] r = r3 -> 2 [] r = r4 -> 1]
MCOutputLen == [r \in Req |-> CASE r = r1 -> 4 [] r = r2 -> 2 [] r = r3 -> 3 [] r = r4 -> 1]
NoLora == [c \in Client |-> 0]

MCSizes == 1 .. 3
MCBlockSizes == {2}

MCAdapters == {ada, adb, adc}
MCAdapterR == [c \in MCAdapters |-> IF c = adc THEN 2 ELSE 1]

MCPromptLens == {<<1, 3>>, <<3, 1>>, <<2, 2>>}
MCPrefillCells == {<<0, 1, 3, 4>>}
MCDecodeCells == {<<2, 7>>, <<5, 6>>}
MCRank == [c \in {ada, adb} |-> IF c = ada THEN 2 ELSE 4]
MCScaling == [c \in {ada, adb} |-> IF c = ada THEN 1 ELSE 2]
MCLoc ==
  [c \in {ada, adb} |-> IF c = ada THEN <<3, 4, 5, 6, 9, 10, 11, 12>>
                    ELSE <<0, 1, 2, 7, 8, 13, 14, 15, 16, 17, 18, 20, 21, 22, 23, 24>>]
MCLoraBatches ==
  {<<<<ada, 1>>, <<ada, 1>>>>, <<<<ada, 1>>, <<adb, 1>>>>,
   <<<<adb, 2>>, <<ada, 1>>>>, <<<<adb, 1>>, <<ada, 2>>>>}
(* For the run NarrowRank: a rank of less than a vector beside a wider one. *)
NarrowRank == [c \in {ada, adb} |-> IF c = ada THEN 1 ELSE 4]
NarrowLoc == [c \in {ada, adb} |-> IF c = ada THEN <<3, 4, 5, 6>> ELSE MCLoc[adb]]
NarrowBatches == {batch \in MCLoraBatches : \E b \in DOMAIN batch : batch[b][1] = adb}
MCAdapterOrders == {<<ada, adb>>, <<adb, ada>>}
=============================================================================
