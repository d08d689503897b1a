-------------------------- MODULE MCAnswerPipeline --------------------------
(* Constants of the runs of AnswerPipeline: an answer that is collected,   *)
(* one that is streamed, and a chat.                                       *)
EXTENDS AnswerPipeline

CONSTANTS g, s, h

MCReq == {g, s, h}
MCEndpoint == [r \in Req |-> CASE r = g -> "generate" [] r = s -> "generate_stream"
                               [] OTHER -> "chat"]
MCTokens == [r \in Req |-> IF r = s THEN 3 ELSE 1]
=============================================================================
