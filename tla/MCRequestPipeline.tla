------------------------- MODULE MCRequestPipeline --------------------------
(* RequestPipeline with a limit of three bytes and messages of up to two.      *)
EXTENDS RequestPipeline
=============================================================================
