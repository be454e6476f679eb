----------------------------- MODULE MCOnnxCache ----------------------------
(* OnnxCache with three processes that start on one cache volume.              *)
EXTENDS OnnxCache
=============================================================================
