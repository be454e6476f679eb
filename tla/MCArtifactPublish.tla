-------------------------- MODULE MCArtifactPublish -------------------------
(* ArtifactPublish on one model of three files and two builds that differ in   *)
(* the weights, and so in the manifest, and share the tokenizer.               *)
EXTENDS ArtifactPublish

CONSTANTS m1, manifest, weights, tokenizer, a, b, u1, u2, same

OneModel == <<m1>>

\* The order of sorted(): manifest.json, model.safetensors, tokenizer.json.
Sorted == <<manifest, weights, tokenizer>>

Digests == [f \in {manifest, weights, tokenizer} |->
              [x \in Builds |-> IF f = tokenizer THEN same ELSE <<f, x>>]]
=============================================================================
