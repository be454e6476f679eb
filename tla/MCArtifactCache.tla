--------------------------- MODULE MCArtifactCache --------------------------
(* ArtifactCache on one model with two builds that differ in the weights and   *)
(* share the tokenizer.                                                        *)
EXTENDS ArtifactCache, TLC

CONSTANTS m1, manifest, weights, tokenizer, a, b, s1, s2, same

OneModel == <<m1>>

Digests == [f \in Names |->
              [x \in Builds |-> IF f = tokenizer THEN same ELSE <<f, x>>]]
=============================================================================
