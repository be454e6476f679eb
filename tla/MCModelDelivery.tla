--------------------------- MODULE MCModelDelivery ---------------------------
(* ModelDelivery on two models of two files and two builds.  Each deployment    *)
(* is a set of actors that meet in the bucket and the registry: two runs by     *)
(* hand or the container, and an API process.                                   *)
EXTENDS ModelDelivery, TLC

CONSTANTS m1, m2, manifest, weights, a, b, u1, u2, init, api

TwoModels == <<m1, m2>>

\* The order of sorted(): manifest.json, model.safetensors.
Sorted == <<manifest, weights>>

Digests == [f \in {manifest, weights} |-> [x \in Builds |-> <<f, x>>]]

Meetings == {{u1, u2, api}, {init, api}}
=============================================================================
