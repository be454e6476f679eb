--------------------------- MODULE MCPolicyEngine ---------------------------
(* PolicyEngine on two enabled policies, one of them without a review          *)
(* threshold and of lower severity, a disabled policy and an unknown ID.       *)
EXTENDS PolicyEngine

CONSTANTS tox, pii, off, ghost

Block  == [p \in Policies |-> IF p = tox THEN 2 ELSE 1]
Review == [p \in Policies |-> IF p = tox THEN 1 ELSE NoReview]
Grave  == [p \in Policies |-> IF p = tox THEN 3 ELSE 1]
=============================================================================
