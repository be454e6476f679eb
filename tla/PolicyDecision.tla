--------------------------- MODULE PolicyDecision ---------------------------
(* What a guardrail evaluation promises: a request names policies and is       *)
(* answered once, either with the verdict of every policy it names or with the *)
(* error of the first ID that cannot run, never with the verdict of some.      *)
EXTENDS Integers, Sequences

CONSTANTS
  Policies,     \* the registered policy IDs
  Unregistered, \* other IDs a request may name
  Disabled,     \* the registered policies that are not enabled
  BlockAt,      \* threshold of each policy
  ReviewAt,     \* review_threshold of each policy, NoReview for none
  NoReview,
  Severity,     \* severity of each policy
  MaxScore,     \* scores are 0 .. MaxScore, in some unit
  MaxAsked      \* bound: the number of IDs in a request

Ids      == Policies \cup Unregistered
Enabled  == Policies \ Disabled
Scores   == 0 .. MaxScore
Requests == UNION {[1 .. n -> Ids] : n \in 0 .. MaxAsked}

Strategies == {"ANY_BLOCK", "HIGHEST_SEVERITY"}
Actions    == {"ALLOW", "REVIEW", "BLOCK"}
Errors     == {"INVALID_REQUEST", "POLICY_NOT_FOUND", "POLICY_DISABLED",
               "INFERENCE_TIMEOUT", "INTERNAL_ERROR"}

PolicyAssumption ==
  /\ Policies \cap Unregistered = {}
  /\ Disabled \subseteq Policies
  /\ BlockAt \in [Policies -> Nat]
  /\ NoReview \notin Nat
  /\ ReviewAt \in [Policies -> Nat \cup {NoReview}]
  /\ \A p \in Policies : ReviewAt[p] # NoReview => ReviewAt[p] <= BlockAt[p]
  /\ Severity \in [Policies -> Nat]
  /\ MaxScore \in Nat
  /\ MaxAsked \in Nat

VARIABLES
  asked,    \* the policy IDs of the request, as the client listed them
  strategy, \* how the actions are combined
  scores,   \* what each policy's model makes of the text
  answer    \* "none" between requests, "pending", or the reply

vars == <<asked, strategy, scores, answer>>

Named == {asked[i] : i \in DOMAIN asked}

Blocks(p)  == scores[p] >= BlockAt[p]
Reviews(p) == ~Blocks(p) /\ ReviewAt[p] # NoReview /\ scores[p] >= ReviewAt[p]

\* One blocking policy blocks, failing that one reviewing policy asks for a review.
AnyBlock ==
  IF \E p \in Named : Blocks(p) THEN "BLOCK"
  ELSE IF \E p \in Named : Reviews(p) THEN "REVIEW" ELSE "ALLOW"

Gravest == {p \in Named : \A q \in Named : Severity[q] <= Severity[p]}

\* Only the policies of the highest severity have a say.
HighestSeverity ==
  IF \E p \in Gravest : Blocks(p) THEN "BLOCK"
  ELSE IF \E p \in Gravest : Reviews(p) THEN "REVIEW" ELSE "ALLOW"

Verdict == IF strategy = "ANY_BLOCK" THEN AnyBlock ELSE HighestSeverity

\* The error an ID may cause where every ID before it can run.
Causes(id) ==
  CASE id \in Unregistered -> {"POLICY_NOT_FOUND"}
    [] id \in Disabled     -> {"POLICY_DISABLED"}
    [] id \in Enabled      -> {"INFERENCE_TIMEOUT", "INTERNAL_ERROR"}

\* The replies a request allows.
Replies ==
  {a \in Actions : asked # <<>> /\ Named \subseteq Enabled /\ a = Verdict}
  \cup {e \in Errors :
          \/ e = "INVALID_REQUEST" /\ asked = <<>>
          \/ \E i \in DOMAIN asked :
               /\ \A j \in 1 .. i - 1 : asked[j] \in Enabled
               /\ e \in Causes(asked[i])}

Idle(a, s, m, r) ==
  /\ a = <<>>
  /\ s = "ANY_BLOCK"
  /\ m = [p \in Policies |-> 0]
  /\ r = "none"

Init == Idle(asked, strategy, scores, answer)

Submit ==
  /\ answer = "none"
  /\ asked' \in Requests
  /\ strategy' \in Strategies
  /\ scores' \in [Policies -> Scores]
  /\ answer' = "pending"

Reply ==
  /\ answer = "pending"
  /\ answer' \in Replies
  /\ UNCHANGED <<asked, strategy, scores>>

\* The client has its reply and nothing of the request is kept.
Return ==
  /\ answer \in Actions \cup Errors
  /\ Idle(asked', strategy', scores', answer')

Next == Submit \/ Reply \/ Return

Spec == Init /\ [][Next]_vars
=============================================================================
