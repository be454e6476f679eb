---------------------------- MODULE PolicyEngine ----------------------------
(* PolicyRegistry.evaluate (core/policy_engine.py) with the threshold test of  *)
(* the three policies: the policies of a request run one after the other, the  *)
(* first that cannot run ends the request, and the actions of those that ran   *)
(* are aggregated.                                                             *)
EXTENDS Integers, Sequences

CONSTANTS
  Policies, Unregistered, Disabled, BlockAt, ReviewAt, NoReview, Severity,
  MaxScore, MaxAsked

VARIABLES
  asked,    \* policy_ids
  strategy,
  scores,   \* what each policy's model makes of the text
  pos,      \* the position in policy_ids the loop has reached
  results,  \* the list of PolicyResult
  counted,  \* POLICY_EVALUATIONS_TOTAL, its increments since the request began
  timed,    \* POLICY_LATENCY_SECONDS, its observations since the request began
  reply     \* "none" between calls, "pending", an action, or the code of the error raised

vars == <<asked, strategy, scores, pos, results, counted, timed, reply>>

Contract == INSTANCE PolicyDecision WITH answer <- reply

Ids        == Contract!Ids
Scores     == Contract!Scores
Requests   == Contract!Requests
Strategies == Contract!Strategies
Actions    == Contract!Actions

ASSUME EngineAssumption == Contract!PolicyAssumption

Results == [policy : Policies, action : Actions, severity : Nat]

-----------------------------------------------------------------------------

\* The threshold test of ToxicityPolicy, PiiPolicy and PromptInjectionPolicy.
Classify(p, score) ==
  IF score >= BlockAt[p] THEN "BLOCK"
  ELSE IF ReviewAt[p] # NoReview /\ score >= ReviewAt[p] THEN "REVIEW" ELSE "ALLOW"

Rank == [ALLOW |-> 0, REVIEW |-> 1, BLOCK |-> 2]

\* The (severity, action) order of max(), a later result losing a tie.
Outranks(r, s) ==
  \/ r.severity > s.severity
  \/ r.severity = s.severity /\ Rank[r.action] >= Rank[s.action]

Taken(rs) == {rs[i].action : i \in DOMAIN rs}

\* Mutant: the last result of the list decides under HIGHEST_SEVERITY.
AggregateLast(rs, how) ==
  IF how = "ANY_BLOCK"
  THEN IF "BLOCK" \in Taken(rs) THEN "BLOCK"
       ELSE IF "REVIEW" \in Taken(rs) THEN "REVIEW" ELSE "ALLOW"
  ELSE rs[Len(rs)].action

\* aggregate_decisions() of a list that is not empty.
Aggregate(rs, how) ==
  IF how = "ANY_BLOCK"
  THEN IF "BLOCK" \in Taken(rs) THEN "BLOCK"
       ELSE IF "REVIEW" \in Taken(rs) THEN "REVIEW" ELSE "ALLOW"
  ELSE LET top == CHOOSE i \in DOMAIN rs : \A j \in DOMAIN rs : Outranks(rs[i], rs[j])
       IN rs[top].action

\* dict.fromkeys() keeps the first occurrence of an ID.
Repeats(i) == \E j \in 1 .. i - 1 : asked[j] = asked[i]

Running == reply = "pending" /\ pos <= Len(asked)

Init ==
  /\ asked = <<>>
  /\ strategy = "ANY_BLOCK"
  /\ scores = [p \in Policies |-> 0]
  /\ pos = 1
  /\ results = <<>>
  /\ counted = [p \in Policies |-> 0]
  /\ timed = [p \in Policies |-> 0]
  /\ reply = "none"

\* A call of evaluate().
Call ==
  /\ reply = "none"
  /\ asked' \in Requests
  /\ strategy' \in Strategies
  /\ scores' \in [Policies -> Scores]
  /\ pos' = 1
  /\ results' = <<>>
  /\ counted' = [p \in Policies |-> 0]
  /\ timed' = [p \in Policies |-> 0]
  /\ reply' = "pending"

RejectEmpty ==
  /\ reply = "pending"
  /\ asked = <<>>
  /\ reply' = "INVALID_REQUEST"
  /\ UNCHANGED <<asked, strategy, scores, pos, results, counted, timed>>

\* Mutant: the ID after a repeated one is passed over as well.
SkipTwo ==
  /\ Running
  /\ Repeats(pos)
  /\ pos' = pos + 2
  /\ UNCHANGED <<asked, strategy, scores, results, counted, timed, reply>>

\* Mutant: the loop does not move past a repeated ID.
SkipNothing ==
  /\ Running
  /\ Repeats(pos)
  /\ pos' = pos
  /\ UNCHANGED <<asked, strategy, scores, results, counted, timed, reply>>

SkipRepeat ==
  /\ Running
  /\ Repeats(pos)
  /\ pos' = pos + 1
  /\ UNCHANGED <<asked, strategy, scores, results, counted, timed, reply>>

Unknown ==
  /\ Running
  /\ ~Repeats(pos)
  /\ asked[pos] \notin Policies
  /\ reply' = "POLICY_NOT_FOUND"
  /\ UNCHANGED <<asked, strategy, scores, pos, results, counted, timed>>

NotEnabled ==
  /\ Running
  /\ ~Repeats(pos)
  /\ asked[pos] \in Disabled
  /\ reply' = "POLICY_DISABLED"
  /\ UNCHANGED <<asked, strategy, scores, pos, results, counted, timed>>

Evaluable == Running /\ ~Repeats(pos) /\ asked[pos] \in Policies \ Disabled

\* The policy scores the text, is timed and counted, and its result is kept.
Evaluate ==
  /\ Evaluable
  /\ LET p      == asked[pos]
         result == [policy |-> p, action |-> Classify(p, scores[p]), severity |-> Severity[p]]
     IN /\ results' = Append(results, result)
        /\ counted' = [counted EXCEPT ![p] = @ + 1]
        /\ timed' = [timed EXCEPT ![p] = @ + 1]
  /\ pos' = pos + 1
  /\ UNCHANGED <<asked, strategy, scores, reply>>

\* Mutant: a policy that raises is counted as a decision all the same.
InferenceFailsCounted ==
  /\ Evaluable
  /\ reply' \in {"INFERENCE_TIMEOUT", "INTERNAL_ERROR"}
  /\ timed' = [timed EXCEPT ![asked[pos]] = @ + 1]
  /\ counted' = [counted EXCEPT ![asked[pos]] = @ + 1]
  /\ UNCHANGED <<asked, strategy, scores, pos, results>>

\* The policy raises: TimeoutError becomes a 504, anything else reaches the 500
\* of the request middleware.  The attempt is timed but is no decision.
InferenceFails ==
  /\ Evaluable
  /\ reply' \in {"INFERENCE_TIMEOUT", "INTERNAL_ERROR"}
  /\ timed' = [timed EXCEPT ![asked[pos]] = @ + 1]
  /\ UNCHANGED <<asked, strategy, scores, pos, results, counted>>

Finish ==
  /\ reply = "pending"
  /\ asked # <<>>
  /\ pos > Len(asked)
  /\ reply' = Aggregate(results, strategy)
  /\ UNCHANGED <<asked, strategy, scores, pos, results, counted, timed>>

Step ==
  \/ RejectEmpty
  \/ SkipRepeat
  \/ Unknown
  \/ NotEnabled
  \/ Evaluate
  \/ InferenceFails
  \/ Finish

\* The caller has the reply; the registry keeps nothing of the call.
Return ==
  /\ reply \notin {"none", "pending"}
  /\ asked' = <<>>
  /\ strategy' = "ANY_BLOCK"
  /\ scores' = [p \in Policies |-> 0]
  /\ pos' = 1
  /\ results' = <<>>
  /\ counted' = [p \in Policies |-> 0]
  /\ timed' = [p \in Policies |-> 0]
  /\ reply' = "none"

Next == Call \/ Step \/ Return

\* evaluate() is a loop over a finite list, and a model call ends or raises.
Spec == Init /\ [][Next]_vars /\ WF_vars(Step)

-----------------------------------------------------------------------------
(* Properties                                                                 *)

\* Types; the position stays within one of the request.
TypeOK ==
  /\ asked \in Requests
  /\ strategy \in Strategies
  /\ scores \in [Policies -> Scores]
  /\ pos \in 1 .. Len(asked) + 1
  /\ results \in Seq(Results)
  /\ counted \in [Policies -> Nat]
  /\ timed \in [Policies -> Nat]
  /\ reply \in {"none", "pending"} \cup Actions \cup Contract!Errors

\* The engine keeps the contract of an evaluation: the reply is the verdict of
\* all the policies named, whatever their order and repetition, or the error of
\* the first ID named that is unknown, disabled or raises, never of a later one.
KeepsContract == Contract!Spec

\* Every evaluation is answered, however often it names a policy.
Answered == reply = "pending" ~> reply \in Actions \cup Contract!Errors

\* The counters of a request, also of one that fails half way: every policy
\* that decided is counted once, one that raised is timed but not counted, and
\* none that was not reached appears.
MetricsAgree ==
  \A p \in Policies :
    LET decided == \E i \in DOMAIN results : results[i].policy = p
        raised  == reply \in {"INFERENCE_TIMEOUT", "INTERNAL_ERROR"} /\ asked[pos] = p
    IN /\ counted[p] = IF decided THEN 1 ELSE 0
       /\ timed[p] = IF decided \/ raised THEN 1 ELSE 0
=============================================================================
