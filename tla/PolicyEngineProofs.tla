------------------------- MODULE PolicyEngineProofs -------------------------
(* The engine keeps its types, its counters and, step by step, the contract    *)
(* of PolicyDecision, for any policies, thresholds, severities and requests.   *)
EXTENDS PolicyEngine, TLAPS

\* What the loop has done: the policies before pos are enabled and have a
\* result, the result of their severity and of the threshold test of their score.
ResultOf(p) ==
  [policy |-> p, action |-> Classify(p, scores[p]), severity |-> Severity[p]]

Reached(p) == \E j \in 1 .. pos - 1 : asked[j] = p

ResultsInv ==
  /\ \A j \in 1 .. pos - 1 : /\ asked[j] \in Policies \ Disabled
                             /\ \E i \in DOMAIN results : results[i].policy = asked[j]
  /\ \A i \in DOMAIN results : /\ results[i].policy \in Policies
                               /\ results[i] = ResultOf(results[i].policy)
                               /\ Reached(results[i].policy)

\* Some result outranks all: what lets max() choose one.
TopInv ==
  results # <<>>
    => \E i \in DOMAIN results : \A j \in DOMAIN results : Outranks(results[i], results[j])

IdleInv == reply = "none" => /\ asked = <<>>
                             /\ strategy = "ANY_BLOCK"
                             /\ scores = [p \in Policies |-> 0]
                             /\ pos = 1

\* An evaluation that raised stopped at a policy it had not evaluated.
RaisedInv ==
  reply \in {"INFERENCE_TIMEOUT", "INTERNAL_ERROR"}
    => pos <= Len(asked) /\ ~Repeats(pos) /\ asked[pos] \in Policies \ Disabled

IInv == TypeOK /\ ResultsInv /\ TopInv /\ IdleInv /\ RaisedInv /\ MetricsAgree

-----------------------------------------------------------------------------

LEMMA Assumed ==
  /\ Policies \cap Unregistered = {}
  /\ Disabled \subseteq Policies
  /\ BlockAt \in [Policies -> Nat]
  /\ Severity \in [Policies -> Nat]
  /\ MaxScore \in Nat
  /\ MaxAsked \in Nat
BY EngineAssumption DEF Contract!PolicyAssumption

\* A request is a sequence of IDs.
LEMMA RequestType ==
  ASSUME NEW r \in Requests
  PROVE  /\ r \in Seq(Ids)
         /\ Len(r) \in Nat
         /\ DOMAIN r = 1 .. Len(r)
         /\ r # <<>> => Len(r) >= 1
<1>1. PICK n \in 0 .. MaxAsked : r \in [1 .. n -> Ids]
  BY DEF Requests, Contract!Requests, Ids
<1>2. r \in Seq(Ids) /\ Len(r) = n
  BY <1>1, Assumed
<1> QED
  BY <1>1, <1>2, Assumed

LEMMA EmptyRequest == <<>> \in Requests
<1>1. <<>> \in [1 .. 0 -> Contract!Ids]
  BY SMT
<1> QED
  BY <1>1, Assumed DEF Requests, Contract!Requests

LEMMA ClassifyType ==
  ASSUME NEW p, NEW s
  PROVE  Classify(p, s) \in Actions
BY DEF Classify, Actions, Contract!Actions

\* The (severity, action) order is total and transitive on results.
LEMMA OutranksOrder ==
  ASSUME NEW r \in Results, NEW s \in Results, NEW t \in Results
  PROVE  /\ Outranks(r, r)
         /\ Outranks(r, s) \/ Outranks(s, r)
         /\ Outranks(r, s) /\ Outranks(s, t) => Outranks(r, t)
BY DEF Results, Outranks, Rank, Actions, Contract!Actions

\* Two results that outrank each other have the same action.
LEMMA OutranksTie ==
  ASSUME NEW r \in Results, NEW s \in Results, Outranks(r, s), Outranks(s, r)
  PROVE  r.severity = s.severity /\ r.action = s.action
BY DEF Results, Outranks, Rank, Actions, Contract!Actions

LEMMA ResultType ==
  ASSUME NEW p \in Policies
  PROVE  ResultOf(p) \in Results
BY ClassifyType, Assumed DEF ResultOf, Results

-----------------------------------------------------------------------------

THEOREM Initially == Init => IInv
<1> SUFFICES ASSUME Init PROVE IInv
  OBVIOUS
<1>1. TypeOK
  BY EmptyRequest, Assumed DEF Init, TypeOK, Strategies, Contract!Strategies, Scores,
     Contract!Scores
<1>2. ResultsInv /\ TopInv /\ IdleInv /\ RaisedInv
  BY DEF Init, ResultsInv, TopInv, IdleInv, RaisedInv
<1>3. MetricsAgree
  <2>1. results = <<>> /\ reply = "none" /\ DOMAIN results = {}
    BY DEF Init
  <2> QED
    BY <2>1 DEF Init, MetricsAgree
<1> QED
  BY <1>1, <1>2, <1>3 DEF IInv

\* A step that moves neither the loop nor the results keeps what they tell.
LEMMA LoopStill ==
  ASSUME ResultsInv, TopInv, UNCHANGED <<asked, scores, pos, results>>
  PROVE  ResultsInv' /\ TopInv'
BY DEF ResultsInv, TopInv, Reached, ResultOf

\* A step that ends the request without a further policy keeps the counters.
LEMMA CountersStill ==
  ASSUME MetricsAgree, reply = "pending",
         reply' \notin {"INFERENCE_TIMEOUT", "INTERNAL_ERROR"},
         UNCHANGED <<results, counted, timed>>
  PROVE  MetricsAgree'
BY DEF MetricsAgree
LEMMA EvaluateKeeps ==
  ASSUME IInv, Evaluate
  PROVE  IInv'
<1> DEFINE p == asked[pos]
<1> DEFINE r == ResultOf(p)
<1>1. p \in Policies /\ p \notin Disabled /\ reply = "pending" /\ pos \in Nat \ {0}
      /\ pos <= Len(asked) /\ ~Repeats(pos) /\ Len(asked) \in Nat
  BY RequestType DEF IInv, TypeOK, Evaluate, Evaluable, Running
<1>2. /\ results' = Append(results, r) /\ pos' = pos + 1
      /\ counted' = [counted EXCEPT ![p] = @ + 1]
      /\ timed' = [timed EXCEPT ![p] = @ + 1]
      /\ UNCHANGED <<asked, strategy, scores, reply>>
  BY DEF Evaluate, ResultOf
<1>3. r \in Results /\ r.policy = p
  BY <1>1, ResultType DEF ResultOf
<1>4. results \in Seq(Results) /\ Len(results) \in Nat
  BY DEF IInv, TypeOK
<1>5. /\ results' \in Seq(Results)
      /\ DOMAIN results = 1 .. Len(results)
      /\ DOMAIN results' = 1 .. Len(results) + 1
      /\ results'[Len(results) + 1] = r
      /\ \A i \in DOMAIN results : i \in DOMAIN results' /\ results'[i] = results[i]
  BY <1>2, <1>3, <1>4
<1>6. TypeOK'
  BY <1>1, <1>2, <1>5 DEF IInv, TypeOK
<1>7. ResultsInv'
  <2>0. \A q : ResultOf(q)' = ResultOf(q)
    BY <1>2 DEF ResultOf
  <2>1. ASSUME NEW j \in 1 .. pos' - 1
        PROVE  /\ asked'[j] \in Policies \ Disabled
               /\ \E i \in DOMAIN results' : results'[i].policy = asked'[j]
    <3>1. CASE j = pos
      BY <3>1, <1>1, <1>2, <1>3, <1>4, <1>5
    <3>2. CASE j # pos
      <4>1. j \in 1 .. pos - 1
        BY <3>2, <1>1, <1>2
      <4> QED
        BY <4>1, <1>2, <1>5 DEF IInv, ResultsInv
    <3> QED
      BY <3>1, <3>2
  <2>2. ASSUME NEW i \in DOMAIN results'
        PROVE  /\ results'[i].policy \in Policies
               /\ results'[i] = ResultOf(results'[i].policy)
               /\ \E j \in 1 .. pos' - 1 : asked[j] = results'[i].policy
    <3>1. CASE i = Len(results) + 1
      <4>1. pos \in 1 .. pos' - 1
        BY <1>1, <1>2
      <4> QED
        BY <3>1, <4>1, <1>1, <1>3, <1>5
    <3>2. CASE i # Len(results) + 1
      <4>1. i \in DOMAIN results
        BY <3>2, <1>4, <1>5
      <4>2. \A j \in 1 .. pos - 1 : j \in 1 .. pos' - 1
        BY <1>1, <1>2
      <4>3. /\ results[i].policy \in Policies
            /\ results[i] = ResultOf(results[i].policy)
            /\ \E j \in 1 .. pos - 1 : asked[j] = results[i].policy
        BY <4>1 DEF IInv, ResultsInv, Reached
      <4>4. results'[i] = results[i]
        BY <4>1, <1>5
      <4> QED
        BY <4>2, <4>3, <4>4
    <3> QED
      BY <3>1, <3>2
  <2>3. \A q : Reached(q)' <=> \E j \in 1 .. pos' - 1 : asked[j] = q
    BY <1>2 DEF Reached
  <2> QED
    BY <2>0, <2>1, <2>2, <2>3 DEF ResultsInv
<1>8. TopInv'
  <2>0. Outranks(r, r)
    BY <1>3, OutranksOrder
  <2>1. CASE results = <<>>
    <3>1. Len(results) = 0
      BY <2>1
    <3>2. \A j \in DOMAIN results' : results'[j] = r
      BY <3>1, <1>5
    <3>3. Len(results) + 1 \in DOMAIN results'
      BY <1>4, <1>5
    <3> QED
      BY <2>0, <3>2, <3>3 DEF TopInv
  <2>2. CASE results # <<>>
    <3>1. PICK i \in DOMAIN results : \A j \in DOMAIN results : Outranks(results[i], results[j])
      BY <2>2 DEF IInv, TopInv
    <3>2. \A j \in DOMAIN results : results[j] \in Results
      BY <1>4
    <3>3. \A j \in DOMAIN results' : j \in DOMAIN results \/ results'[j] = r
      BY <1>4, <1>5
    <3>4. CASE Outranks(r, results[i])
      <4>1. \A j \in DOMAIN results' : Outranks(r, results'[j])
        BY <3>1, <3>2, <3>3, <3>4, <2>0, <1>3, <1>5, OutranksOrder
      <4> QED
        <5>1. Len(results) + 1 \in DOMAIN results'
          BY <1>4, <1>5
        <5> QED
          BY <4>1, <5>1, <1>5 DEF TopInv
    <3>5. CASE Outranks(results[i], r)
      <4>1. \A j \in DOMAIN results' : Outranks(results'[i], results'[j])
        BY <3>1, <3>3, <3>5, <1>5
      <4> QED
        BY <4>1, <1>5 DEF TopInv
    <3> QED
      BY <3>2, <3>4, <3>5, <1>3, OutranksOrder
  <2> QED
    BY <2>1, <2>2
<1>9. IdleInv' /\ RaisedInv'
  BY <1>1, <1>2 DEF IdleInv, RaisedInv
<1>10. MetricsAgree'
  <2>1. \A i \in DOMAIN results : results[i].policy # p
    BY <1>1 DEF IInv, ResultsInv, Reached, Repeats
  <2>2. ASSUME NEW q \in Policies
        PROVE  (\E i \in DOMAIN results' : results'[i].policy = q)
                 <=> (q = p \/ \E i \in DOMAIN results : results[i].policy = q)
    BY <1>3, <1>4, <1>5
  <2>3. counted \in [Policies -> Nat] /\ timed \in [Policies -> Nat]
    BY DEF IInv, TypeOK
  <2>4. ASSUME NEW q \in Policies
        PROVE  /\ counted'[q] = IF q = p THEN counted[q] + 1 ELSE counted[q]
               /\ timed'[q] = IF q = p THEN timed[q] + 1 ELSE timed[q]
    BY <2>3, <1>1, <1>2
  <2>5. ASSUME NEW q \in Policies
        PROVE  /\ counted[q] = IF \E i \in DOMAIN results : results[i].policy = q THEN 1 ELSE 0
               /\ timed[q] = counted[q]
    BY <1>1 DEF IInv, MetricsAgree
  <2>6. reply' = "pending"
    BY <1>1, <1>2
  <2> QED
    BY <2>1, <2>2, <2>4, <2>5, <2>6 DEF MetricsAgree
<1> QED
  BY <1>6, <1>7, <1>8, <1>9, <1>10 DEF IInv

LEMMA SkipRepeatKeeps ==
  ASSUME IInv, SkipRepeat
  PROVE  IInv'
<1>1. /\ reply = "pending" /\ pos \in Nat \ {0} /\ pos <= Len(asked) /\ Len(asked) \in Nat
      /\ pos' = pos + 1
      /\ UNCHANGED <<asked, strategy, scores, results, counted, timed, reply>>
  BY RequestType DEF IInv, TypeOK, SkipRepeat, Running
<1>2. PICK k \in 1 .. pos - 1 : asked[k] = asked[pos]
  BY DEF SkipRepeat, Repeats
<1>3. TypeOK'
  BY <1>1 DEF IInv, TypeOK
<1>4. ASSUME NEW j \in 1 .. pos' - 1
      PROVE  \E i \in 1 .. pos - 1 : asked[j] = asked[i]
  BY <1>1, <1>2
<1>5. \A j \in 1 .. pos - 1 : j \in 1 .. pos' - 1
  BY <1>1
<1>6. ResultsInv'
  <2>1. \A q : ResultOf(q)' = ResultOf(q)
    BY <1>1 DEF ResultOf
  <2>2. \A q : Reached(q) => \E j \in 1 .. pos' - 1 : asked[j] = q
    BY <1>5 DEF Reached
  <2>3. ASSUME NEW j \in 1 .. pos' - 1
        PROVE  /\ asked[j] \in Policies \ Disabled
               /\ \E i \in DOMAIN results : results[i].policy = asked[j]
    BY <1>4 DEF IInv, ResultsInv
  <2>4. \A i \in DOMAIN results : /\ results[i].policy \in Policies
                                /\ results[i] = ResultOf(results[i].policy)
                                /\ \E j \in 1 .. pos' - 1 : asked[j] = results[i].policy
    BY <2>2 DEF IInv, ResultsInv
  <2>5. \A q : Reached(q)' <=> \E j \in 1 .. pos' - 1 : asked[j] = q
    BY <1>1 DEF Reached
  <2> QED
    BY <2>1, <2>3, <2>4, <2>5, <1>1 DEF ResultsInv
<1>7. TopInv' /\ IdleInv' /\ RaisedInv' /\ MetricsAgree'
  BY <1>1 DEF IInv, TopInv, IdleInv, RaisedInv, MetricsAgree
<1> QED
  BY <1>3, <1>6, <1>7 DEF IInv

LEMMA InferenceFailsKeeps ==
  ASSUME IInv, InferenceFails
  PROVE  IInv'
<1> DEFINE p == asked[pos]
<1>1. /\ p \in Policies /\ p \notin Disabled /\ reply = "pending"
      /\ pos <= Len(asked) /\ ~Repeats(pos)
  BY DEF InferenceFails, Evaluable, Running
<1>2. /\ reply' \in {"INFERENCE_TIMEOUT", "INTERNAL_ERROR"}
      /\ timed' = [timed EXCEPT ![p] = @ + 1]
      /\ UNCHANGED <<asked, strategy, scores, pos, results, counted>>
  BY DEF InferenceFails
<1>3. TypeOK'
  BY <1>1, <1>2 DEF IInv, TypeOK, Contract!Errors
<1>4. ResultsInv' /\ TopInv'
  BY <1>2, LoopStill DEF IInv
<1>5. IdleInv' /\ RaisedInv'
  BY <1>1, <1>2 DEF IdleInv, RaisedInv, Repeats
<1>6. MetricsAgree'
  <2>1. \A i \in DOMAIN results : results[i].policy # p
    BY <1>1 DEF IInv, ResultsInv, Reached, Repeats
  <2>2. counted \in [Policies -> Nat] /\ timed \in [Policies -> Nat]
    BY DEF IInv, TypeOK
  <2>3. ASSUME NEW q \in Policies
        PROVE  timed'[q] = IF q = p THEN timed[q] + 1 ELSE timed[q]
    BY <2>2, <1>1, <1>2
  <2>4. ASSUME NEW q \in Policies
        PROVE  /\ counted[q] = IF \E i \in DOMAIN results : results[i].policy = q THEN 1 ELSE 0
               /\ timed[q] = counted[q]
    BY <1>1 DEF IInv, MetricsAgree
  <2> QED
    BY <2>1, <2>3, <2>4, <1>2 DEF MetricsAgree
<1> QED
  BY <1>3, <1>4, <1>5, <1>6 DEF IInv

\* The list of results is not empty at the end of a request, and its aggregate
\* is an action.
LEMMA AggregateType ==
  ASSUME IInv, Finish
  PROVE  results # <<>> /\ Aggregate(results, strategy) \in Actions
<1>1. 1 \in 1 .. pos - 1
  BY RequestType DEF IInv, TypeOK, Finish
<1>2. PICK i \in DOMAIN results : results[i].policy = asked[1]
  BY <1>1 DEF IInv, ResultsInv
<1>3. results # <<>>
  BY <1>2
<1>4. CASE strategy = "ANY_BLOCK"
  BY <1>3, <1>4 DEF Aggregate, Actions, Contract!Actions
<1>5. CASE strategy # "ANY_BLOCK"
  <2> DEFINE top == CHOOSE k \in DOMAIN results :
                      \A j \in DOMAIN results : Outranks(results[k], results[j])
  <2>1. top \in DOMAIN results
    BY <1>3 DEF IInv, TopInv
  <2>2. results[top] \in Results
    BY <2>1 DEF IInv, TypeOK
  <2>3. results[top].action \in Actions
    BY <2>2 DEF Results
  <2> QED
    BY <2>3, <1>5 DEF Aggregate
<1> QED
  BY <1>4, <1>5

\* The invariant is inductive.
LEMMA Inductive == IInv /\ [Next]_vars => IInv'
<1> SUFFICES ASSUME IInv, [Next]_vars PROVE IInv'
  OBVIOUS
<1>1. CASE Call
  <2>1. TypeOK'
    BY <1>1, EmptyRequest, RequestType DEF Call, TypeOK
  <2>2. results' = <<>> /\ reply' = "pending" /\ DOMAIN results' = {} /\ 1 .. pos' - 1 = {}
    BY <1>1 DEF Call
  <2>3. ResultsInv' /\ TopInv' /\ IdleInv' /\ RaisedInv'
    BY <2>2 DEF ResultsInv, TopInv, IdleInv, RaisedInv
  <2>4. MetricsAgree'
    BY <1>1, <2>2 DEF Call, MetricsAgree
  <2> QED
    BY <2>1, <2>3, <2>4 DEF IInv
<1>2. CASE Return
  <2>1. TypeOK'
    BY <1>2, EmptyRequest, Assumed DEF Return, TypeOK, Strategies, Contract!Strategies, Scores,
       Contract!Scores
  <2>2. results' = <<>> /\ reply' = "none" /\ DOMAIN results' = {} /\ 1 .. pos' - 1 = {}
    BY <1>2 DEF Return
  <2>3. ResultsInv' /\ TopInv' /\ IdleInv' /\ RaisedInv'
    BY <1>2, <2>2 DEF Return, ResultsInv, TopInv, IdleInv, RaisedInv
  <2>4. MetricsAgree'
    BY <1>2, <2>2 DEF Return, MetricsAgree
  <2> QED
    BY <2>1, <2>3, <2>4 DEF IInv
<1>3. ASSUME RejectEmpty \/ Unknown \/ NotEnabled \/ Finish
      PROVE  IInv'
  <2>1. /\ reply = "pending"
        /\ reply' \in Actions \cup {"INVALID_REQUEST", "POLICY_NOT_FOUND", "POLICY_DISABLED"}
        /\ UNCHANGED <<asked, strategy, scores, pos, results, counted, timed>>
    BY <1>3, AggregateType DEF RejectEmpty, Unknown, NotEnabled, Finish, Running
  <2>2. TypeOK'
    BY <2>1 DEF IInv, TypeOK, Contract!Errors
  <2>3. ResultsInv' /\ TopInv'
    BY <2>1, LoopStill DEF IInv
  <2>4. IdleInv' /\ RaisedInv' /\ MetricsAgree'
    BY <2>1, CountersStill DEF IInv, IdleInv, RaisedInv, Actions, Contract!Actions
  <2> QED
    BY <2>2, <2>3, <2>4 DEF IInv
<1>4. CASE UNCHANGED vars
  <2>1. UNCHANGED <<asked, strategy, scores, pos, results, counted, timed, reply>>
    BY <1>4 DEF vars
  <2>2. TypeOK' /\ IdleInv' /\ MetricsAgree'
    BY <2>1 DEF IInv, TypeOK, IdleInv, MetricsAgree
  <2>3. ResultsInv' /\ TopInv'
    BY <2>1, LoopStill DEF IInv
  <2>4. RaisedInv'
    BY <2>1 DEF IInv, RaisedInv, Repeats
  <2> QED
    BY <2>2, <2>3, <2>4 DEF IInv
<1> QED
  BY <1>1, <1>2, <1>3, <1>4, EvaluateKeeps, SkipRepeatKeeps, InferenceFailsKeeps DEF Next, Step

LEMMA Invariance == Spec => []IInv
BY Initially, Inductive, PTL DEF Spec

\* Type correctness: every evaluation stays within its request and replies with
\* an action or one of the documented codes.
THEOREM TypeCorrect == Spec => []TypeOK
<1>1. IInv => TypeOK
  BY DEF IInv
<1> QED
  BY <1>1, Invariance, PTL

\* The counters of an evaluation: one decision per policy that decided, one
\* timing per policy that ran, also when the evaluation fails half way.
THEOREM MetricsCorrect == Spec => []MetricsAgree
<1>1. IInv => MetricsAgree
  BY DEF IInv
<1> QED
  BY <1>1, Invariance, PTL
-----------------------------------------------------------------------------
(* The engine implements the contract: its steps are the contract's Submit,   *)
(* Reply and Return, or leave the contract's state alone.                     *)

\* The policies of the results are the policies the request names.
LEMMA AllEvaluated ==
  ASSUME IInv, Finish
  PROVE  /\ Contract!Named \subseteq Contract!Enabled
         /\ \A p \in Contract!Named : \E i \in DOMAIN results : results[i] = ResultOf(p)
         /\ \A i \in DOMAIN results : /\ results[i].policy \in Contract!Named
                                      /\ results[i] = ResultOf(results[i].policy)
<1>1. DOMAIN asked = 1 .. Len(asked) /\ pos = Len(asked) + 1 /\ Len(asked) \in Nat
  BY RequestType DEF IInv, TypeOK, Finish
<1>2. 1 .. pos - 1 = DOMAIN asked
  BY <1>1
<1>3. ASSUME NEW p \in Contract!Named
      PROVE  p \in Contract!Enabled /\ \E i \in DOMAIN results : results[i] = ResultOf(p)
  <2>1. PICK j \in 1 .. pos - 1 : asked[j] = p
    BY <1>2 DEF Contract!Named
  <2>2. p \in Policies \ Disabled /\ \E i \in DOMAIN results : results[i].policy = p
    BY <2>1 DEF IInv, ResultsInv
  <2> QED
    BY <2>2 DEF IInv, ResultsInv, Contract!Enabled
<1>4. ASSUME NEW i \in DOMAIN results
      PROVE  results[i].policy \in Contract!Named /\ results[i] = ResultOf(results[i].policy)
  BY <1>2 DEF IInv, ResultsInv, Reached, Contract!Named
<1> QED
  BY <1>3, <1>4

\* The threshold test tells what the contract calls blocking and reviewing.
LEMMA ClassifyMeets ==
  ASSUME IInv, NEW p \in Policies
  PROVE  /\ ResultOf(p).action = "BLOCK" <=> Contract!Blocks(p)
         /\ ResultOf(p).action = "REVIEW" <=> Contract!Reviews(p)
         /\ ResultOf(p).severity = Severity[p]
BY DEF ResultOf, Classify, Contract!Blocks, Contract!Reviews

\* A result that outranks another has no lower severity, nor a laxer action at
\* the same severity.
LEMMA OutranksMeans ==
  ASSUME NEW p \in Policies, NEW q \in Policies, Outranks(ResultOf(p), ResultOf(q))
  PROVE  /\ Severity[q] <= Severity[p]
         /\ Severity[p] <= Severity[q]
              => Rank[ResultOf(q).action] <= Rank[ResultOf(p).action]
<1>1. ResultOf(p) \in Results /\ ResultOf(q) \in Results
  BY ResultType
<1>2. ResultOf(p).severity = Severity[p] /\ ResultOf(q).severity = Severity[q]
  BY DEF ResultOf
<1>3. Severity[p] \in Nat /\ Severity[q] \in Nat
  BY Assumed
<1>4. \A r \in Results : Rank[r.action] \in Nat
  BY DEF Results, Rank, Actions, Contract!Actions
<1> QED
  BY <1>1, <1>2, <1>3, <1>4 DEF Outranks

LEMMA VerdictMet ==
  ASSUME IInv, Finish
  PROVE  Aggregate(results, strategy) = Contract!Verdict
<1>1. \A p \in Contract!Named : p \in Policies
  BY AllEvaluated DEF Contract!Enabled
<1>2. results # <<>>
  BY AggregateType
<1>3. CASE strategy = "ANY_BLOCK"
  <2>1. "BLOCK" \in Taken(results) <=> \E p \in Contract!Named : Contract!Blocks(p)
    BY <1>1, AllEvaluated, ClassifyMeets DEF Taken
  <2>2. "REVIEW" \in Taken(results) <=> \E p \in Contract!Named : Contract!Reviews(p)
    BY <1>1, AllEvaluated, ClassifyMeets DEF Taken
  <2>3. Aggregate(results, strategy) = IF "BLOCK" \in Taken(results) THEN "BLOCK"
           ELSE IF "REVIEW" \in Taken(results) THEN "REVIEW" ELSE "ALLOW"
    BY <1>3 DEF Aggregate
  <2> QED
    BY <1>3, <2>1, <2>2, <2>3 DEF Contract!Verdict, Contract!AnyBlock
<1>4. CASE strategy # "ANY_BLOCK"
  <2> DEFINE top == CHOOSE k \in DOMAIN results :
                      \A j \in DOMAIN results : Outranks(results[k], results[j])
             t == results[top]
             p == t.policy
  <2>1. top \in DOMAIN results /\ \A j \in DOMAIN results : Outranks(t, results[j])
    BY <1>2 DEF IInv, TopInv
  <2>2. Aggregate(results, strategy) = t.action
    BY <1>4 DEF Aggregate
  <2>3. p \in Contract!Named /\ t = ResultOf(p)
    BY <2>1, AllEvaluated
  <2>4. \A q \in Contract!Named : Outranks(t, ResultOf(q))
    BY <2>1, AllEvaluated
  <2>6. p \in Contract!Gravest
    <3>1. \A q \in Contract!Named : Severity[q] <= Severity[p]
      BY <2>3, <2>4, <1>1, OutranksMeans
    <3> QED
      BY <3>1, <2>3 DEF Contract!Gravest
  <2>7. ASSUME NEW q \in Contract!Gravest
        PROVE  q \in Contract!Named /\ Rank[ResultOf(q).action] <= Rank[t.action]
    <3>1. q \in Contract!Named /\ Severity[p] <= Severity[q]
      BY <2>3 DEF Contract!Gravest
    <3> QED
      BY <3>1, <2>3, <2>4, <1>1, OutranksMeans
  <2>8. t.action \in Actions
    BY <2>3, ClassifyType DEF ResultOf
  <2>9. CASE t.action = "BLOCK"
    <3>1. Contract!Blocks(p)
      BY <2>3, <2>9, <1>1, ClassifyMeets
    <3> QED
      BY <3>1, <2>2, <2>6, <2>9, <1>4 DEF Contract!Verdict, Contract!HighestSeverity
  <2>10. CASE t.action = "REVIEW"
    <3>1. Contract!Reviews(p)
      BY <2>3, <2>10, <1>1, ClassifyMeets
    <3>2. \A q \in Contract!Gravest : ~Contract!Blocks(q)
      BY <2>7, <2>10, <1>1, ClassifyMeets DEF Rank
    <3> QED
      BY <3>1, <3>2, <2>2, <2>6, <2>10, <1>4 DEF Contract!Verdict, Contract!HighestSeverity
  <2>11. CASE t.action = "ALLOW"
    <3>1. \A q \in Contract!Gravest : ~Contract!Blocks(q) /\ ~Contract!Reviews(q)
      BY <2>7, <2>11, <1>1, ClassifyMeets DEF Rank
    <3> QED
      BY <3>1, <2>2, <2>11, <1>4 DEF Contract!Verdict, Contract!HighestSeverity
  <2> QED
    BY <2>8, <2>9, <2>10, <2>11 DEF Actions, Contract!Actions
<1> QED
  BY <1>3, <1>4

\* What a running evaluation can raise is an error the contract allows.
LEMMA ErrorMet ==
  ASSUME IInv, RejectEmpty \/ Unknown \/ NotEnabled \/ InferenceFails
  PROVE  reply' \in Contract!Replies
<1>1. CASE RejectEmpty
  BY <1>1 DEF RejectEmpty, Contract!Replies, Contract!Errors
<1>2. CASE ~RejectEmpty
  <2>1. reply = "pending" /\ pos <= Len(asked)
    BY <1>2 DEF Unknown, NotEnabled, InferenceFails, Evaluable, Running
  <2>2. asked \in Requests /\ pos \in DOMAIN asked
    BY <2>1, RequestType DEF IInv, TypeOK
  <2>3. /\ asked[pos] \in Policies \cup Unregistered
        /\ \A j \in 1 .. pos - 1 : asked[j] \in Contract!Enabled
    BY <2>2, RequestType DEF IInv, ResultsInv, Contract!Enabled, Ids, Contract!Ids
  <2>4. ASSUME reply' \in Contract!Errors, reply' \in Contract!Causes(asked[pos])
        PROVE  reply' \in Contract!Replies
    BY <2>2, <2>3, <2>4 DEF Contract!Replies
  <2>5. CASE Unknown
    <3>1. asked[pos] \in Unregistered /\ reply' = "POLICY_NOT_FOUND"
      BY <2>3, <2>5 DEF Unknown
    <3>2. Contract!Causes(asked[pos]) = {"POLICY_NOT_FOUND"}
      BY <3>1, Assumed DEF Contract!Causes, Contract!Enabled
    <3> QED
      BY <2>4, <3>1, <3>2 DEF Contract!Errors
  <2>6. CASE NotEnabled
    <3>1. asked[pos] \in Disabled /\ reply' = "POLICY_DISABLED"
      BY <2>6 DEF NotEnabled
    <3>2. Contract!Causes(asked[pos]) = {"POLICY_DISABLED"}
      BY <3>1, Assumed DEF Contract!Causes, Contract!Enabled
    <3> QED
      BY <2>4, <3>1, <3>2 DEF Contract!Errors
  <2>7. CASE InferenceFails
    <3>1. /\ asked[pos] \in Policies \ Disabled
          /\ reply' \in {"INFERENCE_TIMEOUT", "INTERNAL_ERROR"}
      BY <2>7 DEF InferenceFails, Evaluable
    <3>2. Contract!Causes(asked[pos]) = {"INFERENCE_TIMEOUT", "INTERNAL_ERROR"}
      BY <3>1, Assumed DEF Contract!Causes, Contract!Enabled
    <3> QED
      BY <2>4, <3>1, <3>2 DEF Contract!Errors
  <2> QED
    BY <1>2, <2>5, <2>6, <2>7
<1> QED
  BY <1>1, <1>2

LEMMA StepMet == IInv /\ [Next]_vars => [Contract!Next]_Contract!vars
<1> SUFFICES ASSUME IInv, [Next]_vars PROVE [Contract!Next]_Contract!vars
  OBVIOUS
<1>1. CASE Call
  BY <1>1 DEF Call, Contract!Next, Contract!Submit, Requests, Strategies, Scores
<1>2. CASE Return
  <2>1. reply \in Actions \cup Contract!Errors
    BY <1>2 DEF Return, IInv, TypeOK
  <2> QED
    BY <1>2, <2>1 DEF Return, Contract!Next, Contract!Return, Contract!Idle, Actions
<1>3. CASE Evaluate \/ SkipRepeat
  BY <1>3 DEF Evaluate, SkipRepeat, Contract!vars
<1>4. CASE RejectEmpty \/ Unknown \/ NotEnabled \/ InferenceFails
  <2>1. reply = "pending" /\ UNCHANGED <<asked, strategy, scores>>
    BY <1>4 DEF RejectEmpty, Unknown, NotEnabled, InferenceFails, Evaluable, Running
  <2> QED
    BY <1>4, <2>1, ErrorMet DEF Contract!Next, Contract!Reply
<1>5. CASE Finish
  <2>1. /\ reply = "pending" /\ asked # <<>>
        /\ reply' = Contract!Verdict
        /\ reply' \in Actions
        /\ UNCHANGED <<asked, strategy, scores>>
    BY <1>5, VerdictMet, AggregateType DEF Finish
  <2>2. reply' \in Contract!Replies
    BY <1>5, <2>1, AllEvaluated DEF Contract!Replies, Actions
  <2> QED
    BY <2>1, <2>2 DEF Contract!Next, Contract!Reply
<1>6. CASE UNCHANGED vars
  BY <1>6 DEF vars, Contract!vars
<1> QED
  BY <1>1, <1>2, <1>3, <1>4, <1>5, <1>6 DEF Next, Step

\* The engine keeps the contract: an evaluation replies with the verdict of
\* every policy it names, in any order and repetition, or with the error of the
\* first ID that cannot run.
THEOREM ContractKept == Spec => KeepsContract
<1>1. Init => Contract!Init
  BY DEF Init, Contract!Init, Contract!Idle
<1> QED
  BY <1>1, StepMet, Invariance, PTL DEF Spec, KeepsContract, Contract!Spec
=============================================================================
