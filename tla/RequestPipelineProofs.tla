----------------------- MODULE RequestPipelineProofs ------------------------
(* The safety properties of RequestPipeline, for every body limit and every    *)
(* size of the messages a body comes in.                                       *)
EXTENDS RequestPipeline, TLAPS

-----------------------------------------------------------------------------
(* The inductive invariant                                                    *)

\* Nothing has been answered or counted.
Unanswered == answer = None /\ errors = <<>> /\ requests = <<>>

Ended == pc \in {"complete", "done"}

\* What an ended request has counted under its code.
CodeCounted == errors = IF answer.code = None THEN <<>> ELSE <<answer.code>>

\* The bytes: the buffer is what was sent until a message is refused, and the
\* application is called with all of it.
BodyInv ==
  /\ pc \in {"idle", "receive"} => passed = None /\ buffer = sent
  /\ pc \notin {"idle", "receive", "complete", "done"} => passed = sent
  /\ passed # None => passed = sent

\* The response: none before the end, then one, counted once under its code.
ReplyInv ==
  /\ ~Ended => Unanswered
  /\ Ended => answer \in Answer /\ CodeCounted
  /\ Ended /\ answer.status = 413 => sent > MaxBytes \/ TooLong
  /\ pc = "complete" => requests = <<>>
  /\ pc = "done" => requests = <<answer.status>>

\* What a stage knows of the request it has let pass.
StageInv ==
  /\ pc \in {"parse", "authenticate", "validate", "policies"} => HasBody
  /\ pc = "authenticate" => request.route = "evaluate"
  /\ pc \in {"validate", "handle", "policies"} /\ request.route = "evaluate"
       => app = "up" /\ request.credentials = "good"
  /\ pc \in {"handle", "policies"} /\ HasBody => request.content = "valid"

\* The work: none before a slot is spent, and no slot without a stage that knows
\* the request.
Paid ==
  /\ app = "up"
  /\ passed = sent
  /\ request.content = "valid"
  /\ \/ request.route = "evaluate" /\ request.credentials = "good" /\ spent = {"project"}
     \/ request.route = "demo" /\ demo /\ spent = {"client"}

WorkInv ==
  /\ ~Ended /\ pc # "policies" => spent = {}
  /\ pc = "policies" => spent # {}
  /\ ~Ended => ~worked
  /\ worked => spent # {}
  /\ spent # {} => Paid

IInv == TypeOK /\ BodyInv /\ ReplyInv /\ StageInv /\ WorkInv

-----------------------------------------------------------------------------
(* Responses                                                                  *)

\* A counted refusal of a request that has no answer yet ends it with its code.
LEMMA RefuseEnds ==
  ASSUME NEW status \in Nat, NEW code \in Codes, Unanswered, Refuse(status, code)
  PROVE  /\ pc' = "complete"
         /\ answer' \in Answer /\ answer'.status = status
         /\ errors' \in Seq(Codes) /\ CodeCounted'
         /\ requests' = <<>>
<1>1. code # None
  BY PipelineAssumption
<1>2. answer' = [status |-> status, code |-> code] /\ errors' = <<code>>
  BY DEF Refuse, Unanswered
<1>3. answer'.status = status /\ answer'.code = code
  BY <1>2
<1>4. errors' \in Seq(Codes)
  BY <1>2
<1>5. CodeCounted'
  BY <1>1, <1>2, <1>3 DEF CodeCounted
<1>6. pc' = "complete" /\ requests' = <<>>
  BY DEF Refuse, Unanswered, Goto
<1>7. answer' \in Answer
  BY <1>2 DEF Answer
<1> QED
  BY <1>3, <1>4, <1>5, <1>6, <1>7

\* A response without a code is not counted as an error.
LEMMA AnsweredEnds ==
  ASSUME NEW status \in Nat, Unanswered, Answered(status)
  PROVE  /\ pc' = "complete"
         /\ answer' \in Answer /\ answer'.status = status
         /\ errors' \in Seq(Codes) /\ CodeCounted'
         /\ requests' = <<>>
<1>1. answer' = [status |-> status, code |-> None] /\ errors' = <<>>
  BY DEF Answered, Unanswered
<1>2. answer'.status = status /\ answer'.code = None
  BY <1>1
<1>3. errors' \in Seq(Codes) /\ CodeCounted'
  BY <1>1, <1>2 DEF CodeCounted
<1>4. pc' = "complete" /\ requests' = <<>>
  BY DEF Answered, Unanswered, Goto
<1>5. answer' \in Answer
  BY <1>1 DEF Answer
<1> QED
  BY <1>2, <1>3, <1>4, <1>5

-----------------------------------------------------------------------------
(* The response part of a step: every action goes on, refuses or answers, so  *)
(* ReplyInv and the types of the reply follow from which it does.             *)

\* The step refuses or answers, with 413 only for a body that is too long.
Ends ==
  /\ pc' = "complete"
  /\ answer' \in Answer
  /\ answer'.status = 413 => sent' > MaxBytes \/ TooLong
  /\ errors' \in Seq(Codes) /\ CodeCounted'
  /\ requests' = <<>>

\* The step goes on to another stage.
GoesOn ==
  /\ pc' \in {"receive", "route", "parse", "authenticate", "validate", "handle", "policies"}
  /\ UNCHANGED reply

ReplyOK ==
  /\ answer \in Answer \cup {None}
  /\ errors \in Seq(Codes)
  /\ requests \in Seq(Nat)

\* A refusal with another status than 413 ends the request.
LEMMA Refused ==
  ASSUME NEW status \in Nat \ {413}, NEW code \in Codes, Unanswered, Refuse(status, code)
  PROVE  Ends
BY RefuseEnds DEF Ends

LEMMA Replied ==
  ASSUME NEW status \in Nat \ {413}, Unanswered, Answered(status)
  PROVE  Ends
BY AnsweredEnds DEF Ends

\* Ending or going on keeps the invariant of the reply.
LEMMA ReplyKept ==
  ASSUME ReplyOK, Unanswered, Ends \/ GoesOn, UNCHANGED request
  PROVE  ReplyOK' /\ ReplyInv'
<1>1. CASE Ends
  <2>1. ReplyOK'
    BY <1>1 DEF Ends, ReplyOK
  <2>2. TooLong' = TooLong
    BY DEF TooLong
  <2>3. ReplyInv'
    BY <1>1, <2>2 DEF Ends, ReplyInv, Ended
  <2> QED
    BY <2>1, <2>3
<1>2. CASE GoesOn
  <2>1. UNCHANGED <<answer, errors, requests>>
    BY <1>2 DEF GoesOn, reply
  <2>2. ReplyOK'
    BY <2>1 DEF ReplyOK
  <2>3. ReplyInv'
    BY <1>2, <2>1 DEF GoesOn, ReplyInv, Ended, Unanswered
  <2> QED
    BY <2>2, <2>3
<1> QED
  BY <1>1, <1>2

-----------------------------------------------------------------------------
(* The steps                                                                  *)

BodyTypes ==
  /\ sent \in Nat
  /\ buffer \in 0 .. MaxBytes
  /\ passed \in 0 .. MaxBytes \cup {None}

OtherTypes ==
  /\ app \in {"up", "bare"}
  /\ demo \in BOOLEAN
  /\ pc \in {"idle", "receive", "route", "parse", "authenticate", "validate", "handle",
            "policies", "complete", "done"}
  /\ request \in Request
  /\ spent \subseteq {"project", "client"}
  /\ worked \in BOOLEAN

LEMMA TypeParts == TypeOK <=> BodyTypes /\ OtherTypes /\ ReplyOK
BY DEF TypeOK, BodyTypes, OtherTypes, ReplyOK

\* What is left to show of a step once its reply is known: the other parts of
\* the invariant.
LEMMA StepKeeps ==
  ASSUME IInv, ~Ended, Ends \/ GoesOn, UNCHANGED <<app, demo, request>>,
         BodyTypes', OtherTypes', BodyInv', StageInv', WorkInv'
  PROVE  IInv'
<1>1. ReplyOK /\ Unanswered
  BY TypeParts DEF IInv, ReplyInv
<1>2. ReplyOK' /\ ReplyInv'
  BY <1>1, ReplyKept
<1>3. TypeOK'
  BY <1>2, TypeParts, PTL
<1> QED
  BY <1>2, <1>3 DEF IInv

\* A step that leaves the body and the work alone, and ends, keeps the invariant.
LEMMA EndKeeps ==
  ASSUME IInv, ~Ended, Ends, UNCHANGED <<app, demo, request, body, spent>>,
         worked' \in BOOLEAN, worked' => spent # {}
  PROVE  IInv'
<1>1. BodyTypes /\ OtherTypes
  BY TypeParts DEF IInv
<1>2. BodyTypes'
  BY <1>1 DEF BodyTypes, body
<1>3. OtherTypes'
  BY <1>1 DEF OtherTypes, Ends
<1>4. BodyInv'
  BY DEF IInv, BodyInv, Ends, body
<1>5. StageInv'
  BY DEF StageInv, Ends
<1>6. Paid' <=> Paid
  BY DEF Paid, body
<1>7. WorkInv'
  BY <1>6 DEF IInv, WorkInv, Ends, Ended
<1> QED
  BY <1>2, <1>3, <1>4, <1>5, <1>7, StepKeeps

LEMMA RefusalKeeps ==
  ASSUME IInv, ~Ended, Ends, UNCHANGED <<app, demo, request, body, work>>
  PROVE  IInv'
<1>1. worked = FALSE
  BY TypeParts DEF IInv, OtherTypes, WorkInv
<1>2. UNCHANGED <<app, demo, request, body, spent>> /\ worked' = worked
  BY DEF work
<1>3. worked' \in BOOLEAN /\ (worked' => spent # {})
  BY <1>1, <1>2
<1> QED
  BY <1>2, <1>3, EndKeeps

\* So does a step to a later stage that knows what the stage relies on.
LEMMA StageKeeps ==
  ASSUME IInv, pc \notin {"idle", "receive", "policies"}, ~Ended, GoesOn,
         pc' \notin {"receive", "policies"}, StageInv',
         UNCHANGED <<app, demo, request, body, work>>
  PROVE  IInv'
<1>1. BodyTypes /\ OtherTypes
  BY TypeParts DEF IInv
<1>2. BodyTypes'
  BY <1>1 DEF BodyTypes, body
<1>3. OtherTypes'
  BY <1>1 DEF OtherTypes, GoesOn, work
<1>4. BodyInv'
  BY DEF IInv, BodyInv, GoesOn, body, Ended
<1>5. WorkInv'
  BY DEF IInv, WorkInv, GoesOn, Ended, work
<1> QED
  BY <1>2, <1>3, <1>4, <1>5, StepKeeps

LEMMA ReceiveKeeps ==
  ASSUME IInv, NEW more \in BOOLEAN, NEW n \in Chunks(more), Receive(n, more)
  PROVE  IInv'
<1> USE DEF IInv
<1>1. n \in Nat /\ pc = "receive" /\ ~Ended
  BY DEF Chunks, Receive, Ended
<1>2. /\ BodyTypes /\ OtherTypes /\ Unanswered
      /\ buffer = sent /\ passed = None /\ spent = {} /\ ~worked
  BY <1>1, TypeParts DEF BodyInv, WorkInv, ReplyInv
<1>3. /\ sent' = sent + n
      /\ UNCHANGED <<app, demo, request, spent, worked>>
  BY DEF Receive, work
<1>4. CASE buffer + n > MaxBytes
  <2>1. Refuse(413, "INVALID_REQUEST") /\ UNCHANGED <<buffer, passed>>
    BY <1>4, PipelineAssumption, <1>1, <1>2 DEF Receive, BodyTypes
  <2>2. Ends
    BY <2>1, <1>2, <1>3, <1>4, RefuseEnds DEF Ends, Codes
  <2>3. BodyTypes'
    BY <1>1, <1>2, <1>3, <2>1 DEF BodyTypes
  <2>4. OtherTypes'
    BY <1>2, <1>3, <2>2 DEF OtherTypes, Ends
  <2>5. BodyInv' /\ StageInv' /\ WorkInv'
    BY <1>2, <1>3, <2>1, <2>2 DEF BodyInv, StageInv, WorkInv, Ends, Ended
  <2> QED
    BY <1>1, <1>3, <2>2, <2>3, <2>4, <2>5, StepKeeps
<1>5. CASE buffer + n <= MaxBytes
  <2>1. /\ buffer' = buffer + n
        /\ IF more THEN Proceed("receive") /\ UNCHANGED passed
                   ELSE Proceed("route") /\ passed' = buffer'
    BY <1>5, PipelineAssumption, <1>1, <1>2 DEF Receive, BodyTypes
  <2>2. GoesOn
    BY <2>1 DEF GoesOn, Proceed, Goto
  <2>3. buffer' \in 0 .. MaxBytes /\ sent' \in Nat /\ buffer' = sent'
    BY <1>1, <1>2, <1>3, <1>5, <2>1, PipelineAssumption DEF BodyTypes
  <2>4. \/ pc' = "receive" /\ passed' = None
        \/ pc' = "route" /\ passed' = sent'
    BY <1>2, <2>1, <2>3 DEF Proceed, Goto
  <2>5. BodyTypes'
    BY <2>3, <2>4 DEF BodyTypes
  <2>6. OtherTypes'
    BY <1>2, <1>3, <2>4 DEF OtherTypes
  <2>7. BodyInv' /\ StageInv' /\ WorkInv'
    BY <1>2, <1>3, <2>3, <2>4 DEF BodyInv, StageInv, WorkInv, Ended
  <2> QED
    BY <1>1, <1>3, <2>2, <2>5, <2>6, <2>7, StepKeeps
<1> QED
  BY <1>1, <1>2, <1>4, <1>5, PipelineAssumption DEF BodyTypes

LEMMA CheckLengthKeeps == IInv /\ CheckLength => IInv'
<1> SUFFICES ASSUME IInv, CheckLength PROVE IInv'
  OBVIOUS
<1>1. pc = "idle" /\ ~Ended /\ Unanswered
  BY DEF CheckLength, Ended, IInv, ReplyInv
<1>2. UNCHANGED <<app, demo, request, body, work>>
  BY DEF CheckLength
<1>3. CASE TooLong /\ Refuse(413, "INVALID_REQUEST")
  <2>1. Ends
    BY <1>1, <1>3, RefuseEnds DEF Ends, Codes
  <2> QED
    BY <1>1, <1>2, <2>1, RefusalKeeps
<1>4. CASE ~TooLong /\ Proceed("receive")
  <2>1. GoesOn /\ pc' = "receive"
    BY <1>4 DEF Proceed, Goto, GoesOn
  <2>2. BodyTypes' /\ OtherTypes'
    BY <1>2, <2>1, TypeParts DEF IInv, BodyTypes, OtherTypes, body, work
  <2>3. BodyInv' /\ StageInv' /\ WorkInv'
    BY <1>1, <1>2, <2>1 DEF IInv, BodyInv, StageInv, WorkInv, Ended, body, work
  <2> QED
    BY <1>1, <1>2, <2>1, <2>2, <2>3, StepKeeps
<1> QED
  BY <1>3, <1>4 DEF CheckLength

LEMMA DisconnectKeeps == IInv /\ Disconnect => IInv'
<1> SUFFICES ASSUME IInv, Disconnect PROVE IInv'
  OBVIOUS
<1>1. ~Ended /\ Unanswered /\ ~worked
  BY DEF Disconnect, Ended, IInv, ReplyInv, WorkInv
<1>2. Ends
  BY <1>1, Refused DEF Disconnect, Codes
<1> QED
  BY <1>1, <1>2, RefusalKeeps DEF Disconnect

\* The stages from routing to the reading handlers: each ends, or goes on to a
\* stage that may rely on what this one has checked.
LEMMA RoutingKeeps ==
  IInv /\ (Route \/ Parse \/ Authenticate \/ Validate \/ Read) => IInv'
<1> SUFFICES ASSUME IInv, Route \/ Parse \/ Authenticate \/ Validate \/ Read PROVE IInv'
  OBVIOUS
<1>1. /\ pc \in {"route", "parse", "authenticate", "validate", "handle"}
      /\ ~Ended /\ Unanswered /\ ~worked
      /\ UNCHANGED <<app, demo, request, body, work>>
  BY DEF Route, Parse, Authenticate, Validate, Read, Ended, IInv, ReplyInv, WorkInv
<1>2. ASSUME Ends PROVE IInv'
  BY <1>1, <1>2, RefusalKeeps
<1>3. ASSUME pc' \in {"parse", "authenticate", "validate", "handle"}, UNCHANGED reply, StageInv'
      PROVE  IInv'
  BY <1>1, <1>3, StageKeeps DEF GoesOn
<1>4. HasBody' = HasBody
  BY <1>1 DEF HasBody
<1>5. request.route \in Routes
  BY TypeParts DEF IInv, OtherTypes, Request
<1>6. CASE Route
  <2>1. CASE Answered(404)
    BY <1>1, <1>2, <2>1, Replied
  <2>2. CASE HasBody /\ Proceed("parse")
    BY <1>3, <1>4, <2>2 DEF StageInv, Proceed, Goto
  <2>3. CASE request.route \in {"policy", "ready"} /\ Proceed("handle")
    BY <1>1, <1>3, <1>4, <2>3 DEF StageInv, Proceed, Goto, HasBody
  <2> QED
    BY <1>6, <2>1, <2>2, <2>3 DEF Route
<1>7. CASE Parse
  <2>1. CASE Refuse(400, "HTTP_ERROR")
    BY <1>1, <1>2, <2>1, Refused DEF Codes
  <2>2. CASE Refuse(422, "INVALID_REQUEST")
    BY <1>1, <1>2, <2>2, Refused DEF Codes
  <2>3. CASE Proceed(IF request.route = "evaluate" THEN "authenticate" ELSE "validate")
    <3>1. HasBody
      BY <1>7 DEF Parse, IInv, StageInv
    <3>2. StageInv'
      BY <1>1, <1>4, <2>3, <3>1 DEF StageInv, Proceed, Goto
    <3> QED
      BY <1>3, <2>3, <3>2 DEF Proceed, Goto
  <2> QED
    BY <1>7, <2>1, <2>2, <2>3 DEF Parse
<1>8. CASE Authenticate
  <2>1. CASE Refuse(503, "MODEL_NOT_READY") \/ Refuse(503, "DATABASE_UNAVAILABLE")
    BY <1>1, <1>2, <2>1, Refused DEF Codes
  <2>2. CASE Refuse(401, "AUTHENTICATION_FAILED")
    BY <1>1, <1>2, <2>2, Refused DEF Codes
  <2>3. CASE app = "up" /\ request.credentials = "good" /\ Proceed("validate")
    <3>1. HasBody
      BY <1>8 DEF Authenticate, IInv, StageInv
    <3>2. StageInv'
      BY <1>1, <1>4, <2>3, <3>1 DEF StageInv, Proceed, Goto
    <3> QED
      BY <1>3, <2>3, <3>2 DEF Proceed, Goto
  <2> QED
    BY <1>8, <2>1, <2>2, <2>3 DEF Authenticate
<1>9. CASE Validate
  <2>1. CASE Refuse(422, "INVALID_REQUEST")
    BY <1>1, <1>2, <2>1, Refused DEF Codes
  <2>2. CASE request.content = "valid" /\ Proceed("handle")
    <3>1. request.route = "evaluate" => app = "up" /\ request.credentials = "good"
      BY <1>9 DEF Validate, IInv, StageInv
    <3>2. StageInv'
      BY <1>1, <1>4, <2>2, <3>1 DEF StageInv, Proceed, Goto
    <3> QED
      BY <1>3, <2>2, <3>2 DEF Proceed, Goto
  <2> QED
    BY <1>9, <2>1, <2>2 DEF Validate
<1>10. CASE Read
  <2>1. CASE Refuse(503, "MODEL_NOT_READY")
    BY <1>1, <1>2, <2>1, Refused DEF Codes
  <2>2. CASE Refuse(404, "POLICY_NOT_FOUND")
    BY <1>1, <1>2, <2>2, Refused DEF Codes
  <2>3. CASE Answered(200)
    BY <1>1, <1>2, <2>3, Replied
  <2> QED
    BY <1>10, <2>1, <2>2, <2>3 DEF Read
<1> QED
  BY <1>6, <1>7, <1>8, <1>9, <1>10

\* A handler that spends a slot does so for a request that has passed every
\* stage before.
LEMMA SpendKeeps ==
  ASSUME IInv, pc = "handle", HasBody, app = "up", request.route = "demo" => demo,
         Proceed("policies"),
         spent' = spent \cup {IF request.route = "evaluate" THEN "project" ELSE "client"},
         UNCHANGED <<app, demo, request, body, worked>>
  PROVE  IInv'
<1>1. ~Ended /\ GoesOn /\ pc' = "policies"
  BY DEF Ended, GoesOn, Proceed, Goto
<1>2. spent = {} /\ ~worked
  BY <1>1 DEF IInv, WorkInv
<1>3. spent' = {IF request.route = "evaluate" THEN "project" ELSE "client"}
  BY <1>2
<1>4. /\ passed = sent
      /\ request.content = "valid"
      /\ request.route = "evaluate" => request.credentials = "good"
  BY DEF IInv, BodyInv, StageInv
<1>5. Paid'
  BY <1>3, <1>4 DEF Paid, HasBody, body
<1>6. WorkInv'
  BY <1>1, <1>2, <1>3, <1>5 DEF WorkInv, Ended
<1>7. BodyTypes' /\ OtherTypes'
  BY <1>1, <1>3, TypeParts DEF IInv, BodyTypes, OtherTypes, body
<1>8. BodyInv'
  BY <1>1, <1>4 DEF BodyInv, body
<1>9. StageInv'
  BY <1>1, <1>4 DEF StageInv, HasBody
<1> QED
  BY <1>1, <1>6, <1>7, <1>8, <1>9, StepKeeps

LEMMA HandlerKeeps == IInv /\ (Evaluate \/ EvaluateDemo \/ RunPolicies) => IInv'
<1> SUFFICES ASSUME IInv, Evaluate \/ EvaluateDemo \/ RunPolicies PROVE IInv'
  OBVIOUS
<1>1. /\ pc \in {"handle", "policies"}
      /\ ~Ended /\ Unanswered /\ ~worked
      /\ UNCHANGED <<app, demo, request, body>>
  BY DEF Evaluate, EvaluateDemo, RunPolicies, Ended, IInv, ReplyInv, WorkInv
<1>2. ASSUME Ends, UNCHANGED <<spent, worked>> PROVE IInv'
  BY <1>1, <1>2, RefusalKeeps DEF work
<1>3. CASE Evaluate
  <2>1. CASE Refuse(429, "RATE_LIMITED") /\ UNCHANGED spent
    BY <1>1, <1>2, <1>3, <2>1, Refused DEF Codes, Evaluate
  <2>2. CASE Proceed("policies") /\ spent' = spent \cup {"project"}
    <3>1. pc = "handle" /\ request.route = "evaluate" /\ UNCHANGED worked
      BY <1>3 DEF Evaluate
    <3>2. app = "up"
      BY <3>1 DEF IInv, StageInv
    <3> QED
      BY <1>1, <2>2, <3>1, <3>2, SpendKeeps DEF HasBody
  <2> QED
    BY <1>3, <2>1, <2>2 DEF Evaluate
<1>4. CASE EvaluateDemo
  <2>0. pc = "handle" /\ request.route = "demo" /\ UNCHANGED worked
    BY <1>4 DEF EvaluateDemo
  <2>1. CASE Refuse(500, "INTERNAL_ERROR") /\ UNCHANGED spent
    BY <1>1, <1>2, <2>0, <2>1, Refused DEF Codes
  <2>2. CASE Refuse(404, "HTTP_ERROR") /\ UNCHANGED spent
    BY <1>1, <1>2, <2>0, <2>2, Refused DEF Codes
  <2>3. CASE Refuse(429, "RATE_LIMITED") /\ UNCHANGED spent
    BY <1>1, <1>2, <2>0, <2>3, Refused DEF Codes
  <2>4. CASE app = "up" /\ demo /\ Proceed("policies") /\ spent' = spent \cup {"client"}
    BY <1>1, <2>0, <2>4, SpendKeeps DEF HasBody
  <2> QED
    BY <1>4, <2>1, <2>2, <2>3, <2>4 DEF EvaluateDemo
<1>5. CASE RunPolicies
  <2>1. spent # {} /\ UNCHANGED spent
    BY <1>5 DEF RunPolicies, IInv, WorkInv
  <2>2. ASSUME Ends, worked' \in BOOLEAN PROVE IInv'
    BY <1>1, <2>1, <2>2, EndKeeps
  <2>3. CASE Answered(200) /\ worked' = TRUE
    BY <1>1, <2>2, <2>3, Replied
  <2>4. CASE Refuse(404, "POLICY_NOT_FOUND") /\ worked' \in BOOLEAN
    BY <1>1, <2>2, <2>4, Refused DEF Codes
  <2>5. CASE Refuse(504, "INFERENCE_TIMEOUT") /\ worked' = TRUE
    BY <1>1, <2>2, <2>5, Refused DEF Codes
  <2>6. CASE Refuse(500, "INTERNAL_ERROR") /\ worked' = TRUE
    BY <1>1, <2>2, <2>6, Refused DEF Codes
  <2> QED
    BY <1>5, <2>3, <2>4, <2>5, <2>6 DEF RunPolicies
<1> QED
  BY <1>3, <1>4, <1>5

\* The finally block counts the status of the answer, whatever it is.
LEMMA CompleteKeeps == IInv /\ Complete => IInv'
<1> SUFFICES ASSUME IInv, Complete PROVE IInv'
  OBVIOUS
<1>1. pc = "complete" /\ pc' = "done"
  BY DEF Complete, Goto
<1>2. UNCHANGED <<app, demo, request, body, work, answer, errors>>
  BY DEF Complete
<1>3. BodyTypes /\ OtherTypes /\ ReplyOK
  BY TypeParts DEF IInv
<1>4. answer \in Answer /\ CodeCounted /\ requests = <<>>
  BY <1>1 DEF IInv, ReplyInv, Ended
<1>5. answer.status \in Nat
  BY <1>4 DEF Answer
<1>6. requests' = <<answer.status>>
  BY <1>4 DEF Complete
<1>7. ReplyOK'
  BY <1>2, <1>3, <1>5, <1>6 DEF ReplyOK
<1>8. BodyTypes' /\ OtherTypes'
  BY <1>1, <1>2, <1>3 DEF BodyTypes, OtherTypes, body, work
<1>9. TooLong' = TooLong /\ (CodeCounted' <=> CodeCounted)
  BY <1>2 DEF TooLong, CodeCounted
<1>10. ReplyInv'
  BY <1>1, <1>2, <1>4, <1>6, <1>9 DEF IInv, ReplyInv, Ended, body
<1>11. Paid' <=> Paid
  BY <1>2 DEF Paid, body, work
<1>12. BodyInv' /\ StageInv' /\ WorkInv'
  BY <1>1, <1>2, <1>11 DEF IInv, BodyInv, StageInv, WorkInv, Ended, body, work
<1> QED
  BY <1>7, <1>8, <1>10, <1>12, TypeParts, PTL DEF IInv

LEMMA ReturnKeeps == IInv /\ Return => IInv'
<1> SUFFICES ASSUME IInv, Return PROVE IInv'
  OBVIOUS
<1>1. /\ pc' = "idle" /\ request' \in Request
      /\ sent' = 0 /\ buffer' = 0 /\ passed' = None
      /\ spent' = {} /\ worked' = FALSE
      /\ answer' = None /\ errors' = <<>> /\ requests' = <<>>
      /\ UNCHANGED <<app, demo>>
  BY DEF Return, Goto
<1>2. app \in {"up", "bare"} /\ demo \in BOOLEAN
  BY TypeParts DEF IInv, OtherTypes
<1>3. TypeOK'
  <2>1. BodyTypes'
    BY <1>1, PipelineAssumption DEF BodyTypes
  <2>2. OtherTypes'
    BY <1>1, <1>2 DEF OtherTypes
  <2>3. ReplyOK'
    BY <1>1 DEF ReplyOK
  <2> QED
    BY <2>1, <2>2, <2>3, TypeParts, PTL
<1>4. BodyInv' /\ StageInv' /\ WorkInv'
  BY <1>1 DEF BodyInv, StageInv, WorkInv, Ended
<1>5. ReplyInv'
  BY <1>1 DEF ReplyInv, Ended, Unanswered
<1> QED
  BY <1>3, <1>4, <1>5 DEF IInv

-----------------------------------------------------------------------------
(* The theorems                                                               *)

LEMMA Initially == Init => IInv
<1> SUFFICES ASSUME Init PROVE IInv
  OBVIOUS
<1>1. TypeOK
  <2>1. BodyTypes
    BY PipelineAssumption DEF Init, BodyTypes
  <2>2. OtherTypes
    BY DEF Init, OtherTypes
  <2>3. ReplyOK
    BY DEF Init, ReplyOK
  <2> QED
    BY <2>1, <2>2, <2>3, TypeParts
<1>2. BodyInv /\ StageInv /\ WorkInv
  BY DEF Init, BodyInv, StageInv, WorkInv, Ended
<1>3. ReplyInv
  BY DEF Init, ReplyInv, Ended, Unanswered
<1> QED
  BY <1>1, <1>2, <1>3 DEF IInv

LEMMA Stutters == IInv /\ UNCHANGED vars => IInv'
<1> SUFFICES ASSUME IInv, UNCHANGED vars PROVE IInv'
  OBVIOUS
<1>1. UNCHANGED <<app, demo, pc, request, sent, buffer, passed, spent, worked, answer,
                  errors, requests>>
  BY DEF vars, body, work, reply
<1>2. TypeOK'
  BY <1>1 DEF IInv, TypeOK
<1>3. BodyInv' /\ StageInv'
  BY <1>1 DEF IInv, BodyInv, StageInv, HasBody
<1>4. WorkInv'
  BY <1>1 DEF IInv, WorkInv, Ended, Paid
<1>5. ReplyInv'
  BY <1>1 DEF IInv, ReplyInv, Ended, Unanswered, CodeCounted, TooLong
<1> QED
  BY <1>2, <1>3, <1>4, <1>5 DEF IInv

LEMMA Invariance == Spec => []IInv
<1>1. IInv /\ [Next]_vars => IInv'
  <2> SUFFICES ASSUME IInv, Next PROVE IInv'
    BY Stutters
  <2>1. CASE \E more \in BOOLEAN : \E n \in Chunks(more) : Receive(n, more)
    BY <2>1, ReceiveKeeps
  <2> QED
    BY <2>1, CheckLengthKeeps, DisconnectKeeps, RoutingKeeps, HandlerKeeps, CompleteKeeps,
       ReturnKeeps DEF Next
<1> QED
  BY <1>1, Initially, PTL DEF Spec

\* The types, and the bound of the buffer, for every body limit.
THEOREM TypeCorrect == Spec => []TypeOK
<1>1. IInv => TypeOK
  BY DEF IInv
<1> QED
  BY <1>1, Invariance, PTL

\* RequestBodyLimitMiddleware hands the application every byte that was sent or
\* does not call it, and answers 413 only to a body over the limit, however the
\* body is cut into messages.
THEOREM BodyIntactCorrect == Spec => []BodyIntact
<1>1. IInv => BodyIntact
  <2> SUFFICES ASSUME IInv PROVE BodyIntact
    OBVIOUS
  <2>1. answer # None => Ended
    BY DEF IInv, ReplyInv, Unanswered
  <2> QED
    BY <2>1 DEF IInv, BodyInv, ReplyInv, BodyIntact
<1> QED
  BY <1>1, Invariance, PTL

\* Whichever layer ends a request, the middleware and the exception handlers
\* count it once with its status and once under its code.
THEOREM AccountedCorrect == Spec => []Accounted
<1>1. IInv => Accounted
  BY DEF IInv, ReplyInv, Ended, CodeCounted, Accounted
<1> QED
  BY <1>1, Invariance, PTL

\* No slot is spent and no policy runs for a request that evaluate() or
\* evaluate_demo() would not have been called for.
THEOREM WorkIsPaidForCorrect == Spec => []WorkIsPaidFor
<1>1. IInv => WorkIsPaidFor
  BY DEF IInv, WorkInv, Paid, WorkIsPaidFor
<1> QED
  BY <1>1, Invariance, PTL
=============================================================================
