-------------------------- MODULE RequestPipeline ---------------------------
(* One HTTP request on its way through the application (main.py): the request  *)
(* middleware, the body limit (api/middleware.py), routing and body parsing by *)
(* FastAPI, the authentication dependency (api/auth.py) and the handlers of    *)
(* api/routes, with the exception handlers that turn errors into responses and *)
(* the metrics that count them.                                                *)
EXTENDS Integers, Sequences

CONSTANTS
  MaxBytes, \* max_request_body_bytes
  MaxChunk, \* bound: the bytes of one http.request message
  None

Codes ==
  {"INVALID_REQUEST", "HTTP_ERROR", "AUTHENTICATION_FAILED", "DATABASE_UNAVAILABLE",
   "MODEL_NOT_READY", "RATE_LIMITED", "POLICY_NOT_FOUND", "INFERENCE_TIMEOUT",
   "INTERNAL_ERROR"}

ASSUME PipelineAssumption ==
  /\ MaxBytes \in Nat
  /\ MaxChunk \in Nat
  /\ None \notin Int \cup Codes

VARIABLES
  app,      \* "up", or "bare": served without its lifespan, as some tests do
  demo,     \* demo_enabled
  pc,
  request,  \* what the client sends
  sent,     \* the bytes of the body the client has sent
  buffer,   \* the bytes the body limit holds
  passed,   \* the bytes of the body the application was given, None before that
  spent,    \* the limiters that granted the request a slot
  worked,   \* the policies have seen the text
  answer,   \* the response
  errors,   \* ERRORS_TOTAL: the codes the request has counted
  requests  \* REQUESTS_TOTAL: the statuses the request has counted

body  == <<sent, buffer, passed>>
work  == <<spent, worked>>
reply == <<answer, errors, requests>>
vars  == <<app, demo, pc, request, body, work, reply>>

Routes == {"evaluate", "demo", "policy", "ready", "unmatched"}

\* Content-Length, None for a body of unannounced length; content is what the
\* parser and the schema will say, credentials what the authenticator will.
Request ==
  [route : Routes,
   length : 0 .. MaxBytes + 1 \cup {None},
   content : {"undecodable", "malformed", "invalid", "valid"},
   credentials : {"good", "bad", "unavailable"}]

TooLong == request.length # None /\ request.length > MaxBytes

HasBody == request.route \in {"evaluate", "demo"}

Answer == [status : Nat, code : Codes \cup {None}]

Goto(label) == pc' = label

\* An exception handler counts the code and answers with it.
Refuse(status, code) ==
  /\ answer' = [status |-> status, code |-> code]
  /\ errors' = Append(errors, code)
  /\ Goto("complete")
  /\ UNCHANGED requests

\* A response without a code: a success, or an error of Starlette's own.
Answered(status) ==
  /\ answer' = [status |-> status, code |-> None]
  /\ Goto("complete")
  /\ UNCHANGED <<errors, requests>>

Proceed(label) == Goto(label) /\ UNCHANGED reply

Init ==
  /\ app \in {"up", "bare"}
  /\ demo \in BOOLEAN
  /\ pc = "idle"
  /\ request \in Request
  /\ sent = 0
  /\ buffer = 0
  /\ passed = None
  /\ spent = {}
  /\ worked = FALSE
  /\ answer = None
  /\ errors = <<>>
  /\ requests = <<>>

-----------------------------------------------------------------------------
(* RequestBodyLimitMiddleware                                                 *)

\* Mutant: the body limit answers past the exception handlers and does not count.
CheckLengthUncounted ==
  /\ pc = "idle"
  /\ \/ /\ TooLong
        /\ answer' = [status |-> 413, code |-> "INVALID_REQUEST"]
        /\ Goto("complete")
        /\ UNCHANGED <<errors, requests>>
     \/ /\ ~TooLong
        /\ Proceed("receive")
  /\ UNCHANGED <<app, demo, request, body, work>>

\* The announced length alone can refuse the request.
CheckLength ==
  /\ pc = "idle"
  /\ \/ /\ TooLong
        /\ Refuse(413, "INVALID_REQUEST")
     \/ /\ ~TooLong
        /\ Proceed("receive")
  /\ UNCHANGED <<app, demo, request, body, work>>

\* The messages a client can send: the server ends a body of announced length
\* when that many bytes have come, and one without when the client says so.
Chunks(more) ==
  IF request.length = None THEN 0 .. MaxChunk
  ELSE {n \in 0 .. MaxChunk : IF more THEN sent + n < request.length
                                      ELSE sent + n = request.length}

\* Mutant: the buffer is compared with the limit after it has grown.
ReceiveThenCompare(n, more) ==
  /\ pc = "receive"
  /\ sent' = sent + n
  /\ buffer' = buffer + n
  /\ \/ /\ buffer > MaxBytes
        /\ Refuse(413, "INVALID_REQUEST")
        /\ UNCHANGED passed
     \/ /\ buffer <= MaxBytes /\ more
        /\ Proceed("receive")
        /\ UNCHANGED passed
     \/ /\ buffer <= MaxBytes /\ ~more
        /\ passed' = buffer'
        /\ Proceed("route")
  /\ UNCHANGED <<app, demo, request, work>>

\* Mutant: the last message ends the loop before it is buffered.
ReceiveAllButLast(n, more) ==
  /\ pc = "receive"
  /\ sent' = sent + n
  /\ \/ /\ buffer + n > MaxBytes
        /\ Refuse(413, "INVALID_REQUEST")
        /\ UNCHANGED <<buffer, passed>>
     \/ /\ buffer + n <= MaxBytes
        /\ buffer' = IF more THEN buffer + n ELSE buffer
        /\ IF more THEN Proceed("receive") /\ UNCHANGED passed
                   ELSE Proceed("route") /\ passed' = buffer
  /\ UNCHANGED <<app, demo, request, work>>

\* A chunk that does not fit is refused before it is buffered; after the last the
\* application is called and reads the whole body as one message.
Receive(n, more) ==
  /\ pc = "receive"
  /\ sent' = sent + n
  /\ \/ /\ buffer + n > MaxBytes
        /\ Refuse(413, "INVALID_REQUEST")
        /\ UNCHANGED <<buffer, passed>>
     \/ /\ buffer + n <= MaxBytes
        /\ buffer' = buffer + n
        /\ IF more THEN Proceed("receive") /\ UNCHANGED passed
                   ELSE Proceed("route") /\ passed' = buffer'
  /\ UNCHANGED <<app, demo, request, work>>

\* The client goes away: the body limit returns without a response, which the
\* request middleware takes for an internal error.
Disconnect ==
  /\ pc = "receive"
  /\ Refuse(500, "INTERNAL_ERROR")
  /\ UNCHANGED <<app, demo, request, body, work>>

-----------------------------------------------------------------------------
(* FastAPI: routing, parsing, dependencies, validation, in this order         *)

\* Starlette's 404 is not the HTTPException main.py has a handler for.
Route ==
  /\ pc = "route"
  /\ \/ request.route = "unmatched" /\ Answered(404)
     \/ HasBody /\ Proceed("parse")
     \/ request.route \in {"policy", "ready"} /\ Proceed("handle")
  /\ UNCHANGED <<app, demo, request, body, work>>

Parse ==
  /\ pc = "parse"
  /\ \/ request.content = "undecodable" /\ Refuse(400, "HTTP_ERROR")
     \/ request.content = "malformed" /\ Refuse(422, "INVALID_REQUEST")
     \/ /\ request.content \in {"invalid", "valid"}
        /\ Proceed(IF request.route = "evaluate" THEN "authenticate" ELSE "validate")
  /\ UNCHANGED <<app, demo, request, body, work>>

\* get_authenticated_project(), the dependency of evaluate().
Authenticate ==
  /\ pc = "authenticate"
  /\ \/ app = "bare" /\ Refuse(503, "MODEL_NOT_READY")
     \/ /\ app = "up"
        /\ \/ request.credentials = "bad" /\ Refuse(401, "AUTHENTICATION_FAILED")
           \/ request.credentials = "unavailable" /\ Refuse(503, "DATABASE_UNAVAILABLE")
           \/ request.credentials = "good" /\ Proceed("validate")
  /\ UNCHANGED <<app, demo, request, body, work>>

\* Mutant: the body is validated only by the handler's own checks.
ValidateNothing ==
  /\ pc = "validate"
  /\ Proceed("handle")
  /\ UNCHANGED <<app, demo, request, body, work>>

Validate ==
  /\ pc = "validate"
  /\ \/ request.content = "invalid" /\ Refuse(422, "INVALID_REQUEST")
     \/ request.content = "valid" /\ Proceed("handle")
  /\ UNCHANGED <<app, demo, request, body, work>>

-----------------------------------------------------------------------------
(* Handlers                                                                   *)

\* /ready, and a policy of the catalog.
Read ==
  /\ pc = "handle"
  /\ request.route \in {"policy", "ready"}
  /\ \/ app = "bare" /\ Refuse(503, "MODEL_NOT_READY")
     \/ app = "up" /\ Answered(200)
     \/ app = "up" /\ request.route = "policy" /\ Refuse(404, "POLICY_NOT_FOUND")
  /\ UNCHANGED <<app, demo, request, body, work>>

\* evaluate() behind its limiter.  Without the lifespan the dependency has
\* refused the request before.
Evaluate ==
  /\ pc = "handle"
  /\ request.route = "evaluate"
  /\ \/ Refuse(429, "RATE_LIMITED") /\ UNCHANGED spent
     \/ Proceed("policies") /\ spent' = spent \cup {"project"}
  /\ UNCHANGED <<app, demo, request, body, worked>>

\* evaluate_demo(): without the lifespan there are no settings to read.
EvaluateDemo ==
  /\ pc = "handle"
  /\ request.route = "demo"
  /\ \/ app = "bare" /\ Refuse(500, "INTERNAL_ERROR") /\ UNCHANGED spent
     \/ app = "up" /\ ~demo /\ Refuse(404, "HTTP_ERROR") /\ UNCHANGED spent
     \/ app = "up" /\ demo /\ Refuse(429, "RATE_LIMITED") /\ UNCHANGED spent
     \/ app = "up" /\ demo /\ Proceed("policies") /\ spent' = spent \cup {"client"}
  /\ UNCHANGED <<app, demo, request, body, worked>>

\* PolicyRegistry.evaluate(): a verdict, or an error before or after policies of
\* the request have run.  The demo names registered policies only.
RunPolicies ==
  /\ pc = "policies"
  /\ \/ Answered(200) /\ worked' = TRUE
     \/ /\ request.route = "evaluate"
        /\ Refuse(404, "POLICY_NOT_FOUND")
        /\ worked' \in BOOLEAN
     \/ Refuse(504, "INFERENCE_TIMEOUT") /\ worked' = TRUE
     \/ Refuse(500, "INTERNAL_ERROR") /\ worked' = TRUE
  /\ UNCHANGED <<app, demo, request, body, spent>>

\* The finally block of the request middleware.
Complete ==
  /\ pc = "complete"
  /\ requests' = Append(requests, answer.status)
  /\ Goto("done")
  /\ UNCHANGED <<app, demo, request, body, work, answer, errors>>

\* The next request.
Return ==
  /\ pc = "done"
  /\ Goto("idle")
  /\ request' \in Request
  /\ sent' = 0
  /\ buffer' = 0
  /\ passed' = None
  /\ spent' = {}
  /\ worked' = FALSE
  /\ answer' = None
  /\ errors' = <<>>
  /\ requests' = <<>>
  /\ UNCHANGED <<app, demo>>

Next ==
  \/ CheckLength
  \/ \E more \in BOOLEAN : \E n \in Chunks(more) : Receive(n, more)
  \/ Disconnect
  \/ Route
  \/ Parse
  \/ Authenticate
  \/ Validate
  \/ Read
  \/ Evaluate
  \/ EvaluateDemo
  \/ RunPolicies
  \/ Complete
  \/ Return

Spec == Init /\ [][Next]_vars

-----------------------------------------------------------------------------
(* Properties                                                                 *)

\* Types; the buffer never holds more than the limit.
TypeOK ==
  /\ app \in {"up", "bare"}
  /\ demo \in BOOLEAN
  /\ pc \in {"idle", "receive", "route", "parse", "authenticate", "validate", "handle",
            "policies", "complete", "done"}
  /\ request \in Request
  /\ sent \in Nat
  /\ buffer \in 0 .. MaxBytes
  /\ passed \in 0 .. MaxBytes \cup {None}
  /\ spent \subseteq {"project", "client"}
  /\ worked \in BOOLEAN
  /\ answer \in Answer \cup {None}
  /\ errors \in Seq(Codes)
  /\ requests \in Seq(Nat)

\* However a body is cut into messages, with or without an announced length: the
\* application is given every byte the client sent or is not called, and 413 is
\* for bodies over the limit only.
BodyIntact ==
  /\ passed # None => passed = sent
  /\ answer # None /\ answer.status = 413
       => sent > MaxBytes \/ TooLong

\* Whichever layer ends a request, the body limit, FastAPI, a dependency, a
\* handler, the policies or an exception nobody expected: it is counted once with
\* the status of its response, and once under the code of its response, if any.
Accounted ==
  pc = "done" => /\ requests = <<answer.status>>
                 /\ errors = IF answer.code = None THEN <<>> ELSE <<answer.code>>

\* Policies run, and a slot of a limiter is spent, only for a request that has
\* passed everything before: its whole body received and valid, and its key
\* accepted, or the demo enabled.
WorkIsPaidFor ==
  /\ worked => spent # {}
  /\ spent # {} =>
       /\ app = "up"
       /\ passed = sent /\ request.content = "valid"
       /\ \/ request.route = "evaluate" /\ request.credentials = "good" /\ spent = {"project"}
          \/ request.route = "demo" /\ demo /\ spent = {"client"}

\* docs/architecture/inference-path.md: "FastAPI errors use stable structured
\* responses with the request ID": every error response has a code.
ErrorsAreStructured ==
  pc = "done" /\ answer.status >= 400 => answer.code # None
=============================================================================
