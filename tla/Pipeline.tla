------------------------------ MODULE Pipeline ------------------------------
(***************************************************************************)
(* What surrounds every HTTP request: the request-context middleware and   *)
(* the exception handlers of app/main.py, MetricsMiddleware of             *)
(* app/common/metrics/metrics.py, and the exception classes of             *)
(* app/domain/exceptions/errors.py.                                        *)
(*                                                                         *)
(* From the outside in: the handler of Exception (Starlette puts it        *)
(* outermost), the context middleware, the metrics middleware, the other   *)
(* two handlers, the route.  Starlette's BaseHTTPMiddleware runs a         *)
(* middleware in the task that calls it, and what call_next calls in a new *)
(* one, so requests interleave at every layer and one request has three    *)
(* contexts of the ids.  The route is reduced to its outcome: an answer,   *)
(* or what went wrong (a cause).                                           *)
(***************************************************************************)
EXTENDS Integers, Sequences, FiniteSets

CONSTANTS Requests, None

VARIABLES
  layer,     \* request -> "new", then the layer whose call_next it is in
             \* ("context", "metrics", "route"), "leaving", "left" the
             \* metrics, "sent" the response, or "gone" (cancelled)
  ctx,       \* request -> task -> request_id_ctx and trace_id_ctx there
  cause,     \* request -> what went wrong in the route, or None
  response,  \* request -> the response on its way out, or None
  gauge,     \* app_request_in_progress
  counted    \* app_request_total: request -> the labels it was counted under

vars == <<layer, ctx, cause, response, gauge, counted>>

(* The tasks of a request: the server's, with the handler of Exception and *)
(* the context middleware; the metrics middleware's; the one of the inner  *)
(* handlers and the route.                                                 *)
Tasks == {"server", "metrics", "route"}

-----------------------------------------------------------------------------
(* The exception classes.                                                  *)

Parent ==
  [Exception              |-> "Exception",
   RequestValidationError |-> "Exception",
   TypeError              |-> "Exception",
   DomainError            |-> "Exception",
   InfraError             |-> "DomainError",
   ExternalServiceError   |-> "InfraError",
   ValidationError        |-> "DomainError",
   LLMTimeoutError        |-> "ExternalServiceError",
   LLMBadResponseError    |-> "ExternalServiceError",
   TTSTimeoutError        |-> "ExternalServiceError",
   TTSBadResponseError    |-> "ExternalServiceError",
   SessionStoreError      |-> "InfraError",
   UnauthorizedError      |-> "DomainError",
   ForbiddenError         |-> "DomainError",
   RateLimitExceededError |-> "DomainError"]

IsA(e, class) ==
  class \in {e, Parent[e], Parent[Parent[e]], Parent[Parent[Parent[e]]]}

(* self.error_code                                                         *)
ErrorCode ==
  [DomainError            |-> "DOMAIN_ERROR",
   InfraError             |-> "INFRA_ERROR",
   ExternalServiceError   |-> "EXTERNAL_SERVICE_ERROR",
   ValidationError        |-> "INVALID_ARGUMENT",
   LLMTimeoutError        |-> "LLM_TIMEOUT",
   LLMBadResponseError    |-> "LLM_BAD_RESPONSE",
   TTSTimeoutError        |-> "TTS_TIMEOUT",
   TTSBadResponseError    |-> "TTS_BAD_RESPONSE",
   SessionStoreError      |-> "SESSION_STORE_ERROR",
   UnauthorizedError      |-> "UNAUTHORIZED",
   ForbiddenError         |-> "FORBIDDEN",
   RateLimitExceededError |-> "RATE_LIMIT_EXCEEDED"]

(* What may go wrong, and the exception that leaves the route.             *)
AccessRaises ==
  [missing_header   |-> "UnauthorizedError",
   wrong_scheme     |-> "UnauthorizedError",
   wrong_key        |-> "UnauthorizedError",
   key_not_ascii    |-> "TypeError",          \* secrets.compare_digest
   auth_failures    |-> "RateLimitExceededError",
   over_quota       |-> "RateLimitExceededError",
   limiter_down     |-> "RateLimitExceededError"]

ServiceRaises ==
  [blank_message    |-> "ValidationError",
   empty_reply      |-> "ExternalServiceError",
   store_down       |-> "SessionStoreError",
   llm_timeout      |-> "LLMTimeoutError",
   llm_bad_response |-> "LLMBadResponseError",
   tts_timeout      |-> "TTSTimeoutError",
   tts_bad_response |-> "TTSBadResponseError"]

(* Refused by FastAPI before the route, and anything nobody foresaw.       *)
OtherRaises == [bad_body |-> "RequestValidationError", defect |-> "Exception"]

Causes == DOMAIN AccessRaises \cup DOMAIN ServiceRaises \cup DOMAIN OtherRaises

Raised(x) ==
  IF x \in DOMAIN AccessRaises THEN AccessRaises[x]
  ELSE IF x \in DOMAIN ServiceRaises THEN ServiceRaises[x]
  ELSE OtherRaises[x]

-----------------------------------------------------------------------------
(* The handlers.                                                           *)

(* Only ExternalServiceError is taken for an infrastructure failure.       *)
DomainStatusNarrow(e) ==
  IF IsA(e, "ValidationError") THEN 422
  ELSE IF IsA(e, "UnauthorizedError") THEN 401
  ELSE IF IsA(e, "ForbiddenError") THEN 403
  ELSE IF IsA(e, "RateLimitExceededError") THEN 429
  ELSE IF IsA(e, "ExternalServiceError") THEN 503
  ELSE 400

(* domain_exception_handler: the first isinstance that holds.              *)
DomainStatus(e) ==
  IF IsA(e, "ValidationError") THEN 422
  ELSE IF IsA(e, "UnauthorizedError") THEN 401
  ELSE IF IsA(e, "ForbiddenError") THEN 403
  ELSE IF IsA(e, "RateLimitExceededError") THEN 429
  ELSE IF IsA(e, "InfraError") THEN 503
  ELSE 400

(* A response: its status, the error_code of its body and the ids it names *)
Codes ==
  {ErrorCode[e] : e \in DOMAIN ErrorCode} \cup {"INVALID_ARGUMENT", "INTERNAL_ERROR", None}

Responses == [status : Nat, code : Codes, id : Requests \cup {None}]

(* None is no response: a request without one is told from one with it.    *)
ASSUME NoneAssumption == None \notin Responses

Answer(status, code, id) == [status |-> status, code |-> code, id |-> id]

(* A handler inside the middlewares turns the exception into a response.   *)
Handled(e) == IsA(e, "RequestValidationError") \/ IsA(e, "DomainError")

(* The answer to e, with the ids that the handler finds in its context.    *)
ErrorAnswer(e, id) ==
  IF IsA(e, "RequestValidationError") THEN Answer(422, "INVALID_ARGUMENT", id)
  ELSE IF IsA(e, "DomainError") THEN Answer(DomainStatus(e), ErrorCode[e], id)
  ELSE Answer(500, "INTERNAL_ERROR", id)

-----------------------------------------------------------------------------

Init ==
  /\ layer = [r \in Requests |-> "new"]
  /\ ctx = [r \in Requests |-> [k \in Tasks |-> None]]
  /\ cause = [r \in Requests |-> None]
  /\ response = [r \in Requests |-> None]
  /\ gauge = 0
  /\ counted = [r \in Requests |-> << >>]

Goto(r, l) == layer' = [layer EXCEPT ![r] = l]

(* A new task begins with a copy of the context it is started in.          *)
StartTask(r, new, from) == ctx' = [ctx EXCEPT ![r][new] = ctx[r][from]]

(* request_context_middleware: ids from the headers or new ones.           *)
EnterContext(r) ==
  /\ layer[r] = "new"
  /\ ctx' = [ctx EXCEPT ![r]["server"] = r]
  /\ Goto(r, "context")
  /\ UNCHANGED <<cause, response, gauge, counted>>

(* call_next; MetricsMiddleware.dispatch up to its own call_next.          *)
EnterMetrics(r) ==
  /\ layer[r] = "context"
  /\ StartTask(r, "metrics", "server")
  /\ gauge' = gauge + 1
  /\ Goto(r, "metrics")
  /\ UNCHANGED <<cause, response, counted>>

EnterRoute(r) ==
  /\ layer[r] = "metrics"
  /\ StartTask(r, "route", "metrics")
  /\ Goto(r, "route")
  /\ UNCHANGED <<cause, response, gauge, counted>>

(* A return value, 503 of /ready, or the framework's 404.                  *)
RouteAnswers(r) ==
  /\ layer[r] = "route"
  /\ \E status \in {200, 404, 503} :
       response' = [response EXCEPT ![r] = Answer(status, None, ctx[r]["route"])]
  /\ Goto(r, "leaving")
  /\ UNCHANGED <<ctx, cause, gauge, counted>>

(* The route raises; the inner handlers answer for what they know.         *)
RouteRaises(r, x) ==
  /\ layer[r] = "route"
  /\ cause' = [cause EXCEPT ![r] = x]
  /\ response' = [response EXCEPT ![r] =
                    IF Handled(Raised(x)) THEN ErrorAnswer(Raised(x), ctx[r]["route"])
                    ELSE None]
  /\ Goto(r, "leaving")
  /\ UNCHANGED <<ctx, gauge, counted>>

(* status_code is set to 200 instead of 500 before the call.               *)
StatusLabelOptimistic(r) ==
  IF response[r] = None THEN 200 ELSE response[r].status

StatusLabel(r) == IF response[r] = None THEN 500 ELSE response[r].status

(* Without finally, an exception skips the gauge and the counter.          *)
LeaveMetricsUnguarded(r) ==
  /\ layer[r] = "leaving"
  /\ IF response[r] = None THEN UNCHANGED <<gauge, counted>>
     ELSE /\ gauge' = gauge - 1
          /\ counted' = [counted EXCEPT ![r] = Append(@, StatusLabel(r))]
  /\ Goto(r, "left")
  /\ UNCHANGED <<ctx, cause, response>>

(* The finally of MetricsMiddleware.dispatch.                              *)
LeaveMetrics(r) ==
  /\ layer[r] = "leaving"
  /\ gauge' = gauge - 1
  /\ counted' = [counted EXCEPT ![r] = Append(@, StatusLabel(r))]
  /\ Goto(r, "left")
  /\ UNCHANGED <<ctx, cause, response>>

(* The context middleware resets the ids in a finally of its own.          *)
SendAfterReset(r) ==
  /\ layer[r] = "left"
  /\ response' = [response EXCEPT ![r] =
                    IF @ = None THEN ErrorAnswer(Raised(cause[r]), None) ELSE @]
  /\ Goto(r, "sent")
  /\ UNCHANGED <<ctx, cause, gauge, counted>>

(* The context middleware sends the response on; an exception passes it    *)
(* and unhandled_exception_handler answers, in the server's task.          *)
Send(r) ==
  /\ layer[r] = "left"
  /\ response' = [response EXCEPT ![r] =
                    IF @ = None THEN ErrorAnswer(Raised(cause[r]), ctx[r]["server"]) ELSE @]
  /\ Goto(r, "sent")
  /\ UNCHANGED <<ctx, cause, gauge, counted>>

(* The task is cancelled at an await: finally runs, nothing is answered.   *)
Cancel(r) ==
  /\ layer[r] \in {"context", "metrics", "route"}
  /\ IF layer[r] = "context" THEN UNCHANGED <<gauge, counted>>
     ELSE /\ gauge' = gauge - 1
          /\ counted' = [counted EXCEPT ![r] = Append(@, StatusLabel(r))]
  /\ Goto(r, "gone")
  /\ UNCHANGED <<ctx, cause, response>>

Next ==
  \E r \in Requests :
    \/ EnterContext(r) \/ EnterMetrics(r) \/ EnterRoute(r)
    \/ RouteAnswers(r) \/ (\E x \in Causes : RouteRaises(r, x))
    \/ LeaveMetrics(r) \/ Send(r) \/ Cancel(r)

Spec == Init /\ [][Next]_vars

-----------------------------------------------------------------------------
(* Properties.                                                             *)

Sent == {r \in Requests : layer[r] = "sent"}

Inside == {r \in Requests : layer[r] \in {"metrics", "route", "leaving"}}

(* app_request_in_progress is the number of requests inside the metrics    *)
(* middleware, however they leave it: it returns to 0 when they are gone.  *)
InProgressBalance == gauge = Cardinality(Inside)

(* app_request_total counts each answered request once, under the status   *)
(* its client got, although the metrics middleware has finished before an  *)
(* unhandled exception is turned into a response.                          *)
CountedAsAnswered == \A r \in Sent : counted[r] = <<response[r].status>>

(* Answers carry the ids of their own request, whatever overlaps it and in *)
(* whichever of its tasks they are made: the route and the inner handlers  *)
(* read them two tasks away from where they were set, and the handler of   *)
(* Exception outside the middleware that set them.                         *)
OwnIds == \A r \in Sent : response[r].id = r

CallersFault ==
  {"bad_body", "blank_message", "missing_header", "wrong_scheme", "wrong_key",
   "key_not_ascii", "auth_failures", "over_quota"}

(* The comment of domain_exception_handler: a failing database must not be *)
(* reported as the client's error.  5xx are exactly the answers to what    *)
(* the client did not cause, with two exceptions that auth.py makes: a     *)
(* rate limiter that is down and fails closed is answered 429, and a key   *)
(* that is not ASCII 500.                                                  *)
BlameIsRight ==
  \A r \in Sent : cause[r] # None =>
    (response[r].status >= 500 <=>
       \/ cause[r] \notin CallersFault \cup {"limiter_down"}
       \/ cause[r] = "key_not_ascii")

=============================================================================
