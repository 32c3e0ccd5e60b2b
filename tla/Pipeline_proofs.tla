-------------------------- MODULE Pipeline_proofs --------------------------
(***************************************************************************)
(* Proofs about Pipeline, for any set of requests, finite or not.          *)
(*                                                                         *)
(* PipelineInv says for every layer what a request in it has been given    *)
(* and what it still owes.  Requests do not share anything but the gauge,  *)
(* so a step of one is checked against the others only there: the set of   *)
(* requests inside the metrics middleware gains or loses one element.      *)
(***************************************************************************)
EXTENDS Pipeline, FiniteSetTheorems, TLAPS

-----------------------------------------------------------------------------
(* The inductive invariant behind the properties of Pipeline.              *)

Typed ==
  /\ layer \in [Requests -> {"new", "context", "metrics", "route", "leaving",
                              "left", "sent", "gone"}]
  /\ ctx \in [Requests -> [Tasks -> Requests \cup {None}]]
  /\ cause \in [Requests -> Causes \cup {None}]
  /\ response \in [Requests -> Responses \cup {None}]
  /\ counted \in [Requests -> Seq(Nat)]
  /\ IsFiniteSet(Inside)

(* What is answered as the server's failure.                               *)
ServersFault(x) == x \notin CallersFault \cup {"limiter_down"} \/ x = "key_not_ascii"

(* What no inner handler knows.                                            *)
Unhandled == {"defect", "key_not_ascii"}

(* A response names its request and blames as auth.py and main.py do.      *)
Right(r) ==
  /\ response[r].id = r
  /\ cause[r] # None => (response[r].status >= 500 <=> ServersFault(cause[r]))

(* What each layer owes: the ids in each task that has been started, and   *)
(* in the server's to the end; no count before the metrics are left and    *)
(* one after it; and on the way out a right response or an exception that  *)
(* no inner handler knows.                                                 *)
RequestInv(r) ==
  /\ layer[r] # "new" => ctx[r]["server"] = r
  /\ layer[r] \in {"metrics", "route"} => ctx[r]["metrics"] = r
  /\ layer[r] = "route" => ctx[r]["route"] = r
  /\ layer[r] \in {"new", "context", "metrics", "route", "leaving"} => counted[r] = << >>
  /\ layer[r] \in {"new", "context", "metrics", "route"} =>
       response[r] = None /\ cause[r] = None
  /\ layer[r] \in {"leaving", "left"} /\ response[r] = None => cause[r] \in Unhandled
  /\ layer[r] \in {"leaving", "left"} /\ response[r] # None => Right(r)
  /\ layer[r] \in {"left", "sent"} => counted[r] = <<StatusLabel(r)>>
  /\ layer[r] = "sent" => response[r] # None /\ Right(r)

PipelineInv == Typed /\ InProgressBalance /\ \A r \in Requests : RequestInv(r)

-----------------------------------------------------------------------------
(* The exception handlers.                                                 *)

(* The exception that each cause raises.                                   *)
LEMMA RaisedClass ==
  ASSUME NEW x \in Causes
  PROVE  \/ /\ x \in {"missing_header", "wrong_scheme", "wrong_key"}
            /\ Raised(x) = "UnauthorizedError"
         \/ /\ x \in {"auth_failures", "over_quota", "limiter_down"}
            /\ Raised(x) = "RateLimitExceededError"
         \/ x = "blank_message" /\ Raised(x) = "ValidationError"
         \/ /\ x \in {"empty_reply", "store_down", "llm_timeout", "llm_bad_response",
                       "tts_timeout", "tts_bad_response"}
            /\ Raised(x) \in {"ExternalServiceError", "SessionStoreError",
                 "LLMTimeoutError", "LLMBadResponseError", "TTSTimeoutError",
                 "TTSBadResponseError"}
         \/ x = "bad_body" /\ Raised(x) = "RequestValidationError"
         \/ x = "defect" /\ Raised(x) = "Exception"
         \/ x = "key_not_ascii" /\ Raised(x) = "TypeError"
BY DEF Causes, Raised, AccessRaises, ServiceRaises, OtherRaises

(* The parents of the classes that are raised.                             *)
LEMMA Parents ==
  /\ Parent["Exception"] = "Exception" /\ Parent["TypeError"] = "Exception"
  /\ Parent["DomainError"] = "Exception" /\ Parent["InfraError"] = "DomainError"
  /\ \A e \in {"UnauthorizedError", "RateLimitExceededError", "ValidationError"} :
       Parent[e] = "DomainError"
  /\ \A e \in {"ExternalServiceError", "SessionStoreError"} : Parent[e] = "InfraError"
  /\ \A e \in {"LLMTimeoutError", "LLMBadResponseError", "TTSTimeoutError",
               "TTSBadResponseError"} : Parent[e] = "ExternalServiceError"
BY DEF Parent

(* What domain_exception_handler makes of them.                            *)
LEMMA DomainStatusTable ==
  /\ DomainStatus("UnauthorizedError") = 401
  /\ DomainStatus("RateLimitExceededError") = 429
  /\ DomainStatus("ValidationError") = 422
  /\ \A e \in {"ExternalServiceError", "SessionStoreError", "LLMTimeoutError",
               "LLMBadResponseError", "TTSTimeoutError", "TTSBadResponseError"} :
       DomainStatus(e) = 503
<1> USE DEF DomainStatus, IsA
<1>1. DomainStatus("UnauthorizedError") = 401
  BY Parents
<1>2. DomainStatus("RateLimitExceededError") = 429
  BY Parents
<1>3. DomainStatus("ValidationError") = 422
  BY Parents
<1>4. ASSUME NEW e \in {"ExternalServiceError", "SessionStoreError"}
      PROVE  DomainStatus(e) = 503
  <2>1. Parent[e] = "InfraError" /\ Parent["InfraError"] = "DomainError"
        /\ Parent["DomainError"] = "Exception"
    BY <1>4, Parents
  <2> QED BY <1>4, <2>1
<1>5. ASSUME NEW e \in {"LLMTimeoutError", "LLMBadResponseError", "TTSTimeoutError",
               "TTSBadResponseError"}
      PROVE  DomainStatus(e) = 503
  <2>1. Parent[e] = "ExternalServiceError" /\ Parent["ExternalServiceError"] = "InfraError"
        /\ Parent["InfraError"] = "DomainError"
    BY <1>5, Parents
  <2> QED BY <1>5, <2>1
<1> HIDE DEF DomainStatus, IsA
<1> QED BY <1>1, <1>2, <1>3, <1>4, <1>5

(* The class an exception is handled as, and the code of its body.         *)
LEMMA HandlerTable ==
  /\ IsA("RequestValidationError", "RequestValidationError")
  /\ \A e \in {"Exception", "TypeError"} :
       ~ IsA(e, "RequestValidationError") /\ ~ IsA(e, "DomainError")
  /\ \A e \in {"UnauthorizedError", "RateLimitExceededError", "ValidationError",
               "ExternalServiceError", "SessionStoreError", "LLMTimeoutError",
               "LLMBadResponseError", "TTSTimeoutError", "TTSBadResponseError"} :
       /\ ~ IsA(e, "RequestValidationError") /\ IsA(e, "DomainError")
       /\ ErrorCode[e] \in Codes
<1>1. IsA("RequestValidationError", "RequestValidationError")
  BY DEF IsA
<1>2. ASSUME NEW e \in {"Exception", "TypeError"}
      PROVE  ~ IsA(e, "RequestValidationError") /\ ~ IsA(e, "DomainError")
  BY <1>2, Parents DEF IsA
<1>3. ASSUME NEW e \in {"UnauthorizedError", "RateLimitExceededError",
               "ValidationError", "ExternalServiceError", "SessionStoreError",
               "LLMTimeoutError", "LLMBadResponseError", "TTSTimeoutError",
               "TTSBadResponseError"}
      PROVE  /\ ~ IsA(e, "RequestValidationError") /\ IsA(e, "DomainError")
             /\ ErrorCode[e] \in Codes
  <2>1. ~ IsA(e, "RequestValidationError") /\ IsA(e, "DomainError")
    <3>1. \/ Parent[e] = "DomainError"
          \/ Parent[e] = "InfraError" /\ Parent[Parent[e]] = "DomainError"
          \/ /\ Parent[e] = "ExternalServiceError"
             /\ Parent[Parent[e]] = "InfraError" /\ Parent[Parent[Parent[e]]] = "DomainError"
      BY <1>3, Parents
    <3>2. Parent["DomainError"] = "Exception" /\ Parent["Exception"] = "Exception"
      BY Parents
    <3> QED BY <1>3, <3>1, <3>2 DEF IsA
  <2>2. ErrorCode[e] \in Codes
    BY <1>3 DEF ErrorCode, Codes
  <2> QED BY <2>1, <2>2
<1> QED BY <1>1, <1>2, <1>3

(* An inner handler knows every exception that this program defines.       *)
LEMMA HandledCauses ==
  ASSUME NEW x \in Causes
  PROVE  Handled(Raised(x)) <=> x \notin Unhandled
<1> USE DEF Unhandled
<1>1. CASE x \in Unhandled
  BY <1>1, RaisedClass, HandlerTable DEF Handled
<1>2. CASE x = "bad_body"
  BY <1>2, RaisedClass, HandlerTable DEF Handled
<1>3. CASE x \notin Unhandled \cup {"bad_body"}
  <2>1. Raised(x) \in {"UnauthorizedError", "RateLimitExceededError", "ValidationError",
                       "ExternalServiceError", "SessionStoreError", "LLMTimeoutError",
                       "LLMBadResponseError", "TTSTimeoutError", "TTSBadResponseError"}
    BY <1>3, RaisedClass
  <2> QED BY <1>3, <2>1, HandlerTable DEF Handled
<1> QED BY <1>1, <1>2, <1>3

(* The status blames the caller for what the caller did, and nobody else,  *)
(* except when the rate limiter is down or the key is not ASCII.           *)
LEMMA AnswerBlames ==
  ASSUME NEW r \in Requests, NEW x \in Causes
  PROVE  /\ ErrorAnswer(Raised(x), r) \in Responses
         /\ ErrorAnswer(Raised(x), r).id = r
         /\ ErrorAnswer(Raised(x), r).status >= 500 <=> ServersFault(x)
         /\ x \in Unhandled => ErrorAnswer(Raised(x), r).status = 500
<1> DEFINE e == Raised(x)
           a == ErrorAnswer(e, r)
<1> USE DEF Answer, ServersFault, Unhandled
<1>1. CASE x = "bad_body"
  <2>1. a = Answer(422, "INVALID_ARGUMENT", r)
    BY <1>1, RaisedClass, HandlerTable DEF ErrorAnswer
  <2> QED BY <1>1, <2>1 DEF CallersFault, Responses, Codes
<1>2. CASE x \in Unhandled
  <2>1. a = Answer(500, "INTERNAL_ERROR", r)
    BY <1>2, RaisedClass, HandlerTable DEF ErrorAnswer
  <2> QED BY <1>2, <2>1 DEF CallersFault, Responses, Codes
<1>3. CASE x \notin Unhandled \cup {"bad_body"}
  <2>1. a = Answer(DomainStatus(e), ErrorCode[e], r) /\ ErrorCode[e] \in Codes
    BY <1>3, RaisedClass, HandlerTable DEF ErrorAnswer
  <2>2. /\ DomainStatus(e) \in {401, 422, 429, 503}
        /\ DomainStatus(e) = 503 <=> ServersFault(x)
    BY <1>3, RaisedClass, DomainStatusTable DEF CallersFault
  <2>3. a.status = DomainStatus(e) /\ a.id = r /\ a \in Responses
    BY <2>1, <2>2 DEF Responses
  <2> HIDE DEF e, a, ServersFault
  <2>4. a.status >= 500 <=> ServersFault(x)
    BY <2>2, <2>3
  <2> QED BY <1>3, <2>3, <2>4 DEF e, a
<1> QED BY <1>1, <1>2, <1>3

-----------------------------------------------------------------------------
(* The steps.                                                              *)

(* A request whose own state stays as it is keeps its part.                *)
LEMMA OtherRequest ==
  ASSUME NEW q \in Requests, RequestInv(q),
         layer'[q] = layer[q], ctx'[q] = ctx[q], cause'[q] = cause[q],
         response'[q] = response[q], counted'[q] = counted[q]
  PROVE  RequestInv(q)'
BY DEF RequestInv, Right, StatusLabel

(* The gauge follows the set of requests inside the metrics middleware:    *)
(* by how many a request's move changes it.                                *)
Moved(r, l) == (IF l \in {"metrics", "route", "leaving"} THEN 1 ELSE 0)
                 - (IF r \in Inside THEN 1 ELSE 0)

(* The gauge follows the set of requests inside.                           *)
LEMMA GaugeFollows ==
  ASSUME NEW r \in Requests, NEW l, Typed, InProgressBalance, Goto(r, l),
         gauge' = gauge + Moved(r, l)
  PROVE  InProgressBalance' /\ IsFiniteSet(Inside')
<1> DEFINE In == {"metrics", "route", "leaving"}
<1>0. IsFiniteSet(Inside) /\ Cardinality(Inside) \in Nat
  BY FS_CardinalityType DEF Typed
<1>1. \A q \in Requests : layer'[q] = IF q = r THEN l ELSE layer[q]
  BY DEF Typed, Goto
<1>2. CASE l \in In /\ r \notin Inside
  <2>1. Inside' = Inside \cup {r}
    BY <1>1, <1>2 DEF Inside
  <2>2. IsFiniteSet(Inside') /\ Cardinality(Inside') = Cardinality(Inside) + 1
    BY <1>0, <1>2, <2>1, FS_AddElement
  <2>3. Moved(r, l) = 1
    BY <1>2 DEF Moved
  <2> QED BY <1>0, <2>2, <2>3 DEF InProgressBalance
<1>3. CASE l \notin In /\ r \in Inside
  <2>1. Inside' = Inside \ {r}
    BY <1>1, <1>3 DEF Inside
  <2>2. IsFiniteSet(Inside') /\ Cardinality(Inside') = Cardinality(Inside) - 1
    BY <1>0, <1>3, <2>1, FS_RemoveElement
  <2>3. Moved(r, l) = -1
    BY <1>3 DEF Moved
  <2> QED BY <1>0, <2>2, <2>3 DEF InProgressBalance
<1>4. CASE l \in In <=> r \in Inside
  <2>1. Inside' = Inside
    BY <1>1, <1>4 DEF Inside
  <2>2. Moved(r, l) = 0
    BY <1>4 DEF Moved
  <2> QED BY <1>0, <2>1, <2>2 DEF InProgressBalance
<1> QED BY <1>2, <1>3, <1>4

(* A step of request r keeps the invariant if it moves r to a layer, keeps *)
(* the types and the gauge, touches nothing of the others and leaves r     *)
(* what that layer asks for.                                               *)
LEMMA OneMoves ==
  ASSUME PipelineInv, NEW r \in Requests,
         NEW l \in {"context", "metrics", "route", "leaving", "left", "sent", "gone"},
         Goto(r, l), gauge' = gauge + Moved(r, l),
         NEW c \in [Tasks -> Requests \cup {None}], ctx' = [ctx EXCEPT ![r] = c],
         NEW x \in Causes \cup {None}, cause' = [cause EXCEPT ![r] = x],
         NEW a \in Responses \cup {None}, response' = [response EXCEPT ![r] = a],
         NEW n \in Seq(Nat), counted' = [counted EXCEPT ![r] = n],
         RequestInv(r)'
  PROVE  PipelineInv'
<1>1. Typed /\ InProgressBalance /\ \A q \in Requests : RequestInv(q)
  BY DEF PipelineInv
<1>2. InProgressBalance' /\ IsFiniteSet(Inside')
  BY <1>1, GaugeFollows
<1>3. Typed'
  BY <1>1, <1>2 DEF Typed, Goto
<1>4. ASSUME NEW q \in Requests PROVE RequestInv(q)'
  <2>1. CASE q = r
    BY <2>1
  <2>2. CASE q # r
    <3>1. /\ layer'[q] = layer[q] /\ ctx'[q] = ctx[q] /\ cause'[q] = cause[q]
          /\ response'[q] = response[q] /\ counted'[q] = counted[q]
      BY <1>1, <2>2 DEF Typed, Goto
    <3> QED BY <1>1, <3>1, OtherRequest
  <2> QED BY <2>1, <2>2
<1> QED BY <1>2, <1>3, <1>4 DEF PipelineInv

(* No request has entered anything.                                        *)
LEMMA InitInv == Init => PipelineInv
<1> SUFFICES ASSUME Init PROVE PipelineInv
  OBVIOUS
<1>1. Inside = {}
  BY DEF Init, Inside
<1>2. IsFiniteSet(Inside) /\ Cardinality(Inside) = 0
  BY <1>1, FS_EmptySet
<1>3. Typed /\ InProgressBalance
  BY <1>2 DEF Init, Typed, InProgressBalance
<1>4. \A r \in Requests : RequestInv(r)
  BY DEF Init, RequestInv
<1> QED BY <1>3, <1>4 DEF PipelineInv

(* Every step of every layer keeps the invariant.                          *)
LEMMA NextInv == PipelineInv /\ [Next]_vars => PipelineInv'
<1> SUFFICES ASSUME PipelineInv, [Next]_vars PROVE PipelineInv'
  OBVIOUS
<1>0. /\ Typed /\ \A r \in Requests : RequestInv(r)
      /\ gauge \in Nat
  BY FS_CardinalityType DEF PipelineInv, Typed, InProgressBalance
<1>type. ASSUME NEW r \in Requests
      PROVE  /\ ctx[r] \in [Tasks -> Requests \cup {None}] /\ cause[r] \in Causes \cup {None}
             /\ response[r] \in Responses \cup {None} /\ counted[r] \in Seq(Nat)
  BY <1>0 DEF Typed
<1>1. ASSUME NEW r \in Requests, EnterContext(r) PROVE PipelineInv'
  <2>0. PICK c \in [Tasks -> Requests \cup {None}] :
          /\ ctx' = [ctx EXCEPT ![r] = c]
          /\ c = [ctx[r] EXCEPT !["server"] = r]
    <3>1. ctx' = [ctx EXCEPT ![r] = [ctx[r] EXCEPT !["server"] = r]]
      BY <1>0, <1>1 DEF Typed, EnterContext
    <3>2. [ctx[r] EXCEPT !["server"] = r] \in [Tasks -> Requests \cup {None}]
      BY <1>type DEF Tasks
    <3> QED BY <3>1, <3>2
  <2>1. /\ Goto(r, "context") /\ gauge' = gauge + Moved(r, "context")
        /\ cause' = [cause EXCEPT ![r] = cause[r]]
        /\ response' = [response EXCEPT ![r] = response[r]]
        /\ counted' = [counted EXCEPT ![r] = counted[r]]
    BY <1>0, <1>1 DEF Typed, EnterContext, Moved, Inside
  <2>2. /\ layer'[r] = "context" /\ ctx'[r] = c /\ cause'[r] = cause[r]
        /\ response'[r] = response[r] /\ counted'[r] = counted[r]
    BY <1>0, <2>0, <2>1 DEF Typed, Goto
  <2>3. /\ c["server"] = r
        /\ \A k \in Tasks \ {"server"} : c[k] = ctx[r][k]
    BY <1>type, <2>0 DEF Tasks
  <2>4. RequestInv(r)'
    BY <1>0, <1>1, <2>2, <2>3 DEF RequestInv, EnterContext, Tasks
  <2> QED BY <1>type, <2>0, <2>1, <2>4, OneMoves
<1>2. ASSUME NEW r \in Requests, EnterMetrics(r) PROVE PipelineInv'
  <2>0. PICK c \in [Tasks -> Requests \cup {None}] :
          /\ ctx' = [ctx EXCEPT ![r] = c]
          /\ c = [ctx[r] EXCEPT !["metrics"] = ctx[r]["server"]]
    <3>1. ctx' = [ctx EXCEPT ![r] = [ctx[r] EXCEPT !["metrics"] = ctx[r]["server"]]]
      BY <1>0, <1>2 DEF Typed, EnterMetrics, StartTask
    <3>2. [ctx[r] EXCEPT !["metrics"] = ctx[r]["server"]] \in [Tasks -> Requests \cup {None}]
      BY <1>type DEF Tasks
    <3> QED BY <3>1, <3>2
  <2>1. /\ Goto(r, "metrics") /\ gauge' = gauge + Moved(r, "metrics")
        /\ cause' = [cause EXCEPT ![r] = cause[r]]
        /\ response' = [response EXCEPT ![r] = response[r]]
        /\ counted' = [counted EXCEPT ![r] = counted[r]]
    BY <1>0, <1>2 DEF Typed, EnterMetrics, Moved, Inside
  <2>2. /\ layer'[r] = "metrics" /\ ctx'[r] = c /\ cause'[r] = cause[r]
        /\ response'[r] = response[r] /\ counted'[r] = counted[r]
    BY <1>0, <2>0, <2>1 DEF Typed, Goto
  <2>3. /\ c["metrics"] = ctx[r]["server"]
        /\ \A k \in Tasks \ {"metrics"} : c[k] = ctx[r][k]
    BY <1>type, <2>0 DEF Tasks
  <2>4. RequestInv(r)'
    BY <1>0, <1>2, <2>2, <2>3 DEF RequestInv, EnterMetrics, Tasks
  <2> QED BY <1>type, <2>0, <2>1, <2>4, OneMoves
<1>3. ASSUME NEW r \in Requests, EnterRoute(r) PROVE PipelineInv'
  <2>0. PICK c \in [Tasks -> Requests \cup {None}] :
          /\ ctx' = [ctx EXCEPT ![r] = c]
          /\ c = [ctx[r] EXCEPT !["route"] = ctx[r]["metrics"]]
    <3>1. ctx' = [ctx EXCEPT ![r] = [ctx[r] EXCEPT !["route"] = ctx[r]["metrics"]]]
      BY <1>0, <1>3 DEF Typed, EnterRoute, StartTask
    <3>2. [ctx[r] EXCEPT !["route"] = ctx[r]["metrics"]] \in [Tasks -> Requests \cup {None}]
      BY <1>type DEF Tasks
    <3> QED BY <3>1, <3>2
  <2>1. /\ Goto(r, "route") /\ gauge' = gauge + Moved(r, "route")
        /\ cause' = [cause EXCEPT ![r] = cause[r]]
        /\ response' = [response EXCEPT ![r] = response[r]]
        /\ counted' = [counted EXCEPT ![r] = counted[r]]
    BY <1>0, <1>3 DEF Typed, EnterRoute, Moved, Inside
  <2>2. /\ layer'[r] = "route" /\ ctx'[r] = c /\ cause'[r] = cause[r]
        /\ response'[r] = response[r] /\ counted'[r] = counted[r]
    BY <1>0, <2>0, <2>1 DEF Typed, Goto
  <2>3. /\ c["route"] = ctx[r]["metrics"]
        /\ \A k \in Tasks \ {"route"} : c[k] = ctx[r][k]
    BY <1>type, <2>0 DEF Tasks
  <2>4. RequestInv(r)'
    BY <1>0, <1>3, <2>2, <2>3 DEF RequestInv, EnterRoute, Tasks
  <2> QED BY <1>type, <2>0, <2>1, <2>4, OneMoves
<1>4. ASSUME NEW r \in Requests, RouteAnswers(r) PROVE PipelineInv'
  <2>1. /\ ctx[r]["server"] = r /\ ctx[r]["route"] = r
        /\ cause[r] = None /\ counted[r] = << >>
    BY <1>0, <1>4 DEF RequestInv, RouteAnswers
  <2>2. PICK a \in Responses : a.id = r /\ response' = [response EXCEPT ![r] = a]
    <3>1. PICK status \in {200, 404, 503} :
            response' = [response EXCEPT ![r] = Answer(status, None, ctx[r]["route"])]
      BY <1>4 DEF RouteAnswers
    <3>2. /\ Answer(status, None, ctx[r]["route"]) \in Responses
          /\ Answer(status, None, ctx[r]["route"]).id = r
      BY <2>1 DEF Answer, Responses, Codes
    <3> QED BY <3>1, <3>2
  <2>3. /\ Goto(r, "leaving") /\ gauge' = gauge + Moved(r, "leaving")
        /\ ctx' = [ctx EXCEPT ![r] = ctx[r]] /\ cause' = [cause EXCEPT ![r] = cause[r]]
        /\ counted' = [counted EXCEPT ![r] = counted[r]]
    BY <1>0, <1>4 DEF Typed, RouteAnswers, Moved, Inside
  <2>4. /\ layer'[r] = "leaving" /\ ctx'[r] = ctx[r] /\ cause'[r] = None
        /\ counted'[r] = << >> /\ response'[r] = a
    BY <1>0, <2>1, <2>2, <2>3 DEF Typed, Goto
  <2>5. RequestInv(r)'
    BY <2>1, <2>2, <2>4, NoneAssumption DEF RequestInv, Right
  <2>6. a \in Responses \cup {None}
    BY <2>2
  <2> QED BY <1>type, <2>2, <2>3, <2>5, <2>6, OneMoves
<1>5. ASSUME NEW r \in Requests, NEW x \in Causes, RouteRaises(r, x)
      PROVE  PipelineInv'
  <2> DEFINE a == IF Handled(Raised(x)) THEN ErrorAnswer(Raised(x), r) ELSE None
  <2>1. ctx[r]["server"] = r /\ ctx[r]["route"] = r /\ counted[r] = << >>
    BY <1>0, <1>5 DEF RequestInv, RouteRaises
  <2>2. /\ a = None => x \in Unhandled
        /\ a # None => /\ a \in Responses /\ a.id = r
                       /\ a.status >= 500 <=> ServersFault(x)
    BY AnswerBlames, HandledCauses, NoneAssumption
  <2> HIDE DEF a
  <2>3. /\ Goto(r, "leaving") /\ gauge' = gauge + Moved(r, "leaving")
        /\ ctx' = [ctx EXCEPT ![r] = ctx[r]] /\ cause' = [cause EXCEPT ![r] = x]
        /\ response' = [response EXCEPT ![r] = a]
        /\ counted' = [counted EXCEPT ![r] = counted[r]]
    BY <1>0, <1>5, <2>1 DEF Typed, RouteRaises, Moved, Inside, a
  <2>4. /\ layer'[r] = "leaving" /\ ctx'[r] = ctx[r] /\ cause'[r] = x
        /\ counted'[r] = << >> /\ response'[r] = a
    BY <1>0, <2>1, <2>3 DEF Typed, Goto
  <2>5. RequestInv(r)'
    BY <2>1, <2>2, <2>4 DEF RequestInv, Right
  <2> QED BY <1>type, <2>2, <2>3, <2>5, OneMoves
<1>6. ASSUME NEW r \in Requests, LeaveMetrics(r) PROVE PipelineInv'
  <2>1. StatusLabel(r) \in Nat /\ counted[r] = << >>
    BY <1>0, <1>6 DEF Typed, RequestInv, LeaveMetrics, StatusLabel, Responses
  <2>2. Append(counted[r], StatusLabel(r)) = <<StatusLabel(r)>>
    BY <2>1
  <2>3. /\ Goto(r, "left") /\ gauge' = gauge + Moved(r, "left")
        /\ ctx' = [ctx EXCEPT ![r] = ctx[r]] /\ cause' = [cause EXCEPT ![r] = cause[r]]
        /\ response' = [response EXCEPT ![r] = response[r]]
        /\ counted' = [counted EXCEPT ![r] = <<StatusLabel(r)>>]
    BY <1>0, <1>6, <2>2 DEF Typed, LeaveMetrics, Moved, Inside
  <2>4. /\ layer[r] = "leaving" /\ layer'[r] = "left" /\ ctx'[r] = ctx[r]
        /\ cause'[r] = cause[r] /\ response'[r] = response[r]
        /\ counted'[r] = <<StatusLabel(r)>>
    BY <1>0, <1>6, <2>3 DEF Typed, Goto, LeaveMetrics
  <2>5. RequestInv(r)'
    BY <1>0, <2>4 DEF RequestInv, Right, StatusLabel
  <2>6. <<StatusLabel(r)>> \in Seq(Nat)
    BY <2>1
  <2> QED BY <1>type, <2>3, <2>5, <2>6, OneMoves
<1>7. ASSUME NEW r \in Requests, Send(r) PROVE PipelineInv'
  <2> DEFINE a == IF response[r] = None THEN ErrorAnswer(Raised(cause[r]), r)
                                        ELSE response[r]
  <2>1. /\ ctx[r]["server"] = r /\ counted[r] = <<StatusLabel(r)>>
        /\ response[r] = None => cause[r] \in Unhandled
        /\ response[r] # None => Right(r)
    BY <1>0, <1>7 DEF RequestInv, Send
  <2>2. Unhandled \subseteq Causes
    BY DEF Unhandled, Causes, AccessRaises, OtherRaises
  <2>3. /\ a \in Responses /\ a.id = r
        /\ cause[r] # None => (a.status >= 500 <=> ServersFault(cause[r]))
        /\ a.status = StatusLabel(r)
    <3>1. CASE response[r] = None
      BY <2>1, <2>2, <3>1, AnswerBlames DEF StatusLabel
    <3>2. CASE response[r] # None
      BY <1>0, <2>1, <3>2 DEF Typed, Right, StatusLabel
    <3> QED BY <3>1, <3>2
  <2>4. /\ Goto(r, "sent") /\ gauge' = gauge + Moved(r, "sent")
        /\ ctx' = [ctx EXCEPT ![r] = ctx[r]] /\ cause' = [cause EXCEPT ![r] = cause[r]]
        /\ response' = [response EXCEPT ![r] = a]
        /\ counted' = [counted EXCEPT ![r] = counted[r]]
    <3>1. response' = [response EXCEPT ![r] =
                         IF @ = None THEN ErrorAnswer(Raised(cause[r]), ctx[r]["server"])
                         ELSE @]
      BY <1>7 DEF Send
    <3>2. response' = [response EXCEPT ![r] = a]
      BY <1>0, <2>1, <3>1 DEF Typed
    <3> HIDE DEF a
    <3>3. gauge' = gauge + Moved(r, "sent") /\ Goto(r, "sent")
      BY <1>0, <1>7 DEF Send, Moved, Inside
    <3>4. /\ ctx' = [ctx EXCEPT ![r] = ctx[r]] /\ cause' = [cause EXCEPT ![r] = cause[r]]
          /\ counted' = [counted EXCEPT ![r] = counted[r]]
      BY <1>0, <1>7 DEF Typed, Send
    <3> QED BY <3>2, <3>3, <3>4
  <2> HIDE DEF a
  <2>5. /\ layer'[r] = "sent" /\ ctx'[r] = ctx[r] /\ cause'[r] = cause[r]
        /\ response'[r] = a /\ counted'[r] = <<StatusLabel(r)>>
    BY <1>0, <2>1, <2>4 DEF Typed, Goto
  <2>6. RequestInv(r)'
    BY <2>1, <2>3, <2>5, NoneAssumption DEF RequestInv, Right, StatusLabel
  <2> QED BY <1>type, <2>3, <2>4, <2>6, OneMoves
<1>8. ASSUME NEW r \in Requests, Cancel(r) PROVE PipelineInv'
  <2> DEFINE n == IF layer[r] = "context" THEN counted[r]
                  ELSE Append(counted[r], StatusLabel(r))
  <2>1. StatusLabel(r) \in Nat /\ counted[r] \in Seq(Nat)
    BY <1>0 DEF Typed, StatusLabel, Responses
  <2>2. n \in Seq(Nat)
    BY <2>1
  <2>3. /\ Goto(r, "gone") /\ gauge' = gauge + Moved(r, "gone")
        /\ ctx' = [ctx EXCEPT ![r] = ctx[r]] /\ cause' = [cause EXCEPT ![r] = cause[r]]
        /\ response' = [response EXCEPT ![r] = response[r]]
    BY <1>0, <1>8 DEF Typed, Cancel, Moved, Inside
  <2>4. counted' = [counted EXCEPT ![r] = n]
    BY <1>0, <1>8 DEF Typed, Cancel
  <2>5. RequestInv(r)'
    BY <1>0, <1>8 DEF Typed, RequestInv, Cancel, Goto
  <2> HIDE DEF n
  <2> QED BY <1>type, <2>2, <2>3, <2>4, <2>5, OneMoves
<1>9. CASE UNCHANGED vars
  <2>1. /\ Inside' = Inside
        /\ \A r \in Requests : RequestInv(r)'
    BY <1>0, <1>9, OtherRequest DEF vars, Inside
  <2> QED BY <1>0, <1>9, <2>1 DEF PipelineInv, Typed, InProgressBalance, vars
<1> QED BY <1>1, <1>2, <1>3, <1>4, <1>5, <1>6, <1>7, <1>8, <1>9 DEF Next

-----------------------------------------------------------------------------
(* The results.                                                            *)

(* PipelineInv holds in every reachable state.                             *)
THEOREM SpecInv == Spec => []PipelineInv
BY InitInv, NextInv, PTL DEF Spec

(* app_request_in_progress never drifts: whatever way requests leave the   *)
(* metrics middleware (answered, raised, cancelled), the gauge is the      *)
(* number of those inside.                                                 *)
THEOREM GaugeBalances == Spec => []InProgressBalance
<1>1. PipelineInv => InProgressBalance
  BY DEF PipelineInv
<1> QED BY <1>1, SpecInv, PTL

(* Each answered request is counted once and under the status it was       *)
(* answered with, unhandled exceptions included.                           *)
THEOREM CountsWhatIsAnswered == Spec => []CountedAsAnswered
<1>1. PipelineInv => CountedAsAnswered
  BY DEF PipelineInv, RequestInv, CountedAsAnswered, Sent, StatusLabel
<1> QED BY <1>1, SpecInv, PTL

(* Every response names the ids of its own request, in whichever of the    *)
(* request's tasks it is made: each task got them from the one before it,  *)
(* and the server's still has them when the middleware has been left.      *)
THEOREM IdsAreOwn == Spec => []OwnIds
<1>1. PipelineInv => OwnIds
  BY DEF PipelineInv, RequestInv, Right, OwnIds, Sent
<1> QED BY <1>1, SpecInv, PTL

(* The status tells the client's fault from the server's, but for the rate *)
(* limiter that is down (429) and the key that is not ASCII (500).         *)
THEOREM BlamesTheRightSide == Spec => []BlameIsRight
<1>1. PipelineInv => BlameIsRight
  BY DEF PipelineInv, RequestInv, Right, ServersFault, BlameIsRight, Sent
<1> QED BY <1>1, SpecInv, PTL

=============================================================================
