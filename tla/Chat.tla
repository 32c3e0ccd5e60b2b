-------------------------------- MODULE Chat --------------------------------
(***************************************************************************)
(* Chat requests, from the HTTP route to the session store: the sync       *)
(* endpoint, the SSE endpoint with its total timeout and its disconnect    *)
(* handling (app/api/routes/chat.py), and the orchestration service both   *)
(* call (app/application/services/chat_orchestration_service.py).          *)
(*                                                                         *)
(* A step runs from one await to the next.  The store is the abstract port *)
(* (SessionStore): a call takes effect at some instant before it returns,  *)
(* and one that raises or is cancelled may have taken effect or may yet do *)
(* so; a client library that repeats what was not answered may make it     *)
(* take effect again.  The LLM and the TTS provider answer, fail, or hang. *)
(***************************************************************************)
EXTENDS History, FiniteSets

CONSTANTS
  Requests,    \* each is one HTTP request
  Sessions,    \* session ids
  Inputs,      \* request bodies
  Answers,     \* what the LLM port may answer, see text
  MaxTurns,    \* MAX_HISTORY_TURNS
  MaxChunks,   \* bound: chunks of one LLM answer
  MaxLog,      \* bound: nothing is repeated in a session that has seen so
               \* many appends; 0 if the store's client never repeats
  None         \* Python's None

ASSUME ChatAssumption ==
  /\ MaxTurns \in Int /\ MaxChunks \in Nat /\ MaxLog \in Nat
  /\ Answers \subseteq {"ok", "blank", "empty"}

(* blank: message.strip() is empty; audio: response_mode is text_audio.    *)
Input == [kind : {"chat", "stream"}, session : Sessions,
          blank : BOOLEAN, audio : BOOLEAN]

ASSUME InputsAssumption == Inputs \subseteq Input
ASSUME NoneAssumption ==
  None \notin Input \cup Int \cup {"start", "token", "done", "error", "success",
                                  "ok", "blank"}

VARIABLES
  input,       \* request -> its body
  svc,         \* request -> where the service coroutine or generator is
  route,       \* request -> where the route is
  left,        \* request -> chunks of the answer not yet yielded
  text,        \* request -> the answer: "ok", "blank" (whitespace), "empty"
  prompt,      \* request -> messages given to the LLM
  sent,        \* request -> SSE events handed to the server
  connected,   \* request -> the client is there
  expired,     \* request -> STREAM_TOTAL_TIMEOUT_SEC has passed
  result,      \* request -> label of the request's metric
  observed,    \* request -> how often its metric was counted
  dropped,     \* requests counted in chat_stream_disconnect_total
  gauge,       \* chat_stream_active_connections
  hist, live, phase, op, got, resent,  \* the session store, see SessionStore
  log,         \* session -> requests in the order of their appends (history)
  owed,        \* request -> turns acknowledged when it arrived (history)
  faded        \* requests whose turn was stored before an expiry (history)

storeVars == <<hist, live, phase, op, got, resent>>
ghostVars == <<log, owed, faded>>
metricVars == <<result, observed, dropped, gauge>>
vars == <<input, svc, route, left, text, prompt, sent, connected, expired,
          metricVars, storeVars, ghostVars>>

Store == INSTANCE SessionStore WITH
           Calls <- Requests \X {"get", "put"}, Ops <- {},
           DefaultLimit <- None, SetLimit <- None

GetCall(r) == <<r, "get">>
PutCall(r) == <<r, "put">>

UserMessage(r) == <<r, "user">>
AssistantMessage(r) == <<r, "assistant">>

Init ==
  /\ input = [r \in Requests |-> None]
  /\ svc = [r \in Requests |-> "new"]
  /\ route = [r \in Requests |-> "idle"]
  /\ left = [r \in Requests |-> 0]
  /\ text = [r \in Requests |-> None]
  /\ prompt = [r \in Requests |-> << >>]
  /\ sent = [r \in Requests |-> << >>]
  /\ connected = [r \in Requests |-> TRUE]
  /\ expired = [r \in Requests |-> FALSE]
  /\ result = [r \in Requests |-> None]
  /\ observed = [r \in Requests |-> 0]
  /\ dropped = {} /\ gauge = 0
  /\ Store!Init
  /\ log = [s \in Sessions |-> << >>]
  /\ owed = [r \in Requests |-> {}]
  /\ faded = {}

Streams == {r \in Requests : input[r] # None /\ input[r].kind = "stream"}
Syncs == {r \in Requests : input[r] # None /\ input[r].kind = "chat"}

(* The client was told that its turn succeeded.                            *)
Acknowledged(r) ==
  \/ r \in Syncs /\ result[r] = "success"
  \/ r \in Streams /\ \E i \in DOMAIN sent[r] : sent[r][i] = "done"

-----------------------------------------------------------------------------
(* The service's calls of the store.                                       *)

CallGetHistory(r, s) ==
  Store!Call(GetCall(r), [kind |-> "get", session |-> s, msgs |-> << >>, max |-> None])

(* One message too few is kept.                                            *)
CallStoreTurnOffByOne(r) ==
  Store!Call(PutCall(r), [kind |-> "append", session |-> input[r].session,
                          msgs |-> <<UserMessage(r), AssistantMessage(r)>>,
                          max |-> AtLeastZero(MaxTurns * 2 - 1)])

(* history[-max_turns:], half of the window.                               *)
PromptOfHalf(r) ==
  Append(Recent(got[GetCall(r)], MaxTurns), UserMessage(r))

(* _store_turn: this turn only, trimmed together with the append.          *)
CallStoreTurn(r) ==
  Store!Call(PutCall(r), [kind |-> "append", session |-> input[r].session,
                          msgs |-> <<UserMessage(r), AssistantMessage(r)>>,
                          max |-> AtLeastZero(MaxTurns * 2)])

PromptOf(r) == BuildPrompt(got[GetCall(r)], UserMessage(r), MaxTurns)

-----------------------------------------------------------------------------
(* Metrics of a request that ends.                                         *)

(* The gauge is lowered only when the stream ended normally.               *)
CloseStreamLeaky(r, res) ==
  /\ route' = [route EXCEPT ![r] = "closed"]
  /\ svc' = [svc EXCEPT ![r] = "ended"]
  /\ result' = [result EXCEPT ![r] = res]
  /\ observed' = [observed EXCEPT ![r] = @ + 1]
  /\ gauge' = IF res = "success" THEN gauge - 1 ELSE gauge

(* finally: stream.aclose(), observe_stream_request, gauge down.           *)
CloseStream(r, res) ==
  /\ route' = [route EXCEPT ![r] = "closed"]
  /\ svc' = [svc EXCEPT ![r] = "ended"]
  /\ result' = [result EXCEPT ![r] = res]
  /\ observed' = [observed EXCEPT ![r] = @ + 1]
  /\ gauge' = gauge - 1

(* The sync route returns, or raises to the exception handlers.            *)
Reply(r, res) ==
  /\ route' = [route EXCEPT ![r] = "closed"]
  /\ svc' = [svc EXCEPT ![r] = "ended"]
  /\ result' = [result EXCEPT ![r] = res]
  /\ observed' = [observed EXCEPT ![r] = @ + 1]
  /\ UNCHANGED <<sent, dropped, gauge>>

(* An event of the service reaches the route: is_disconnected() may notice *)
(* that the client is gone; otherwise the event is yielded to the server.  *)
Emit(r, event, at) ==
  \/ /\ ~ connected[r]
     /\ CloseStream(r, "disconnect")
     /\ dropped' = dropped \cup {r}
     /\ UNCHANGED sent
  \/ /\ sent' = [sent EXCEPT ![r] = Append(@, event)]
     /\ route' = [route EXCEPT ![r] = "send"]
     /\ svc' = [svc EXCEPT ![r] = at]
     /\ result' = IF event = "error" THEN [result EXCEPT ![r] = "error"] ELSE result
     /\ UNCHANGED <<observed, dropped, gauge>>

(* The service coroutine awaits inside the route's await.                  *)
Await(r, at) ==
  /\ svc' = [svc EXCEPT ![r] = at]
  /\ route' = [route EXCEPT ![r] = "next"]
  /\ UNCHANGED <<sent, metricVars>>

(* The service raises: the generator turns it into an error event, the     *)
(* sync route counts a failure and re-raises.                              *)
Raise(r) ==
  \/ r \in Syncs /\ Reply(r, "failure")
  \/ r \in Streams /\ Emit(r, "error", "error")

-----------------------------------------------------------------------------
(* A request arrives.                                                      *)

Accept(r, i) ==
  /\ route[r] = "idle"
  /\ input' = [input EXCEPT ![r] = i]
  /\ owed' = [owed EXCEPT ![r] = {q \in Requests : /\ Acknowledged(q)
                                                   /\ input[q].session = i.session}]
  /\ UNCHANGED <<log, faded>>

(* POST /chat up to the first await.                                       *)
ArriveChat(r, i) ==
  /\ i.kind = "chat"
  /\ Accept(r, i)
  /\ \/ i.blank /\ Reply(r, "failure") /\ UNCHANGED storeVars
     \/ /\ ~ i.blank
        /\ Await(r, "get")
        /\ CallGetHistory(r, i.session)
  /\ UNCHANGED <<left, text, prompt, connected, expired>>

(* stream_connection_opened is forgotten.                                  *)
ArriveStreamUncounted(r, i) ==
  /\ i.kind = "stream"
  /\ Accept(r, i)
  /\ result' = [result EXCEPT ![r] = "success"]
  /\ sent' = [sent EXCEPT ![r] = <<"start">>]
  /\ route' = [route EXCEPT ![r] = "send"]
  /\ svc' = [svc EXCEPT ![r] = "start"]
  /\ UNCHANGED <<left, text, prompt, connected, expired, observed, dropped, gauge,
                 storeVars>>

(* POST /chat/stream: event_generator starts, the service yields "start".  *)
ArriveStream(r, i) ==
  /\ i.kind = "stream"
  /\ Accept(r, i)
  /\ gauge' = gauge + 1
  /\ result' = [result EXCEPT ![r] = "success"]
  /\ sent' = [sent EXCEPT ![r] = <<"start">>]
  /\ route' = [route EXCEPT ![r] = "send"]
  /\ svc' = [svc EXCEPT ![r] = "start"]
  /\ UNCHANGED <<left, text, prompt, connected, expired, observed, dropped,
                 storeVars>>

(* The same, but the client is already gone when "start" is to be sent: the *)
(* generator opens and closes in one go.                                   *)
ArriveGone(r, i) ==
  /\ i.kind = "stream"
  /\ Accept(r, i)
  /\ connected' = [connected EXCEPT ![r] = FALSE]
  /\ route' = [route EXCEPT ![r] = "closed"]
  /\ svc' = [svc EXCEPT ![r] = "ended"]
  /\ result' = [result EXCEPT ![r] = "disconnect"]
  /\ observed' = [observed EXCEPT ![r] = @ + 1]
  /\ dropped' = dropped \cup {r}
  /\ UNCHANGED <<left, text, prompt, sent, expired, gauge, storeVars>>

-----------------------------------------------------------------------------
(* The service, resumed by an answer it awaited.                           *)

Running(r, at) == route[r] = "next" /\ svc[r] = at

HistoryRead(r) ==
  /\ Running(r, "get")
  /\ Store!Return(GetCall(r))
  /\ prompt' = [prompt EXCEPT ![r] = PromptOf(r)]
  /\ Await(r, "llm")
  /\ UNCHANGED <<input, left, text, connected, expired, ghostVars>>

HistoryFailed(r) ==
  /\ Running(r, "get")
  /\ Store!Raise(GetCall(r))
  /\ Raise(r)
  /\ UNCHANGED <<input, left, text, prompt, connected, expired, ghostVars>>

(* generate raises.                                                        *)
LLMFailed(r) ==
  /\ Running(r, "llm")
  /\ Raise(r)
  /\ UNCHANGED <<input, left, text, prompt, connected, expired, storeVars,
                 ghostVars>>

(* The test of the answer is dropped.                                      *)
LLMAnsweredUntested(r, t) ==
  /\ r \in Syncs /\ Running(r, "llm")
  /\ text' = [text EXCEPT ![r] = t]
  /\ Await(r, "put") /\ CallStoreTurn(r)
  /\ UNCHANGED <<input, left, prompt, connected, expired, ghostVars>>

(* generate returns the whole answer to the sync service, which refuses    *)
(* only an empty one.                                                      *)
LLMAnswered(r, t) ==
  /\ r \in Syncs /\ Running(r, "llm")
  /\ text' = [text EXCEPT ![r] = t]
  /\ \/ t = "empty" /\ Raise(r) /\ UNCHANGED storeVars
     \/ t # "empty" /\ Await(r, "put") /\ CallStoreTurn(r)
  /\ UNCHANGED <<input, left, prompt, connected, expired, ghostVars>>

(* generate_stream has the text and yields the first of n chunks.          *)
LLMStreams(r, t, n) ==
  /\ r \in Streams /\ Running(r, "llm")
  /\ n = 0 <=> t = "empty"
  /\ text' = [text EXCEPT ![r] = t]
  /\ \/ n = 0 /\ Raise(r) /\ UNCHANGED left
     \/ n > 0 /\ Emit(r, "token", "token") /\ left' = [left EXCEPT ![r] = n - 1]
  /\ UNCHANGED <<input, prompt, connected, expired, storeVars, ghostVars>>

(* The store's error is swallowed and the turn acknowledged.               *)
TurnNotStoredIgnored(r) ==
  /\ Running(r, "put")
  /\ Store!Raise(PutCall(r)) \/ Store!Abandon(PutCall(r))
  /\ \/ r \in Streams /\ Emit(r, "done", "done")
     \/ r \in Syncs /\ Reply(r, "success")
  /\ UNCHANGED <<input, left, text, prompt, connected, expired, ghostVars>>

TurnStored(r) ==
  /\ Running(r, "put")
  /\ Store!Return(PutCall(r))
  /\ \/ r \in Streams /\ Emit(r, "done", "done")
     \/ r \in Syncs /\ input[r].audio /\ Await(r, "tts")
     \/ r \in Syncs /\ ~ input[r].audio /\ Reply(r, "success")
  /\ UNCHANGED <<input, left, text, prompt, connected, expired, ghostVars>>

TurnNotStored(r) ==
  /\ Running(r, "put")
  /\ Store!Raise(PutCall(r)) \/ Store!Abandon(PutCall(r))
  /\ Raise(r)
  /\ UNCHANGED <<input, left, text, prompt, connected, expired, ghostVars>>

(* synthesize returns or raises; the turn is already stored.               *)
Synthesized(r, res) ==
  /\ Running(r, "tts")
  /\ Reply(r, res)
  /\ UNCHANGED <<input, left, text, prompt, connected, expired, storeVars,
                 ghostVars>>

-----------------------------------------------------------------------------
(* The SSE generator, resumed after the server took an event.              *)

LastEvent(r) == IF sent[r] = << >> THEN None ELSE sent[r][Len(sent[r])]

(* `break' after done or error, and after the timeout's own error.         *)
ResumeEnd(r) ==
  /\ route[r] = "send" /\ LastEvent(r) \in {"done", "error"}
  /\ CloseStream(r, result[r])
  /\ UNCHANGED <<input, left, text, prompt, sent, connected, expired, dropped,
                 storeVars, ghostVars>>

(* The loop is not left after a terminal event.                            *)
ResumeTimeoutAgain(r) ==
  /\ route[r] = "send"
  /\ expired[r]
  /\ result' = [result EXCEPT ![r] = "timeout"]
  /\ sent' = [sent EXCEPT ![r] = Append(@, "error")]
  /\ Len(sent[r]) <= MaxChunks + 2
  /\ UNCHANGED <<input, svc, route, left, text, prompt, connected, expired,
                 observed, dropped, gauge, storeVars, ghostVars>>

(* remaining <= 0 at the top of the loop.                                  *)
ResumeTimeout(r) ==
  /\ route[r] = "send" /\ LastEvent(r) \in {"start", "token"}
  /\ expired[r]
  /\ result' = [result EXCEPT ![r] = "timeout"]
  /\ sent' = [sent EXCEPT ![r] = Append(@, "error")]
  /\ UNCHANGED <<input, svc, route, left, text, prompt, connected, expired,
                 observed, dropped, gauge, storeVars, ghostVars>>

(* The service goes on after its yield of "start".                         *)
ResumeStart(r) ==
  /\ route[r] = "send" /\ svc[r] = "start" /\ LastEvent(r) = "start"
  /\ ~ expired[r]
  /\ \/ input[r].blank /\ Raise(r) /\ UNCHANGED storeVars
     \/ ~ input[r].blank /\ Await(r, "get") /\ CallGetHistory(r, input[r].session)
  /\ UNCHANGED <<input, left, text, prompt, connected, expired, ghostVars>>

(* ... and after its yield of a token.                                     *)
ResumeToken(r) ==
  /\ route[r] = "send" /\ svc[r] = "token" /\ LastEvent(r) = "token"
  /\ ~ expired[r]
  /\ \/ /\ left[r] > 0
        /\ left' = [left EXCEPT ![r] = @ - 1]
        /\ Emit(r, "token", "token")
        /\ UNCHANGED storeVars
     \/ /\ left[r] = 0 /\ text[r] = "blank"
        /\ Raise(r)
        /\ UNCHANGED <<left, storeVars>>
     \/ /\ left[r] = 0 /\ text[r] = "ok"
        /\ Await(r, "put") /\ CallStoreTurn(r)
        /\ UNCHANGED left
  /\ UNCHANGED <<input, text, prompt, connected, expired, ghostVars>>

(* The call in flight, if any, is cancelled with the coroutine.            *)
AbandonCall(r) ==
  IF svc[r] = "get" THEN Store!Raise(GetCall(r))
  ELSE IF svc[r] = "put" THEN Store!Raise(PutCall(r)) \/ Store!Abandon(PutCall(r))
  ELSE UNCHANGED storeVars

(* The elapsed time is looked at only when an event arrives.               *)
WaitTimeoutNever(r) == FALSE /\ UNCHANGED vars

(* The result label keeps its initial value.                               *)
WaitTimeoutUnlabelled(r) ==
  /\ r \in Streams /\ route[r] = "next" /\ expired[r]
  /\ AbandonCall(r)
  /\ sent' = [sent EXCEPT ![r] = Append(@, "error")]
  /\ svc' = [svc EXCEPT ![r] = "ended"]
  /\ route' = [route EXCEPT ![r] = "send"]
  /\ UNCHANGED <<input, left, text, prompt, connected, expired, metricVars,
                 ghostVars>>

(* asyncio.wait_for gives up: the service is cancelled where it awaits.    *)
(* wait_for also waits until the cancelled service has ended, which is     *)
(* taken to be at once: nothing in it catches the cancellation, and what a *)
(* client library does to give its connection back is not modelled.        *)
WaitTimeout(r) ==
  /\ r \in Streams /\ route[r] = "next" /\ expired[r]
  /\ AbandonCall(r)
  /\ result' = [result EXCEPT ![r] = "timeout"]
  /\ sent' = [sent EXCEPT ![r] = Append(@, "error")]
  /\ svc' = [svc EXCEPT ![r] = "ended"]
  /\ route' = [route EXCEPT ![r] = "send"]
  /\ UNCHANGED <<input, left, text, prompt, connected, expired, observed,
                 dropped, gauge, ghostVars>>

-----------------------------------------------------------------------------
(* The environment: time, the client, the store.                           *)

TimePasses(r) ==
  /\ r \in Streams /\ route[r] \in {"next", "send"} /\ ~ expired[r]
  /\ expired' = [expired EXCEPT ![r] = TRUE]
  /\ UNCHANGED <<input, svc, route, left, text, prompt, sent, connected,
                 metricVars, storeVars, ghostVars>>

ClientLeaves(r) ==
  /\ r \in Streams /\ route[r] \in {"next", "send"} /\ connected[r]
  /\ connected' = [connected EXCEPT ![r] = FALSE]
  /\ UNCHANGED <<input, svc, route, left, text, prompt, sent, expired,
                 metricVars, storeVars, ghostVars>>

(* The server cancels the response task while the generator awaits:        *)
(* CancelledError reaches the generator.                                   *)
CancelWaiting(r) ==
  /\ r \in Streams /\ route[r] = "next" /\ ~ connected[r]
  /\ AbandonCall(r)
  /\ CloseStream(r, "disconnect")
  /\ dropped' = dropped \cup {r}
  /\ UNCHANGED <<input, left, text, prompt, sent, connected, expired, ghostVars>>

(* The server cancels a /chat where the service awaits: CancelledError is  *)
(* no Exception, so the route counts nothing, and nothing is answered.     *)
CancelChat(r) ==
  /\ r \in Syncs /\ route[r] = "next"
  /\ AbandonCall(r)
  /\ svc' = [svc EXCEPT ![r] = "ended"]
  /\ route' = [route EXCEPT ![r] = "cancelled"]
  /\ UNCHANGED <<input, left, text, prompt, sent, connected, expired, metricVars,
                 ghostVars>>

(* The server cancels a stream while an event is sent: the generator, held *)
(* at its yield, is closed with GeneratorExit, which only `finally' sees.  *)
CancelSending(r) ==
  /\ route[r] = "send" /\ ~ connected[r]
  /\ CloseStream(r, result[r])
  /\ UNCHANGED <<input, left, text, prompt, sent, connected, expired, dropped,
                 storeVars, ghostVars>>

RequestsUnchanged ==
  UNCHANGED <<input, svc, route, left, text, prompt, sent, connected, expired,
              metricVars>>

StoreReads(r) ==
  /\ Store!ApplyGet(GetCall(r))
  /\ RequestsUnchanged /\ UNCHANGED ghostVars

StoreAppends(r) ==
  /\ Store!ApplyWrite(PutCall(r))
  /\ log' = [log EXCEPT ![input[r].session] = Append(@, r)]
  /\ RequestsUnchanged /\ UNCHANGED <<owed, faded>>

(* The store's client sends the append of r again.  (A get_history sent     *)
(* again is one performed later.)                                          *)
StoreResends(r) ==
  /\ Store!Resend(PutCall(r))
  /\ Len(log[input[r].session]) < MaxLog
  /\ RequestsUnchanged /\ UNCHANGED ghostVars

StoreAppendsAgain(r) ==
  /\ Store!ApplyAgain(PutCall(r))
  /\ Len(log[input[r].session]) < MaxLog
  /\ log' = [log EXCEPT ![input[r].session] = Append(@, r)]
  /\ RequestsUnchanged /\ UNCHANGED <<owed, faded>>

SessionExpires(s) ==
  /\ Store!Expire(s)
  /\ faded' = faded \cup {log[s][i] : i \in DOMAIN log[s]}
  /\ RequestsUnchanged /\ UNCHANGED <<log, owed>>

-----------------------------------------------------------------------------

Resume(r) == ResumeEnd(r) \/ ResumeTimeout(r) \/ ResumeStart(r) \/ ResumeToken(r)

Next ==
  \/ \E r \in Requests :
       \/ \E i \in Inputs : ArriveChat(r, i) \/ ArriveStream(r, i) \/ ArriveGone(r, i)
       \/ HistoryRead(r) \/ HistoryFailed(r) \/ LLMFailed(r)
       \/ \E t \in Answers :
            \/ LLMAnswered(r, t)
            \/ \E n \in 0 .. MaxChunks : LLMStreams(r, t, n)
       \/ TurnStored(r) \/ TurnNotStored(r)
       \/ \E res \in {"success", "failure"} : Synthesized(r, res)
       \/ Resume(r) \/ WaitTimeout(r)
       \/ TimePasses(r) \/ ClientLeaves(r)
       \/ CancelWaiting(r) \/ CancelSending(r) \/ CancelChat(r)
       \/ StoreReads(r) \/ StoreAppends(r)
       \/ StoreResends(r) \/ StoreAppendsAgain(r)
  \/ \E s \in Sessions : SessionExpires(s)

Spec == Init /\ [][Next]_vars

(* Time passes, the event loop fires an expired timer, and a client takes  *)
(* the events sent to it or is dropped.  Nothing is assumed of the store,  *)
(* the LLM or the TTS provider: they may hang for ever.                    *)
FairSpec ==
  /\ Spec
  /\ \A r \in Requests : /\ WF_vars(TimePasses(r))
                         /\ WF_vars(WaitTimeout(r))
                         /\ WF_vars(Resume(r) \/ CancelSending(r))

-----------------------------------------------------------------------------
(* Properties.                                                             *)

TypeOK ==
  /\ input \in [Requests -> Input \cup {None}]
  /\ svc \in [Requests -> {"new", "start", "get", "llm", "token", "put", "tts",
                           "done", "error", "ended"}]
  /\ route \in [Requests -> {"idle", "next", "send", "closed", "cancelled"}]
  /\ left \in [Requests -> 0 .. MaxChunks]
  /\ text \in [Requests -> {"ok", "blank", "empty", None}]
  /\ sent \in [Requests -> Seq({"start", "token", "done", "error"})]
  /\ connected \in [Requests -> BOOLEAN] /\ expired \in [Requests -> BOOLEAN]
  /\ result \in [Requests -> {"success", "failure", "error", "timeout",
                              "disconnect", None}]
  /\ observed \in [Requests -> Nat] /\ dropped \subseteq Requests
  /\ gauge \in Nat

Protocol(events) ==
  LET n == Len(events) IN
  /\ n > 0 => events[1] = "start"
  /\ \A i \in 2 .. n : events[i] = "token" \/ (i = n /\ events[i] # "start")

(* The SSE protocol as the code has it: "start" first and once, tokens,    *)
(* then at most one of "done" and "error" as the last event, whichever of  *)
(* the service, the timeout check and wait_for produced it.                *)
SSEProtocol == \A r \in Streams : Protocol(sent[r])

(* A request is acknowledged ("done", or 200) only if append_messages      *)
(* returned and the answer was not empty.                                  *)
AcknowledgedIsStored ==
  \A r \in Requests :
    Acknowledged(r) => phase[PutCall(r)] = "ok" /\ text[r] # "empty"

(* A session holds whole turns, user then assistant of one request, never  *)
(* more than MAX_HISTORY_TURNS of them, and twice only one that the store's *)
(* client sent twice, whatever requests, timeouts and cancellations        *)
(* overlap.                                                                *)
WholeTurns ==
  \A s \in Sessions :
    LET h == hist[s] IN
    /\ Len(h) % 2 = 0 /\ Len(h) <= AtLeastZero(2 * MaxTurns)
    /\ \A k \in 1 .. Len(h) \div 2 :
         \E r \in Requests : /\ h[2*k-1] = UserMessage(r)
                             /\ h[2*k] = AssistantMessage(r)
    /\ \A i, j \in DOMAIN h : h[i] = h[j] => i = j \/ resent[PutCall(h[i][1])]

HoldsTurn(h, q) ==
  \E i \in 2 .. Len(h) : h[i-1] = UserMessage(q) /\ h[i] = AssistantMessage(q)

(* MaxTurns newer turns of the session s were stored.                      *)
Superseded(q, s) ==
  \E i \in DOMAIN log[s] : log[s][i] = q /\ Len(log[s]) - i >= MaxTurns

(* Conversation memory: a turn acknowledged before a request arrived is in *)
(* that request's prompt, unless MaxTurns newer turns were stored or the   *)
(* session expired in between.                                             *)
PromptRemembers ==
  \A r \in Requests :
    prompt[r] # << >> =>
      \A q \in owed[r] \ faded :
        HoldsTurn(prompt[r], q) \/ Superseded(q, input[r].session)

(* q is a request of session s that was not refused and got an answer.     *)
Answered(q, s) ==
  /\ input[q] # None /\ input[q].session = s /\ ~ input[q].blank
  /\ text[q] \notin {"empty", None}

(* What the LLM is given is one conversation: whole turns of other         *)
(* requests of the same session that were answered, at most                *)
(* MAX_HISTORY_TURNS, and then the request's own message.                  *)
PromptIsConversation ==
  \A r \in Requests :
    prompt[r] # << >> =>
      LET p == prompt[r] IN
      /\ Len(p) % 2 = 1 /\ Len(p) <= AtLeastZero(2 * MaxTurns) + 1
      /\ p[Len(p)] = UserMessage(r)
      /\ \A k \in 1 .. Len(p) \div 2 :
           \E q \in Requests \ {r} :
             /\ p[2*k-1] = UserMessage(q) /\ p[2*k] = AssistantMessage(q)
             /\ Answered(q, input[r].session)

(* The active-connection gauge counts the streams whose generator is open. *)
(* Every request that ended with a reply, an exception or a closed stream  *)
(* was counted exactly once, and no other: not one in flight, and not a    *)
(* /chat that was cancelled (chat.py: `except Exception' passes it by).    *)
MetricsBalance ==
  /\ gauge = Cardinality({r \in Streams : route[r] \in {"next", "send"}})
  /\ \A r \in Requests : observed[r] = IF route[r] = "closed" THEN 1 ELSE 0

LabelsFor(event) ==
  IF event = "done" THEN {"success"}
  ELSE IF event = "error" THEN {"error", "timeout"} ELSE {"success", "disconnect"}

(* The result label agrees with what the client was sent: "done" counts as *)
(* success, "error" as error or timeout, and a disconnect label means that *)
(* neither was sent.                                                       *)
ResultAgrees ==
  \A r \in Streams : route[r] = "closed" => result[r] \in LabelsFor(LastEvent(r))

(* A stream that opened closes, even when the LLM or the store hangs       *)
(* (chat.py: the timeout is put on the wait for the next event itself).    *)
StreamsClose ==
  \A r \in Requests : (r \in Streams) ~> (r \in Streams /\ route[r] = "closed")

(* API_SPEC and RUNBOOK: a stream that fails is "start", then "error".     *)
StartThenError ==
  \A r \in Streams : LastEvent(r) = "error" => sent[r] = <<"start", "error">>

(* STREAMING: a disconnect or cancellation is recorded in                  *)
(* chat_stream_disconnect_total.  A stream that ends before "done" or      *)
(* "error" was interrupted.                                                *)
DisconnectRecorded ==
  \A r \in Streams :
    route[r] = "closed" /\ LastEvent(r) \notin {"done", "error"} => r \in dropped

=============================================================================
