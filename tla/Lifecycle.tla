----------------------------- MODULE Lifecycle -----------------------------
(***************************************************************************)
(* The life of the application and its readiness: the lifespan of          *)
(* app/main.py, build_container and close_container of app/bootstrap.py,   *)
(* GET /ready of app/api/routes/health.py, and ping() and close() of the   *)
(* adapters.                                                               *)
(*                                                                         *)
(* A request is a task that awaits one dependency after the other; while   *)
(* rest[r] is not empty it is inside the await of its head.  A chat        *)
(* request is reduced to the dependencies it uses (module Chat has the     *)
(* rest).  An adapter is reduced to whether it has connections: it opens   *)
(* them when first used, never when it is built.                           *)
(***************************************************************************)
EXTENDS Integers, Sequences, FiniteSets

CONSTANTS
  Requests,   \* requests, each run once
  Paths,      \* what is requested, of {"ready", "chat"}
  Configs,    \* settings: dependency -> kind of adapter
  MaxLives,   \* bound on how often the lifespan is entered
  None

Deps == {"llm", "tts", "session_store", "rate_limiter"}

(* stub and memory adapters, HTTP clients, Redis and PostgreSQL adapters,  *)
(* and a value of the setting that no builder knows.                       *)
Kinds == {"local", "http", "redis", "postgres", "unknown"}

ASSUME ConfigsAssumption == Configs \subseteq [Deps -> Kinds]
ASSUME PathsAssumption == Paths \subseteq {"ready", "chat"}
ASSUME LivesAssumption == MaxLives \in Nat \ {0}
ASSUME NoneAssumption ==
  None \notin {"ready", "chat", "ok", "degraded", "fail", "answered", "cancelled"}

VARIABLES
  config,     \* the settings, fixed
  limited,    \* RATE_LIMIT_ENABLED, fixed
  graceful,   \* the server drains its requests before shutdown, fixed
  app,        \* "down", "serving", "closing", "stopped" or "failed"
  boot,       \* app.state.bootstrap_complete
  lives,      \* times the lifespan was entered
  conn,       \* dependency -> "none", "open", or "closed" for ever
  closing,    \* dependencies whose close() has not ended
  unclosed,   \* dependencies whose close() raised
  last,       \* keys of app.state.readiness_last_success
  up,         \* dependency -> the server behind it answers
  req         \* request -> its state, see NoRequest

fixed   == <<config, limited, graceful>>
appVars == <<app, boot, lives, closing, unclosed>>
vars    == <<fixed, appVars, conn, last, up, req>>

(* kind of request, dependencies still to be awaited, probes that were     *)
(* answered well, dependencies reachable at some moment since a /ready     *)
(* arrived (history), and the status it was answered with.                 *)
Request(kind, rest, seen, status) ==
  [kind |-> kind, rest |-> rest, oks |-> {}, seen |-> seen, status |-> status]

NoRequest == Request(None, << >>, {}, None)

InFlight(r) == req[r].kind # None /\ req[r].status = None

Local(d) == config[d] = "local"

Init ==
  /\ config \in Configs
  /\ limited \in BOOLEAN /\ graceful \in BOOLEAN
  /\ app = "down" /\ boot = FALSE /\ lives = 0
  /\ conn = [d \in Deps |-> "none"]
  /\ closing = {} /\ unclosed = {}
  /\ last = {}
  /\ up = [d \in Deps |-> TRUE]
  /\ req = [r \in Requests |-> NoRequest]

-----------------------------------------------------------------------------
(* The lifespan.                                                           *)

(* The builders are called one after the other; the first setting that is  *)
(* not known raises ValueError.                                            *)
Supported == \A d \in Deps : config[d] # "unknown"

(* build_container has no await, nor have the assignments to app.state.    *)
(* An application object may live again, as in the tests, after its        *)
(* former event loop has ended.                                            *)
Startup ==
  /\ app \in {"down", "stopped"} /\ lives < MaxLives
  /\ \A r \in Requests : ~ InFlight(r)
  /\ IF Supported
       THEN /\ app' = "serving" /\ boot' = TRUE
            /\ last' = {}
       ELSE app' = "failed" /\ UNCHANGED <<boot, last>>
  /\ lives' = lives + 1
  /\ conn' = [d \in Deps |-> "none"]
  /\ unclosed' = {}
  /\ UNCHANGED <<fixed, closing, up, req>>

(* The flag is left as it is.                                              *)
ShutdownStaysReady ==
  /\ app = "serving"
  /\ graceful => \A r \in Requests : ~ InFlight(r)
  /\ app' = "closing"
  /\ closing' = {d \in Deps : ~ Local(d)}
  /\ UNCHANGED <<fixed, boot, lives, unclosed, conn, last, up, req>>

(* The lifespan's finally: the flag first, then close_container, which     *)
(* starts all four close() at once.  Those of local adapters do not        *)
(* suspend and do nothing to a connection.                                 *)
Shutdown ==
  /\ app = "serving"
  /\ graceful => \A r \in Requests : ~ InFlight(r)
  /\ app' = "closing" /\ boot' = FALSE
  /\ closing' = {d \in Deps : ~ Local(d)}
  /\ UNCHANGED <<fixed, lives, unclosed, conn, last, up, req>>

(* What close() leaves: httpx refuses further use, the Redis client and    *)
(* the PostgreSQL repository (self._pool = None) would connect again.      *)
AfterClose(d) == IF config[d] = "http" THEN "closed" ELSE "none"

CloseOne(d) ==
  /\ d \in closing
  /\ closing' = closing \ {d}
  /\ conn' = [conn EXCEPT ![d] = AfterClose(d)]
  /\ UNCHANGED <<fixed, app, boot, lives, unclosed, last, up, req>>

(* The closes are awaited in turn, and the first that raises is the last.  *)
CloseOneFailsInTurn(d) ==
  /\ d \in closing
  /\ closing' = {}
  /\ unclosed' = unclosed \cup {d}
  /\ UNCHANGED <<fixed, app, boot, lives, conn, last, up, req>>

(* A close() raises: return_exceptions=True keeps the others going.        *)
CloseOneFails(d) ==
  /\ d \in closing
  /\ closing' = closing \ {d}
  /\ unclosed' = unclosed \cup {d}
  /\ UNCHANGED <<fixed, app, boot, lives, conn, last, up, req>>

(* gather returns; the failures are logged.                                *)
Stopped ==
  /\ app = "closing" /\ closing = {}
  /\ app' = "stopped"
  /\ UNCHANGED <<fixed, boot, lives, closing, unclosed, conn, last, up, req>>

-----------------------------------------------------------------------------
(* Requests.                                                               *)

Probes == <<"llm", "tts", "session_store">>
            \o (IF limited THEN <<"rate_limiter">> ELSE << >>)

(* auth_dependency, then the service: history, LLM, append, and audio if   *)
(* it was asked for.                                                       *)
Uses == {(IF limited THEN <<"rate_limiter">> ELSE << >>)
           \o <<"session_store", "llm", "session_store">> \o audio :
         audio \in {<<"tts">>, << >>}}

(* A server that drains its requests accepts none once it shuts down; only *)
(* /ready looks at the flag, and answers 503 without probing.              *)
Accepts(kind) ==
  \/ app = "serving"
  \/ app = "closing" /\ ~ graceful
  \/ app = "down" /\ kind = "ready"

Arrive(r, kind) ==
  /\ req[r].kind = None /\ Accepts(kind)
  /\ \E rest \in (IF kind = "chat" THEN Uses ELSE IF boot THEN {Probes} ELSE {<< >>}) :
       req' = [req EXCEPT ![r] =
         Request(kind, rest,
                 IF kind = "ready" THEN {d \in Deps : up[d]} ELSE {},
                 IF kind = "ready" /\ ~ boot THEN "fail" ELSE None)]
  /\ UNCHANGED <<fixed, appVars, conn, last, up>>

(* ping() of the adapters: the results and connection states it may have.  *)
PingHttp(d) ==
  {<<FALSE, conn[d]>>} \cup
    (IF up[d] /\ conn[d] # "closed" THEN {TRUE, FALSE} \X {"open"} ELSE {})

PingServer(d) ==
  {<<FALSE, conn[d]>>} \cup (IF up[d] THEN {TRUE, FALSE} \X {"open"} ELSE {})

Ping(d) ==
  IF Local(d) THEN {<<TRUE, "none">>}
  ELSE IF config[d] = "http" THEN PingHttp(d) ELSE PingServer(d)

(* Any ping that returns counts, whatever it returned.                     *)
ProbeReturned(d) == {<<TRUE, x[2]>> : x \in Ping(d)}

(* _probe_dependency: bool(await ping()).  The adapters turn exceptions    *)
(* into False themselves, so its own except clause adds no result.         *)
ProbeResult(d) == Ping(d)

(* cache[key] = datetime.now() after the probe's await, if it was good.    *)
(* Nothing is decided by the time, a reading of the wall clock, and it is  *)
(* left out.                                                               *)
LastSuccess(d, ok) == IF ok THEN last \cup {d} ELSE last

Overall(oks, probed) ==
  IF oks = probed THEN "ok" ELSE IF oks = {} THEN "fail" ELSE "degraded"

Probed == {Probes[i] : i \in DOMAIN Probes}

(* The await of one probe ends; after the last the status is computed.     *)
ProbeEnds(r) ==
  /\ req[r].kind = "ready" /\ req[r].rest # << >>
  /\ LET d == Head(req[r].rest) IN
     \E x \in ProbeResult(d) :
       LET oks == IF x[1] THEN req[r].oks \cup {d} ELSE req[r].oks
           rest == Tail(req[r].rest)
       IN
       /\ conn' = [conn EXCEPT ![d] = x[2]]
       /\ last' = LastSuccess(d, x[1])
       /\ req' = [req EXCEPT ![r] = [req[r] EXCEPT
                    !.oks = oks, !.rest = rest,
                    !.status = IF rest = << >> THEN Overall(oks, Probed)
                               ELSE req[r].status]]
  /\ UNCHANGED <<fixed, appVars, up>>

(* A chat request uses a dependency as a ping does, and ends at the first  *)
(* that fails; RATE_LIMIT_FAIL_OPEN says whether the limiter is one.       *)
UseEnds(r) ==
  /\ req[r].kind = "chat" /\ req[r].rest # << >>
  /\ LET d == Head(req[r].rest) IN
     \E x \in Ping(d) :
     \E rest \in {Tail(req[r].rest), << >>} :
       /\ rest = Tail(req[r].rest) \/ ~ x[1]
       /\ rest = << >> \/ x[1] \/ d = "rate_limiter"
       /\ conn' = [conn EXCEPT ![d] = x[2]]
       /\ req' = [req EXCEPT ![r] = [req[r] EXCEPT
                    !.rest = rest,
                    !.status = IF rest = << >> THEN "answered" ELSE req[r].status]]
  /\ UNCHANGED <<fixed, appVars, last, up>>

(* The client leaves or the server cancels what it no longer waits for.    *)
CancelRequest(r) ==
  /\ InFlight(r)
  /\ req' = [req EXCEPT ![r] = Request(req[r].kind, << >>, {}, "cancelled")]
  /\ UNCHANGED <<fixed, appVars, conn, last, up>>

-----------------------------------------------------------------------------
(* The world outside.                                                      *)

DependencyFails(d) ==
  /\ up[d] /\ ~ Local(d)
  /\ up' = [up EXCEPT ![d] = FALSE]
  /\ UNCHANGED <<fixed, appVars, conn, last, req>>

DependencyRecovers(d) ==
  /\ ~ up[d]
  /\ up' = [up EXCEPT ![d] = TRUE]
  /\ req' = [r \in Requests |-> IF InFlight(r) /\ req[r].kind = "ready"
               THEN [req[r] EXCEPT !.seen = @ \cup {d}] ELSE req[r]]
  /\ UNCHANGED <<fixed, appVars, conn, last>>

Next ==
  \/ Startup \/ Shutdown \/ Stopped
  \/ \E d \in Deps : \/ CloseOne(d) \/ CloseOneFails(d)
                     \/ DependencyFails(d) \/ DependencyRecovers(d)
  \/ \E r \in Requests : \/ \E kind \in Paths : Arrive(r, kind)
                         \/ ProbeEnds(r) \/ UseEnds(r) \/ CancelRequest(r)

Spec == Init /\ [][Next]_vars

-----------------------------------------------------------------------------
(* Properties.                                                             *)

TypeOK ==
  /\ config \in Configs /\ limited \in BOOLEAN /\ graceful \in BOOLEAN
  /\ app \in {"down", "serving", "closing", "stopped", "failed"}
  /\ boot = (app = "serving")
  /\ conn \in [Deps -> {"none", "open", "closed"}]
  /\ closing \subseteq Deps /\ unclosed \subseteq Deps
  /\ last \subseteq Deps
  /\ up \in [Deps -> BOOLEAN]
  /\ \A r \in Requests :
       req[r].status \in {None, "ok", "degraded", "fail", "answered", "cancelled"}

(* /ready does not call a dependency well that was not: "ok" (every one)   *)
(* and "degraded" (some) rest on answers given while the request ran, not  *)
(* on the cache, not on a probe that raised, not on a closed client.       *)
ReadyWasTrue ==
  \A r \in Requests :
    /\ req[r].status = "ok" => Probed \subseteq req[r].seen
    /\ req[r].status = "degraded" => Probed \cap req[r].seen # {}

(* The comment of close_container: one close() that raises must not leak   *)
(* the others.  After the shutdown an adapter whose own close() did not    *)
(* raise has connections only if a request that the server did not wait    *)
(* for used it after its close(), and if it is one that connects again:    *)
(* never behind an httpx client, and nowhere when the server drained.      *)
NothingLeftOpen ==
  app = "stopped" => \A d \in Deps \ unclosed :
    conn[d] = "open" => ~ graceful /\ config[d] \in {"redis", "postgres"}

=============================================================================
