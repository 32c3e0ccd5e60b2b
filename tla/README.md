# Verification of the chat serving application

TLA+ models of the chat service in `src/app`: what they model, what TLC checks
on small instances, what TLAPS proves for every instance.

## 1. The system

A FastAPI application with a hexagonal layout. All of it runs in one asyncio
event loop per process; several processes may share a PostgreSQL or Redis
server. A task runs undisturbed from one `await` to the next, so an `await` (or
a `yield` of a generator) is where requests interleave and where a task can be
cancelled.

| component | code (under `src/app`) | state | operations |
|---|---|---|---|
| routes | `api/routes/chat.py` | the SSE generator's `result`, start time, inner generator; metrics | `POST /chat`, `POST /chat/stream` |
| orchestration service | `application/services/chat_orchestration_service.py`, `history_builder.py` | none across requests; per request: history, prompt, chunks | `chat`, `stream_chat`, `_store_turn` |
| session repository port | `ports/outbound/session_repository.py` | - | `get_history`, `append_messages`, `set_history`, `ping`, `close` |
| PostgreSQL repository | `adapters/outbound/postgres_session_repository.py`, `deploy/migrations` | pool, pool lock; tables `chat_sessions`, `chat_messages` | the port's |
| Redis repository | `adapters/outbound/redis_session_repository.py` | one list per session, with a TTL | the port's |
| in-memory repository | `adapters/outbound/inmemory_session_repository.py` | dict, lock | the port's |
| LLM and TTS clients | `adapters/outbound/vllm_http_client.py`, `gptsovits_http_client.py` | HTTP client, retry policy | `generate`, `generate_stream`, `synthesize`, `ping`, `close` |
| retry | `common/utils/retry.py` | attempt, start time | `run_with_retry`, `should_retry_by_taxonomy` |
| rate limiters | `adapters/outbound/*_rate_limiter.py` | counters per tenant, route and window | `consume`, `ping`, `close` |
| access control | `api/deps/auth.py` | none (consumes the rate limiter) | `auth_dependency` |
| readiness | `api/routes/health.py` | time of the last successful probe per dependency | `/health`, `/ready`, `/metrics` |
| lifecycle | `main.py`, `bootstrap.py` | the container, `bootstrap_complete` | build, close |
| request pipeline | `main.py`, `common/metrics/metrics.py`, `common/tracing/context.py`, `domain/exceptions/errors.py` | ids per request, in-progress gauge, request counter | middlewares, exception handlers |
| metrics | `common/metrics/metrics.py` | counters, gauges | `observe_*` |

How they interact. A route authenticates and consumes a quota, then calls the
service. The service reads the session's history, builds a prompt, awaits the
LLM (through the retry policy), appends the turn, and for `text_audio` awaits
the TTS provider. The SSE route pulls events out of the service's generator
under a total timeout and yields them to the server, which may cancel it when
the client leaves. Around every route lie the metrics middleware, the context
middleware and the exception handlers; the lifespan builds the adapters before
the first request and closes them after the last.

What is hard, and the property that answers it:

* requests of one session overlap: no turn is lost, split or doubled, indexes
  never collide (`ImplementsSessionStore`, `NoIndexConflict`, `Contiguous`,
  `WholeTurns`), and the next prompt contains what was acknowledged
  (`PromptRemembers`) and nothing that belongs to no answered turn of that
  session (`PromptIsConversation`);
* a failure, timeout or cancellation can hit every await: what was acknowledged
  is stored (`AcknowledgedIsStored`), the event protocol holds (`SSEProtocol`),
  the metrics balance (`MetricsBalance`, `ResultAgrees`);
* the pool is made lazily by whoever comes first (`NoLeakedPool`), and calls
  wait for its lock, a connection and a row lock (`CallsReturn`);
* a provider that hangs (`StreamsClose`), a retry of work that was done
  (`NotRepeated`), a budget in time (`RetriesStartInBudget`);
* a quota counted in another process after the window was chosen, perhaps twice
  (`QuotaPerWindow`, `RemainingHolds`, `FailuresThrottled`, `OwnRequestsOnly`);
* a connection breaks on the way to or from the server: the write happens, does
  not, happens later or (Redis, if its client repeats) twice
  (`ImplementsSessionStore`, `StoredExpires`, `WholeTurns`), and a
  PostgreSQL server that has not noticed keeps the row locked (`CallsReturn`);
* lists shared between the in-memory store and its callers
  (`MemoryCallersListsKept`);
* probes, shutdown and requests overlap: readiness tells the truth
  (`ReadyWasTrue`), one failing `close()` leaks nothing else
  (`NothingLeftOpen`);
* requests leave the middlewares in four ways and overlap in them
  (`InProgressBalance`, `CountedAsAnswered`), each in three tasks with a context
  of its own (`OwnIds`), and the status must blame the right side
  (`BlameIsRight`).

`PROJECT.json` lists every hazard with its line.

## 2. Modules

| module | models | composed of |
|---|---|---|
| `History` | the list arithmetic: last n messages, prompt | - |
| `SessionStore` | abstract: what the port promises | `History` |
| `SessionOps` | the calls that arrive through the port | `History` |
| `PostgresSession` | the PostgreSQL repository, one step per await | `History`; refines `SessionStore` |
| `RedisSession` | the Redis repository, its pipelines and a connection that breaks | `SessionOps`; refines `SessionStore` |
| `MemorySession` | the in-memory repository, lists as objects | `SessionOps`; refines `SessionStore` |
| `Chat` | routes and service over the abstract store | `History`, `SessionStore` |
| `Retry` | one provider call under the retry policy | - |
| `Access` | authentication and rate limits | - |
| `Lifecycle` | lifespan, container, `/ready`, `ping` and `close` of the adapters | - |
| `Pipeline` | middlewares and exception handlers | - |
| `PostgresSession_proofs`, `RedisSession_proofs`, `MemorySession_proofs`, `Chat_proofs`, `Retry_proofs`, `Access_proofs`, `Lifecycle_proofs`, `Pipeline_proofs` | the theorems of the module they extend | that module |
| `MCSessionBackends` | the Redis or the in-memory repository, as the settings select | `RedisSession`, `MemorySession` |
| `MCPostgresSession`, `MCChat`, `MCRetry`, `MCAccess`, `MCLifecycle`, `MCPipeline` | instances for TLC | |

### SessionStore

A call goes `idle -> called -> applied -> ok`, or to `error` from `called` or
`applied`: an operation that raises may have taken effect. A write given up by
its caller may also be `lost`: the server may still perform it, once, later, or
drop it (`Drop`). A backend whose client library repeats what was not answered
may send an operation again (`Resend`, recorded in `resent`), and only such a
write may be performed more than once (`ApplyAgain`); the in-memory and the
PostgreSQL repository never repeat, and the chat service is modelled over a
store that may.
Effects are atomic: `ApplyWrite` appends and trims in one step, as the port's
docstring asks. The two ways in which the backends differ are parameters
(`DefaultLimit`, `SetLimit`); what becomes of expired messages is left open.

### PostgresSession

`pc[c]` says at which await call `c` is:

    idle -> poolwait -> creating -> acquire -> upsert -> lock -> count -> insert -> trim -> commit -> release -> done   (append)
                                    acquire -> upsert -> clear -> insert -> commit -> release -> done                   (set)
                                    acquire -> query -> release -> done                                                 (get, ping)

A call that finds the pool goes straight to `acquire`. `rows` holds the
committed messages as a function from `turn_index`; `ins` and `del` hold what
the call's open transaction has added and removed, so a rollback drops them.
`rowLock` is the row lock the upsert takes and `FOR UPDATE` confirms.
`MaxIndex` stands for the largest `INTEGER`. At each await the call may fail or
be cancelled (`EnsureFail`, `AcquireFail`, `StatementFail`, `Commit(c,
"error")`, `ReleaseFail`). `close()` is `CloseBegin`, then `CloseEnd` or
`CloseFail`.

External behaviour, modelled from how the code uses it: asyncpg's pool
(`Connections`, `Connected`, `Refused`) and PostgreSQL's row lock (`RowFree`).
A lost acknowledgement of COMMIT is modelled (the commit happens, the caller
sees an error), and so is a connection lost anywhere in the transaction
(`LoseConnection`): the call is over for its caller, its transaction stays open
at the server, as `orphan` when COMMIT was under way and as `doomed` otherwise.
It keeps the session row locked until the server executes the COMMIT
(`LateCommit`) or notices the loss (`LateRollback`).

### RedisSession

A call transmits its commands at once (`Start`), the server executes them in
one instant (`Serve`: MULTI/EXEC), the answer arrives (`Finish`). `Fail` breaks
the connection or cancels the task on either way; what is still on the `wire`
may be executed later. `Resend` is the client library's repetition: the
repository passes no retry setting to `redis.from_url` and accepts a range of
versions, so the number of repetitions is the constant `Retries`. With a
repetition a turn can be stored twice; the refinement allows that for a write
that was sent twice and for no other, so what the check shows with `Retries` 1
includes that nothing else is doubled, lost, torn or left without a TTL.
A pipeline is the composition of its commands, which are functions of the
key (`RPUSH`, `LTRIM`, `EXPIRE`: Redis itself, external; RPUSH keeps or lacks a
TTL, an emptied list is an absent key). `written` is a history variable for the
refinement.

### MemorySession

The methods never suspend, so each is one step between `Call` and `Return`.
Lists are objects in `heap`; `store` and the callers hold references. `extend`
changes an object, a slice or `list(...)` makes a new one.

### Chat

`route[r]` says whether the route waits for the service (`next`) or is
suspended at its yield (`send`); `svc[r]` says what the service awaits (`get`,
`llm`, `put`, `tts`) or has yielded (`start`, `token`, `done`, `error`). A sync
request uses `next` only. The event `sent` last is what the client gets if it
stays. `Emit` is the stretch from an event of the service to the yield: the
`is_disconnected` test, the `result` label, the yield. `WaitTimeout` is
`wait_for` giving up; `ResumeTimeout` is the test at the top of the loop;
`CancelWaiting` is CancelledError at an await of the generator, `CancelChat` at
one of a sync request, which `except Exception` does not see, so that the
request ends uncounted; `CancelSending` is GeneratorExit at a yield. `wait_for`
cancels the service and waits for its cleanup before it gives up; the model
takes both in one step, that is, the cleanup (asyncpg or httpx giving a
connection back) is assumed to end. A message is identified by its request and role, so a mixed-up or
doubled turn is visible. `log`, `owed` and `faded` are history variables.

The store is `SessionStore` with the calls the service makes: it may perform an
append late, after the request has failed, and its client may send an append
again (`StoreResends`), which then may be performed twice
(`StoreAppendsAgain`). `MaxLog` bounds the repetitions only: none is sent or
performed once the session has had that many appends.

The answer of the LLM port is `ok`, `blank` (only white space: `chat` accepts
it, `stream_chat`, which strips, does not) or `empty`. The vLLM client never
returns the last two; the port allows them and the service tests for them.

Not in `Chat`: authentication and quota (before the service is called), the
retries inside the LLM and TTS clients (module `Retry`; here an answer or a
failure), the headers and bodies of responses.

### Retry

One call of `run_with_retry`. An attempt takes up to `MaxLatency` ticks and
ends in success or in one of the failures the clients distinguish (`Causes`),
each turned into the signal the clients attach (`Signal`). `performed` counts,
as a history variable, how often the provider did the work:
`MayHavePerformed` says what is possible for each failure (nothing before a
connection exists or when throttled, certainly when it answered 200).

### Access

A request's header names a tenant, is refused, or holds a bearer key that is
not ASCII: `secrets.compare_digest` then raises TypeError (`Crashes`), nothing
is counted and the pipeline answers 500. The tenants' own keys are taken to be
ASCII. Otherwise `consume` is called, for the client's address (a failed
authentication) or the tenant. The window is computed at that moment (`Arrive`)
and the counter incremented when the backend runs (`Consume`): at once in
memory (`Settled`), any time later in Redis. There the connection may break and
the client library send the script again (`Resend`, up to `Retries` times, as
in `RedisSession`), the call fail (`ConsumeFails`) or the request be cancelled
(`Cancel`); what was sent and is no longer waited for may still be executed
(`RunLate`) or not. Keys expire (`Expire`) in the second in which their time to
live ends. The settings are chosen in `Init` and fixed. The three ways to fail
authentication differ in a metric label only. Which key belongs to which tenant
and the parsing of the two settings strings are abstracted to `Tenants` and
`Limit`.

A Redis script that runs only after its window has ended may find its key gone
and count from 1 again; `QuotaPerWindow`, `RemainingHolds` and
`FailuresThrottled` are about the requests counted within their window. A
failed authentication for which Redis fails is answered 401 and not throttled
(`auth.py:79`), so `FailuresThrottled` is about those that were counted. A
script that was sent twice may count its request twice, so a counter is bounded
by the transmissions for the tenant's own requests (`OwnRequestsOnly`).

### Lifecycle

The settings (which kind of adapter each dependency has, whether rate limits
are on) and whether the server drains its requests before shutdown are chosen
in `Init`. `Startup` is the lifespan up to its yield (nothing in it suspends; an
unsupported setting raises and the application never serves), `Shutdown` its
`finally` up to the gather, `CloseOne` and `CloseOneFails` the four concurrent
`close()`, `Stopped` the end. An adapter has no connection until it is used;
after `close()` an httpx client refuses further use, a Redis client and the
PostgreSQL repository would connect again. A request is a task that awaits one
dependency after the other: `/ready` its three or four probes, a chat request
what the service uses. `up` is whether a server answers; a ping of a server
that is up may fail as well (timeout, status 500). `req[r].seen` is a history
variable, the dependencies that were up at some moment of the request. `last`
is the set of dependencies that have an entry in the last-success cache; the
times in it are readings of the wall clock that nothing depends on, and are not
modelled. The application object can live again (as in the tests), once the requests of its
former event loop have ended.

### Pipeline

A request passes the layers from outside in (`EnterContext`, `EnterMetrics`,
`EnterRoute`), the route answers or raises, and it leaves in the opposite order
(`LeaveMetrics`, `Send`). Starlette places the handler of `Exception` outside
all middlewares and the other two inside, so an unhandled exception passes the
metrics middleware before it becomes a response. The exception classes are a
function to the parent class; `AccessRaises` and `ServiceRaises` say which
failure raises which class. For a stream, "answers" is the start of the
response: the middleware's gauge does not cover the body.

The ids are context variables. Starlette's `BaseHTTPMiddleware` (external) runs
what `call_next` calls in a new task, which begins with a copy of the context
(`StartTask`): a request has a context in the server's task, where the context
middleware sets the ids and the handler of `Exception` reads them, one in the
metrics middleware's task and one in the route's, where the other two handlers
read them.

## 3. Runs

| run | expects | instance | shows |
|---|---|---|---|
| `PostgresSafety` | pass | 3 calls of 1 session out of 6 operations, pool of 2, `MaxTurns` 1, `MaxIndex` 4 (621,697 states) | no pool is lost; indexes are contiguous and never collide, although transactions outlive their connection; every call is atomic (refinement) |
| `PostgresLiveness` | pass | 3 calls, pool of 1, `MaxIndex` 1 so that an index overflows (82,063) | every call ends |
| `ChatSafety` | pass | 2 requests, sync or stream, blank or not, audio or not, up to 2 chunks (497,940) | the event protocol, acknowledged implies stored, whole turns, metrics; streams close although providers hang |
| `ChatMemory` | pass | 3 sync requests of 2 sessions, `MaxTurns` 1, empty answers, repeated appends up to `MaxLog` 2 (1,149,683) | the prompt remembers acknowledged turns and is one conversation; only what was sent twice is stored twice |
| `RetrySafety` | pass | 3 attempts, budget 8, latency up to 5, jitter (5,227) | at most one synthesis, retries start in budget, the matrix of `docs/RETRY_POLICY.md` |
| `AccessSafety` | pass | 3 requests, 2 tenants (limits 2 and 1) and failures (limit 1), a key that is not ASCII, windows of 2 s, times 0 to 2, `Retries` 1, 6 settings (5,497,715) | quotas and failure limits per window, truthful `X-RateLimit-Remaining`, no tenant pays for others |
| `SessionBackends` | pass | 3 calls of 1 session out of 8 operations, Redis with `Retries` 1 or memory (783,955) | every call is atomic (refinement), a write is doubled only if it was sent twice; no key without a TTL; callers' lists never change |
| `LifecycleSafety` | pass | 2 requests, `/ready` or chat, 3 deployments (one unsupported), 2 lives (837,631) | the readiness flag follows the life; nothing is left open that was closed, but what a request the server did not wait for opened again; readiness tells the truth |
| `PipelineSafety` | pass | 3 requests, 16 causes of failure (45,760) | gauge, counter, ids and blame |
| `ChatDisconnect` | violation | 1 stream | a disconnect during a yield is not counted; `docs/STREAMING.md:16` says it is |
| `ChatErrorOrder` | violation | 1 stream | a stream that times out after its first token sends `start, token, error`; `docs/API_SPEC.md:38` and `docs/RUNBOOK.md:106` allow only `start, error` |
| `RetryBudget` | violation | as `RetrySafety` | a call exceeds the total budget; `docs/RETRY_POLICY.md:9` says it does not |

Four further disagreements between the documents and the code were met while
modelling. The models behave as the code does, the properties say so where they
touch them, and no run is about them:

* the limiter's key holds the route id (`auth.py:146`), so a tenant has its
  limit once on each route; `docs/RUNBOOK.md:100` says the limit is per tenant
  (`QuotaPerWindow` is stated per tenant and route);
* `/ready` answers `degraded` with 200 whenever one dependency answers
  (`health.py:100`), so also when the LLM or the session store is down and no
  chat works; `docs/RUNBOOK.md:5` says the service then works in part;
* a wrong tenant key is 401 `UNAUTHORIZED` (`auth.py:129`) and nothing raises
  `ForbiddenError`; `docs/RUNBOOK.md:21` says `FORBIDDEN`;
* a rate limiter that is down and fails closed is 429 `RATE_LIMIT_EXCEEDED`
  (`auth.py:164`); `docs/RUNBOOK.md:22` says that means an exceeded quota.

`BlameIsRight` says what the code does in full: statuses of 500 and more are
the answers to what the client did not cause, with the two exceptions that
`auth.py` makes, 429 for a limiter that is down and 500 for a bearer key that
is not ASCII (`auth.py:121`). No document speaks of the second.

Why the bounds are enough. Three calls are one that holds the row, one that
waits for it and one that arrives later; with a pool of two (safety) or one
(liveness) somebody waits for a connection as well. The operations include a
limit that is odd, a limit of 0, no limit, an empty append, and a replacement
longer than the limit. One session suffices, because calls of different
sessions share only the pool. `MaxTurns = 1` makes every second turn push one
out. Two requests suffice for the route's properties, which relate one request
to the shared store and gauge; memory needs three (one remembered, one
asking, one in between), of two sessions so that a turn could go to the wrong
one, and `MaxLog` 2 so that an append and its repetition both happen; in
`ChatSafety` `MaxLog` is 0 and nothing is repeated. The retry bounds make the attempt limit and the budget
limit each the first to strike in some behaviour. Three requests exceed each
limit of `Access`, before or after the boundary of the window, which lies at 2,
and one repetition makes a request count twice. In Redis one
call can be late or repeated, one overtake it and one read; in memory one call
makes the list, one reads it and one extends, trims or replaces it. The two
repositories share a run, each in behaviours of its own. A probe beside a chat
request is enough to reconnect what is being closed, and a second life to start
from what the first left. Three requests in the pipeline are one inside the
metrics middleware, one leaving it and one outside. `CHECK_DEADLOCK FALSE` is
set everywhere because each call, request or retry is run once and the system
then rests; that nobody is stuck before is `CallsReturn` and `StreamsClose`.

Symmetry (calls, requests) is used only in runs without liveness: not in
`ChatSafety` and `PostgresLiveness`.

Fairness. `PostgresSession!FairSpec`: each call takes the steps it can take
(the event loop is fair, statements end, a free lock or connection is handed
to a waiter: `asyncio.Lock` and the pool queue are FIFO and weak fairness
suffices for finitely many calls), and `close()` finishes when the connections
are back; the server ends a transaction whose connection is lost in the end
(TCP keepalive). Failures are never obliged to happen, except where success is
impossible (pool gone, constraint, overflow). `Chat!FairSpec`: time passes, an
expired timer fires, and an event handed to the server is taken by the client
or the client is dropped; a cancelled service ends at once (see `Chat` above).
No liveness is claimed of `/ready` or of shutdown:
the pings of Redis and PostgreSQL, and the closes, have no timeout. Nothing is
assumed of the LLM, the TTS provider or the store.

## 4. Proofs

Every theorem is about all values of the constants that the named assumptions
allow: any number of calls, requests, sessions and tenants, any limits,
budgets, window lengths and pool sizes. The assumptions say that a constant has
the type the code gives it (counts are naturals, operations are records of the
port's arguments) and that `None` is not one of the values it is told from.
Each component has an inductive invariant (`Chat` has four, each resting on the
one before), a conjunction of named parts at the start of its `_proofs` module,
that TLC checked on the instance of its run before it was proved; `SpecInv` (in `PostgresSession_proofs` and `Retry_proofs`: `Inductive`
and `RetryInductive`) says that it always holds, and the listed theorems follow
from it. Where a gauge or a counter is compared with `Cardinality`, that the
set is finite is part of the invariant, not an assumption on the constants.

| module | theorem | property |
|---|---|---|
| `PostgresSession_proofs` | `TypeCorrect`, `NoPoolLeaks`, `TurnsContiguous`, `InsertsDisjoint`, `PostgresRefines` | `TypeOK`, `NoLeakedPool`, `Contiguous`, `NoIndexConflict`, `ImplementsSessionStore` |
| `RedisSession_proofs` | `TypeCorrect`, `HistoriesExpire`, `RedisRefines` | `TypeOK`, `StoredExpires`, `ImplementsSessionStore` |
| `MemorySession_proofs` | `CallersListsAreKept`, `MemoryRefines` | `MemoryCallersListsKept`, `MemoryImplementsSessionStore` |
| `Chat_proofs` | `TypeCorrect`, `StreamsFollowProtocol`, `AcknowledgedTurnsAreStored`, `MetricsNeverDrift`, `LabelsAgree`, `SessionsHoldWholeTurns`, `PromptsRemember`, `PromptsAreConversations` | `TypeOK`, `SSEProtocol`, `AcknowledgedIsStored`, `MetricsBalance`, `ResultAgrees`, `WholeTurns`, `PromptRemembers`, `PromptIsConversation` |
| `Retry_proofs` | `AttemptsBounded`, `SynthesizedOnce`, `RetriesInBudget`, `MatrixFollowed` | `TypeOK`, `NotRepeated`, `RetriesStartInBudget`, `FollowsMatrix` |
| `Access_proofs` | `TypeCorrect`, `QuotasHold`, `FailuresAreThrottled`, `RemainingIsKept`, `QuotasAreOwn` | `TypeOK`, `QuotaPerWindow`, `FailuresThrottled`, `RemainingHolds`, `OwnRequestsOnly` |
| `Lifecycle_proofs` | `TypeCorrect`, `ClosesEverything`, `ReadyIsTrue` | `TypeOK`, `NothingLeftOpen`, `ReadyWasTrue` |
| `Pipeline_proofs` | `GaugeBalances`, `CountsWhatIsAnswered`, `IdsAreOwn`, `BlamesTheRightSide` | `InProgressBalance`, `CountedAsAnswered`, `OwnIds`, `BlameIsRight` |

**PostgreSQL** (`NoneAssumption`, `BoundsAssumption`, `OpsAssumption`). `IndInv`
is the conjunction of `TypeOK`, `OpInv`, `PoolInv`, `LockInv` and `RowsInv`.
None of the properties is inductive alone. `NoLeakedPool` needs that only the
holder of the lock creates, and only while `self._pool` is None (`PoolInv`):
otherwise a second creation would forget the first pool. `Contiguous` needs
that `last_index`, read in one statement, is still the highest index when a
later statement inserts: that holds because the call owns the session row from
its upsert on (`LockInv`) and only owners commit, also when the owner's
connection is lost and its COMMIT comes late, which is how `RowsInv` (what each
open transaction has read, added and removed relative to the committed rows)
survives other calls' commits. The lemmas `IntervalToLast`,
`IntervalAppendTrim` and `IntervalFromZero` are the arithmetic: what an append,
a trim or a replacement leaves is again an interval. The refinement needs more
(`RefineInv`, defined with the proofs): a transaction that is ready to commit
leaves exactly what the port's write makes of the committed history
(`Content`), and a call succeeds only if it took effect (`Outcome`). The
mapping reads a session's rows in the order of their indexes; that rows
numbered without a gap read as the list they were written from, and what an
append and a trim make of it, is `OrderedInterval`, `OrderedSuffix`,
`OrderedRecent` and `AppendLeaves`.

**Redis** (`OpsAssumption`, `NoneAssumption`, `RetriesAssumption`). Whatever a
key was before, a pipeline leaves it absent or with a list and a TTL
(`PipelineSound`), so `StoredExpires` survives late and repeated executions.
The refinement is proved step by step (`ServeRefines`, `FailRefines`, ...).
`CallInv` counts transmissions: the answered one is no longer on the wire, so
any other that is executed belongs to a call that was sent again, which is
where the port allows a second effect; a write given up with its only
transmission under way is the port's `lost`.

**Memory** (`OpsAssumption`, `NoneAssumption`). `NoSharing`: a stored list
belongs to one session and no caller holds it. `extend` in place therefore
changes what one session holds and nothing else (`WriteKeepsLists`), which
gives both the action property and the refinement.

**Chat** (`ChatAssumption`, `InputsAssumption`, `NoneAssumption`). `ChatInv` ties, request by request, where the service is
to the events sent, the label and the store call: an event is sent only after
`start` or `token`, "done" only after the append of the turn was answered, and
an answered call stays answered (`OkStays`), however others fail or are
abandoned. The gauge is the number of streams whose generator is open, a set
that is finite in every state and that a step changes by at most one request
(`OneRequest`); a request that has ended is counted once, and not at all if it
was a `/chat` that was cancelled. `WholeTurns` is proved from an
invariant of its own, `TurnsInv`: each request's turn enters its session as
user and assistant together, and once, unless its append was sent again
(`Twice`), which happens only to an append that was made (`CalledFirst`);
trimming to an even limit removes whole turns (`TurnAppended`). `PromptRemembers` relates a prompt to the order of all
earlier appends and needs a third, `MemoryInv`. `LogStored` says that the n-th
turn from the end of the log, unless it faded or fell out of the window, is the
n-th from the end of the stored history: an append makes the new turn the last
and every other one further from the end (`TurnsShift`), and an expiry fades
all. `SessionCalls` says that the turns owed to a request are in the log of its
session, so the read finds them (`HistoryKnown`), and the prompt, made when the
call returns, keeps what was read (`PromptIsHistory`), whatever is stored in
between. `Grows` is what every step respects: the log only gets longer, nothing
that faded comes back, an answered append stays answered. `PromptIsConversation`
looks the other way: not what a prompt must contain but what it may.
`ConversationInv` follows the message lists from the store to the prompt. A
session holds only turns that were asked to be stored in it (`OwnTurns`), and
the service asks that only of a message and an answer that are not empty
(`Progress`). What `get_history` returned is a copy of that (`HistoryRight`);
it holds no turn of the reading request itself, which appends only after it has
read, also when the append is late or repeated. That a prompt made of it stays
right while other requests go on rests on `PastTurns` being about facts that
never become false: what was asked to be stored was asked, and a request keeps
its session.

**Retry** (`RetryAssumption`). `RetryInv`: before the last attempt a call that
is not idempotent has had no work done, because what `ShouldRetry` lets through
is what `MayHavePerformed` says did nothing (`RetriedDidNothing`), and a sleep
ends within the budget. `TaxonomyIsMatrix` compares the code's tests with the
documented matrix for every cause of failure.

**Access** (`AccessAssumption`, `NoneAssumption`). A counter does not expire
before its window ends (`CounterInv`), so within the window it only grows and
no number is returned twice (`NumbersInv`). The requests counted in a window
therefore map one to one into the numbers up to the counter, and those that
passed into the numbers up to the limit; a script executed late or twice only
uses numbers up. A counter is at most the number of transmissions for it that
were executed (`CounterInv`, `Executed`): those sent, but for the one that a
request waits for and the `late` ones (`SendInv`).

**Lifecycle** (`ConfigsAssumption`, `PathsAssumption`, `LivesAssumption`,
`NoneAssumption`). `ClosedForGood`: an httpx client that was closed is never
open again, whoever uses it, and from the shutdown of a draining server on no
request is in flight that could open another adapter; so only what is still
being closed or could not be, and without draining what connects by itself, is
open. That these are the Redis and PostgreSQL adapters needs that a local one
has no connection (`LocalIsUp`) and that an unknown setting never runs
(`KnownKinds`). What answered a probe was up during the request
(`ProbesSoFar`).

**Pipeline** (`NoneAssumption`). `RequestInv` says for each layer which tasks
have the request's ids, what has been counted and which response is on its way;
`Right` evaluates the class hierarchy for each cause.

Model-checked only: `CallsReturn` and `StreamsClose` (liveness under fairness,
out of the prover's reach). Every other property of a passing run is proved.

## 5. Not modelled, and the plan

Every safety property, action property and refinement that a run checks is
proved; what is left to TLC is liveness. That the refinements of the three
repositories carry over to `Chat` rests on its construction: every step of
`Chat` that touches the store is an action of `SessionStore`, so there is no
separate theorem about it.

Left out for good: settings, schemas, logging (configuration, validation and
formatting), the parsing of the two settings strings of `api/deps/auth.py`,
stub clients and mock servers (test doubles), the metrics exposition and
histograms, the times in the last-success cache, `readiness_details` of the
service (called from nowhere).
