------------------------------- MODULE Access -------------------------------
(***************************************************************************)
(* Admission of requests: auth_dependency and _throttle_auth_failure       *)
(* (app/api/deps/auth.py) over the fixed-window rate limiters              *)
(* (app/adapters/outbound/inmemory_rate_limiter.py and                     *)
(* redis_rate_limiter.py).                                                 *)
(*                                                                         *)
(* A window is computed when consume() is called and counted when the      *)
(* backend runs: at once in memory, any time later in Redis, where the     *)
(* counter is a key with a time to live.  The Redis client library may     *)
(* transmit the script again when no answer came, up to Retries times, and *)
(* a transmission nobody waits for any more may still be executed.  Time   *)
(* is counted in seconds.                                                  *)
(***************************************************************************)
EXTENDS Integers, FiniteSets

CONSTANTS
  Requests,        \* each asks for admission once
  Tenants,         \* tenants with an API key
  DefaultTenant,   \* AUTH_DEFAULT_TENANT
  Hosts,           \* client addresses
  Routes,          \* route ids
  Configs,         \* settings the application may run with, see Config
  Limit,           \* tenant -> override or RATE_LIMIT_REQUESTS_PER_WINDOW
  FailureLimit,    \* AUTH_FAILURE_LIMIT_PER_WINDOW
  WindowSec,       \* RATE_LIMIT_WINDOW_SEC
  MaxTime,         \* bound on the clock
  Retries,         \* transmissions the client library may add to the first
  None

(* AUTH_ENABLED, RATE_LIMIT_ENABLED, RATE_LIMIT_FAIL_OPEN and              *)
(* RATE_LIMIT_BACKEND.                                                     *)
Config == [auth : BOOLEAN, limit : BOOLEAN, failOpen : BOOLEAN,
           backend : {"memory", "redis"}]

ASSUME AccessAssumption ==
  /\ Configs \subseteq Config
  /\ Limit \in [Tenants \cup {DefaultTenant} -> Int] /\ FailureLimit \in Int
  /\ WindowSec \in Nat \ {0} /\ MaxTime \in Nat /\ Retries \in Nat
  /\ Hosts \cap (Tenants \cup {DefaultTenant}) = {}

(* What the Authorization header holds: a tenant's key; nothing usable (no *)
(* header, another scheme, a key no tenant has), which the code treats     *)
(* alike but for the words; or a key that is not ASCII.  The tenants' own  *)
(* keys are ASCII.                                                         *)
Credentials == Tenants \cup {"invalid", "not_ascii"}

Header == [cred : Credentials, host : Hosts, route : Routes]

ASSUME NoneAssumption ==
  None \notin Header \cup Int \cup [principal : Hosts \cup Tenants \cup {DefaultTenant},
                                  route : Routes, auth : BOOLEAN, start : Int]

VARIABLES
  config,     \* the settings, fixed
  now,        \* time.time(), in seconds
  pc,         \* request -> "idle", "counting" (awaits consume) or its answer
  req,        \* request -> its header
  key,        \* request -> the counter it consumes
  counters,   \* counter -> [count, expires]
  value,      \* request -> what the counter returned
  remaining,  \* request -> X-RateLimit-Remaining
  ranAt,      \* request -> when its consume ran (history)
  sends,      \* request -> transmissions of its script so far
  late        \* request -> those it no longer waits for, not yet executed

vars == <<config, now, pc, req, key, counters, value, remaining, ranAt, sends, late>>

-----------------------------------------------------------------------------

(* secrets.compare_digest raises TypeError on a key that is not ASCII, if  *)
(* there is a tenant to compare it with.                                   *)
Crashes(i) == config.auth /\ i.cred = "not_ascii" /\ Tenants # {}

(* No bearer scheme, and any other key that no tenant has, is refused.     *)
Refused(i) == config.auth /\ i.cred \notin Tenants /\ ~ Crashes(i)

Tenant(i) == IF config.auth THEN i.cred ELSE DefaultTenant

(* Failures are charged to the client address, the rest to the tenant.     *)
Principal(i) == IF Refused(i) THEN i.host ELSE Tenant(i)

(* now - (now % window_sec)                                                *)
WindowStart(t) == t - (t % WindowSec)

(* Failures are charged to the tenant that requests without a key have.    *)
CounterOfShared(i, t) ==
  [principal |-> IF Refused(i) THEN DefaultTenant ELSE Tenant(i), route |-> i.route,
   auth |-> FALSE, start |-> WindowStart(t)]

(* The limiter's key; failures are counted under a route id of their own.  *)
CounterOf(i, t) ==
  [principal |-> Principal(i), route |-> i.route, auth |-> Refused(i),
   start |-> WindowStart(t)]

Counters ==
  [principal : Hosts \cup Tenants \cup {DefaultTenant}, route : Routes,
   auth : BOOLEAN, start : {WindowStart(t) : t \in 0 .. MaxTime}]

LimitOf(r) == IF key[r].auth THEN FailureLimit ELSE Limit[key[r].principal]

(* This request is counted twice.                                          *)
RemainingLate(v, limit) == IF limit - v - 1 < 0 THEN 0 ELSE limit - v - 1

RemainingNegative(v, limit) == limit - v

(* max(0, limit - value)                                                   *)
Remaining(v, limit) == IF limit - v < 0 THEN 0 ELSE limit - v

Init ==
  /\ config \in Configs
  /\ now = 0
  /\ pc = [r \in Requests |-> "idle"]
  /\ req = [r \in Requests |-> None]
  /\ key = [r \in Requests |-> None]
  /\ counters = [k \in {} |-> None]
  /\ value = [r \in Requests |-> None]
  /\ remaining = [r \in Requests |-> None]
  /\ ranAt = [r \in Requests |-> None]
  /\ sends = [r \in Requests |-> 0]
  /\ late = [r \in Requests |-> {}]

(* The in-memory limiter does not suspend between call and count: its lock *)
(* is never held across an await.                                          *)
Settled ==
  config.backend = "memory" => \A r \in Requests : pc[r] # "counting"

(* Up to the await of consume(), to the answer when limits are off, or to  *)
(* the TypeError, which is not counted and answered 500.                   *)
Arrive(r, i) ==
  /\ pc[r] = "idle" /\ Settled
  /\ req' = [req EXCEPT ![r] = i]
  /\ \/ /\ Crashes(i)
        /\ pc' = [pc EXCEPT ![r] = "error"]
        /\ UNCHANGED <<key, sends>>
     \/ /\ ~ Crashes(i) /\ config.limit
        /\ key' = [key EXCEPT ![r] = CounterOf(i, now)]
        /\ pc' = [pc EXCEPT ![r] = "counting"]
        /\ sends' = [sends EXCEPT ![r] = 1]
     \/ /\ ~ Crashes(i) /\ ~ config.limit
        /\ pc' = [pc EXCEPT ![r] = IF Refused(i) THEN "unauthorized" ELSE "passed"]
        /\ UNCHANGED <<key, sends>>
  /\ UNCHANGED <<config, now, counters, value, remaining, ranAt, late>>

(* The decision on a failed authentication is ignored.                     *)
AnswerLenient(r, v) ==
  IF Refused(req[r])
    THEN "unauthorized"
    ELSE IF v <= LimitOf(r) THEN "passed" ELSE "limited"

(* decision.allowed, and what the dependency makes of it.                  *)
Answer(r, v) ==
  IF v > LimitOf(r) THEN "limited"
  ELSE IF Refused(req[r]) THEN "unauthorized" ELSE "passed"

(* The key lives for less than the window.                                 *)
TtlShort == WindowSec - 1

(* ARGV[1]                                                                 *)
Ttl == WindowSec

NewValue(k) == IF k \in DOMAIN counters THEN counters[k].count + 1 ELSE 1

(* INCR, and EXPIRE when the key is new; in memory the entry stays.        *)
Increment(k) ==
  LET entry ==
        [count |-> NewValue(k),
         expires |-> IF k \in DOMAIN counters THEN counters[k].expires ELSE now + Ttl]
  IN counters' = [l \in DOMAIN counters \cup {k} |-> IF l = k THEN entry ELSE counters[l]]

(* The script runs and its answer is awaited.                              *)
Consume(r) ==
  LET v == NewValue(key[r]) IN
  /\ pc[r] = "counting"
  /\ Increment(key[r])
  /\ value' = [value EXCEPT ![r] = v]
  /\ remaining' = [remaining EXCEPT ![r] = Remaining(v, LimitOf(r))]
  /\ ranAt' = [ranAt EXCEPT ![r] = now]
  /\ pc' = [pc EXCEPT ![r] = Answer(r, v)]
  /\ UNCHANGED <<config, now, req, key, sends, late>>

(* What was sent last is not waited for any more; Redis may have received  *)
(* it or not.                                                              *)
GiveUp(r) == late' = [late EXCEPT ![r] = @ \cup {sends[r]}]

(* The client library notices a broken connection and sends the script     *)
(* again.                                                                  *)
Resend(r) ==
  /\ pc[r] = "counting" /\ config.backend = "redis"
  /\ sends[r] <= Retries
  /\ GiveUp(r)
  /\ sends' = [sends EXCEPT ![r] = @ + 1]
  /\ UNCHANGED <<config, now, pc, req, key, counters, value, remaining, ranAt>>

(* A transmission that nobody waits for is executed.                       *)
RunLate(r, n) ==
  /\ n \in late[r]
  /\ Increment(key[r])
  /\ late' = [late EXCEPT ![r] = @ \ {n}]
  /\ UNCHANGED <<config, now, pc, req, key, value, remaining, ranAt, sends>>

(* Redis fails.  A refused request is refused all the same; the others     *)
(* pass or not by RATE_LIMIT_FAIL_OPEN.                                    *)
ConsumeFails(r) ==
  /\ pc[r] = "counting" /\ config.backend = "redis"
  /\ GiveUp(r)
  /\ pc' = [pc EXCEPT ![r] = IF Refused(req[r]) THEN "unauthorized"
                              ELSE IF config.failOpen THEN "bypassed" ELSE "limited"]
  /\ UNCHANGED <<config, now, req, key, counters, value, remaining, ranAt, sends>>

(* The server cancels the request where it awaits: `except Exception' does *)
(* not see it, so neither answer nor fail-open applies.                    *)
Cancel(r) ==
  /\ pc[r] = "counting" /\ config.backend = "redis"
  /\ GiveUp(r)
  /\ pc' = [pc EXCEPT ![r] = "cancelled"]
  /\ UNCHANGED <<config, now, req, key, counters, value, remaining, ranAt, sends>>

(* Redis drops a key some time in the second in which its life ends.       *)
Expire(k) ==
  /\ config.backend = "redis"
  /\ k \in DOMAIN counters /\ counters[k].expires <= now
  /\ counters' = [l \in DOMAIN counters \ {k} |-> counters[l]]
  /\ UNCHANGED <<config, now, pc, req, key, value, remaining, ranAt, sends, late>>

Tick ==
  /\ now < MaxTime /\ Settled
  /\ config.backend = "redis" => \A k \in DOMAIN counters : counters[k].expires > now
  /\ now' = now + 1
  /\ UNCHANGED <<config, pc, req, key, counters, value, remaining, ranAt, sends, late>>

Next ==
  \/ \E r \in Requests :
       \/ \E i \in Header : Arrive(r, i)
       \/ Consume(r) \/ ConsumeFails(r) \/ Resend(r) \/ Cancel(r)
       \/ \E n \in 1 .. Retries + 1 : RunLate(r, n)
  \/ \E k \in DOMAIN counters : Expire(k)
  \/ Tick

Spec == Init /\ [][Next]_vars

-----------------------------------------------------------------------------
(* Properties.                                                             *)

TypeOK ==
  /\ config \in Configs /\ now \in 0 .. MaxTime
  /\ pc \in [Requests -> {"idle", "counting", "passed", "bypassed",
                          "unauthorized", "limited", "error", "cancelled"}]
  /\ req \in [Requests -> Header \cup {None}]
  /\ key \in [Requests -> Counters \cup {None}]
  /\ DOMAIN counters \subseteq Counters
  /\ \A k \in DOMAIN counters : counters[k].count \in Nat \ {0}
  /\ value \in [Requests -> Nat \cup {None}]
  /\ remaining \in [Requests -> Nat \cup {None}]
  /\ ranAt \in [Requests -> (0 .. MaxTime) \cup {None}]
  /\ sends \in [Requests -> 0 .. Retries + 1]
  /\ late \in [Requests -> SUBSET (1 .. Retries + 1)]

(* The requests counted by k before its window ended.                      *)
CountedInWindow(k) ==
  {r \in Requests : key[r] = k /\ ranAt[r] # None /\ ranAt[r] < k.start + WindowSec}

Keys == {key[r] : r \in Requests} \ {None}

Positive(n) == IF n < 0 THEN 0 ELSE n

(* Of the requests of a tenant on a route, no more than its limit pass in  *)
(* one window: the Redis key outlives the window it counts, although its   *)
(* life begins with the first request and not with the window.  (The       *)
(* limiter's key holds the route id: a tenant has its limit once on each   *)
(* route, not once in all as RUNBOOK has it.)                              *)
QuotaPerWindow ==
  \A k \in Keys :
    ~ k.auth => Cardinality({r \in CountedInWindow(k) : pc[r] = "passed"})
                  <= Positive(Limit[k.principal])

(* X-RateLimit-Remaining is kept: a request told that n are left is        *)
(* followed by at most n others in its window.                             *)
RemainingHolds ==
  \A k \in Keys : \A r \in CountedInWindow(k) :
    Cardinality({q \in CountedInWindow(k) :
                   /\ value[q] > value[r]
                   /\ pc[q] = IF k.auth THEN "unauthorized" ELSE "passed"})
      <= remaining[r]

(* Failed authentications are throttled: of those that the limiter counts  *)
(* for an address on a route in one window, at most                        *)
(* AUTH_FAILURE_LIMIT_PER_WINDOW are answered 401, the others 429.  Out of *)
(* its reach are those for which the limiter raised, answered 401 however  *)
(* many they are (`except Exception: return'), and the headers on which    *)
(* the comparison itself raises, answered 500 and never counted.           *)
FailuresThrottled ==
  \A k \in Keys :
    k.auth => Cardinality({r \in CountedInWindow(k) : pc[r] = "unauthorized"})
                <= Positive(FailureLimit)

(* r was accepted as a request of k's tenant on k's route.                 *)
Owns(r, k) ==
  /\ req[r] # None /\ ~ Refused(req[r])
  /\ Tenant(req[r]) = k.principal /\ req[r].route = k.route

(* A tenant's quota is spent by its own requests alone: a counter never    *)
(* exceeds the number of scripts sent for requests that were accepted as   *)
(* the tenant's.  (A request whose script the library sent again may be    *)
(* counted once per transmission.)                                         *)
OwnRequestsOnly ==
  \A k \in DOMAIN counters :
    k.principal \notin Hosts =>
      counters[k].count <=
        Cardinality({x \in Requests \X (1 .. Retries + 1) :
                       Owns(x[1], k) /\ x[2] <= sends[x[1]]})

=============================================================================
