------------------------------- MODULE Retry -------------------------------
(***************************************************************************)
(* One provider call under the retry policy: run_with_retry and the error  *)
(* taxonomy (app/common/utils/retry.py), with the failures the LLM and TTS *)
(* HTTP clients turn into retry signals (app/adapters/outbound/            *)
(* vllm_http_client.py, gptsovits_http_client.py).                         *)
(*                                                                         *)
(* Time is counted in ticks.  An attempt lasts at most MaxLatency ticks    *)
(* (the httpx timeouts); a sleep lasts exactly its delay.                  *)
(***************************************************************************)
EXTENDS Integers

CONSTANTS
  RetryCount,     \* HTTP_RETRY_COUNT or its override per provider
  BaseDelay,      \* HTTP_RETRY_BASE_DELAY_SEC
  MaxDelay,       \* HTTP_RETRY_MAX_DELAY_SEC
  JitterEnabled,  \* HTTP_RETRY_JITTER_ENABLED
  JitterRatio,    \* HTTP_RETRY_JITTER_RATIO, a whole number here
  Budget,         \* HTTP_RETRY_TOTAL_TIMEOUT_SEC
  MaxLatency,     \* bound: ticks one attempt may take
  Statuses        \* HTTP error statuses the providers answer with

ASSUME RetryAssumption ==
  /\ RetryCount \in Int /\ JitterRatio \in Int /\ Budget \in Int
  /\ BaseDelay \in Nat /\ MaxDelay \in Nat /\ MaxLatency \in Nat
  /\ JitterEnabled \in BOOLEAN
  /\ Statuses \subseteq 400 .. 599

VARIABLES
  provider,       \* "llm" or "tts"
  idempotent,     \* the signal's flag: true for llm, a setting for tts
  state,          \* "request", "sleeping", "returned", "raised", "cancelled"
  attempt,        \* loop variable of run_with_retry
  elapsed,        \* ticks since run_with_retry began
  delay,          \* delay of the current sleep
  cause,          \* failure of the last attempt
  performed       \* how often the provider did the work (history)

vars == <<provider, idempotent, state, attempt, elapsed, delay, cause, performed>>

-----------------------------------------------------------------------------
(* Failures of one attempt and the signals the clients attach to them.     *)

Failures ==
  {"connect_timeout", "read_timeout", "other_timeout", "network_error",
   "transport_error", "invalid_json", "invalid_body", "malformed"}

(* A status outside 4xx/5xx stands for "none".                             *)
Causes == [type : Failures, status : {0}] \cup [type : {"http_status"}, status : Statuses]

NoCause == [type |-> "none", status |-> 0]

(* The httpx exception classes and the parser's checks, as RetrySignal     *)
(* fields.  A body with no choices or of another shape raises without a    *)
(* signal ("malformed").                                                   *)
Signal(f) ==
  [signalled |-> f.type # "malformed",
   http_status |-> f.status,
   timeout_type |-> IF f.type \in {"connect_timeout", "read_timeout"} THEN f.type
                    ELSE IF f.type = "other_timeout" THEN "total_timeout" ELSE "none",
   exception_type |-> IF f.type \in {"connect_timeout", "read_timeout", "other_timeout"}
                        THEN "timeout" ELSE f.type]

(* As ShouldRetry, with every timeout retried like a connect timeout.      *)
ShouldRetryTimeouts(f) ==
  LET s == Signal(f) IN
  /\ s.signalled
  /\ CASE s.http_status = 429 -> TRUE
       [] s.http_status \in {500, 502, 503, 504} -> idempotent
       [] s.http_status \in 400 .. 499 -> FALSE
       [] s.timeout_type # "none" -> TRUE
       [] s.exception_type = "network_error" -> idempotent
       [] OTHER -> FALSE

(* should_retry_by_taxonomy; the first case that applies decides.          *)
ShouldRetry(f) ==
  LET s == Signal(f)
      network == {"connect_error", "network_error", "connection_reset"}
  IN
  /\ s.signalled
  /\ IF s.http_status = 429 THEN TRUE
     ELSE IF s.http_status \in {500, 502, 503, 504} THEN idempotent
     ELSE IF s.http_status \in 400 .. 499 THEN FALSE
     ELSE IF s.timeout_type = "connect_timeout" THEN TRUE
     ELSE IF s.timeout_type # "none" THEN idempotent
     ELSE s.exception_type \in network /\ idempotent

(* What the provider may have done before the attempt failed: nothing when *)
(* the connection was never made or the request was throttled, the whole   *)
(* work when it answered 200, either otherwise.                            *)
MayHavePerformed(f) ==
  CASE f.type = "connect_timeout" \/ f.status = 429 -> {FALSE}
    [] f.type \in {"invalid_json", "invalid_body", "malformed"} -> {TRUE}
    [] OTHER -> BOOLEAN

-----------------------------------------------------------------------------
(* run_with_retry.                                                         *)

MaxAttempts == IF RetryCount + 1 < 1 THEN 1 ELSE RetryCount + 1

Backoff(n) ==
  LET exponential == BaseDelay * 2 ^ (n - 1) IN
  IF exponential < MaxDelay THEN exponential ELSE MaxDelay

Jitters(d) ==
  IF JitterEnabled /\ JitterRatio > 0 THEN 0 .. (d * JitterRatio) ELSE {0}

Init ==
  /\ provider \in {"llm", "tts"}
  /\ idempotent \in IF provider = "llm" THEN {TRUE} ELSE BOOLEAN
  /\ state = "request"
  /\ attempt = 1
  /\ elapsed = 0
  /\ delay = 0
  /\ cause = NoCause
  /\ performed = 0

Count(did) == performed' = IF did THEN performed + 1 ELSE performed

Succeed(d) ==
  /\ state = "request"
  /\ state' = "returned"
  /\ elapsed' = elapsed + d
  /\ cause' = NoCause
  /\ Count(TRUE)
  /\ UNCHANGED <<provider, idempotent, attempt, delay>>

(* attempt > max_attempts: one attempt more than the policy.               *)
OutOfAttemptsLate == attempt > MaxAttempts

OutOfAttempts == attempt >= MaxAttempts

(* The delay is not added to the time already spent.                       *)
OverBudgetIgnoringDelay(e, d) == e > Budget

OverBudget(e, d) == e + d > Budget

(* The except branch, which runs without an await: re-raise, or sleep.     *)
FailAttempt(d, f, did, jitter) ==
  LET wait == Backoff(attempt) + jitter IN
  /\ state = "request"
  /\ elapsed' = elapsed + d
  /\ cause' = f
  /\ Count(did)
  /\ IF OutOfAttempts \/ ~ ShouldRetry(f) \/ OverBudget(elapsed', wait)
       THEN state' = "raised" /\ UNCHANGED delay
       ELSE state' = "sleeping" /\ delay' = wait
  /\ UNCHANGED <<provider, idempotent, attempt>>

(* asyncio.sleep returns; the loop goes round.                             *)
Wake ==
  /\ state = "sleeping"
  /\ state' = "request"
  /\ elapsed' = elapsed + delay
  /\ attempt' = attempt + 1
  /\ delay' = 0
  /\ UNCHANGED <<provider, idempotent, cause, performed>>

(* The stream timeout or a disconnect cancels the caller: CancelledError   *)
(* is no Exception, so nothing is retried.                                 *)
Cancel(did) ==
  /\ state \in {"request", "sleeping"}
  /\ did => state = "request"
  /\ state' = "cancelled"
  /\ Count(did)
  /\ UNCHANGED <<provider, idempotent, attempt, elapsed, delay, cause>>

Next ==
  \/ \E d \in 0 .. MaxLatency :
       \/ Succeed(d)
       \/ \E f \in Causes : \E did \in MayHavePerformed(f) :
            \E j \in Jitters(Backoff(attempt)) : FailAttempt(d, f, did, j)
  \/ Wake
  \/ \E did \in BOOLEAN : Cancel(did)

Spec == Init /\ [][Next]_vars

-----------------------------------------------------------------------------
(* Properties.                                                             *)

TypeOK ==
  /\ provider \in {"llm", "tts"} /\ idempotent \in BOOLEAN
  /\ state \in {"request", "sleeping", "returned", "raised", "cancelled"}
  /\ attempt \in 1 .. MaxAttempts
  /\ elapsed \in Nat /\ delay \in Nat
  /\ cause \in Causes \cup {NoCause}
  /\ performed \in 0 .. MaxAttempts

(* A synthesis that is not idempotent is performed at most once, however   *)
(* the attempts fail: what is retried never reached the provider's work.   *)
NotRepeated == ~ idempotent => performed <= 1

(* RUNBOOK: retries happen only within HTTP_RETRY_TOTAL_TIMEOUT_SEC.  Each *)
(* attempt after the first begins within the budget.                       *)
RetriesStartInBudget == state = "request" /\ attempt > 1 => elapsed <= Budget

(* The retry matrix of docs/RETRY_POLICY.md, by condition; a transient     *)
(* network error, which it does not list, counts as a read timeout.        *)
MatrixAllows(f) ==
  \/ f.status = 429
  \/ f.type = "connect_timeout"
  \/ idempotent /\ f.status \in {500, 502, 503, 504}
  \/ idempotent /\ f.type \in {"read_timeout", "other_timeout", "network_error"}

(* The client sleeps for a retry exactly when the matrix allows one, an    *)
(* attempt is left and the budget covers some delay.                       *)
FollowsMatrix ==
  /\ state = "sleeping" => MatrixAllows(cause)
  /\ state = "raised" /\ MatrixAllows(cause) /\ attempt < MaxAttempts
       => \E j \in Jitters(Backoff(attempt)) : elapsed + Backoff(attempt) + j > Budget

(* RETRY_POLICY: the whole call does not exceed the total timeout budget.  *)
TotalWithinBudget == elapsed <= Budget

=============================================================================
