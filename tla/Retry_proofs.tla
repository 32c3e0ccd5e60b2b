---------------------------- MODULE Retry_proofs ----------------------------
(***************************************************************************)
(* Proofs about Retry, for every retry count, delay, budget and latency.   *)
(*                                                                         *)
(* The argument is one inductive invariant: an attempt in flight or a      *)
(* sleep before one has at most its predecessors' work behind it, and none *)
(* at all when the call is not idempotent, because ShouldRetry then lets   *)
(* only those failures through that MayHavePerformed says did nothing; and *)
(* a sleep was entered only with its end inside the budget.                *)
(***************************************************************************)
EXTENDS Retry, FiniteSetTheorems, TLAPS

-----------------------------------------------------------------------------
(* The inductive invariant.                                                *)
RetryInv ==
  /\ TypeOK
  /\ NotRepeated
  /\ RetriesStartInBudget
  /\ state = "request" => performed < attempt
  /\ state = "sleeping" => performed <= attempt /\ attempt < MaxAttempts
  /\ state = "sleeping" => elapsed + delay <= Budget
  /\ ~ idempotent /\ state \in {"request", "sleeping"} => performed = 0

-----------------------------------------------------------------------------
(* A power of two counts the subsets of an interval.                       *)
LEMMA PowerType == ASSUME NEW n \in Nat PROVE 2 ^ n \in Nat
<1> DEFINE S == 1 .. n
<1>1. IsFiniteSet(S) /\ Cardinality(S) = n
  BY FS_Interval
<1>2. Cardinality(SUBSET S) = 2 ^ Cardinality(S) /\ IsFiniteSet(SUBSET S)
  BY <1>1, FS_SUBSET
<1>3. Cardinality(SUBSET S) \in Nat
  BY <1>2, FS_CardinalityType
<1> HIDE DEF S
<1> QED BY <1>1, <1>2, <1>3

(* A delay is a number of ticks.                                           *)
LEMMA BackoffType == ASSUME NEW n \in Nat, n >= 1 PROVE Backoff(n) \in Nat
<1>1. 2 ^ (n - 1) \in Nat
  BY PowerType
<1> DEFINE p == 2 ^ (n - 1)
<1> HIDE DEF p
<1>2. BaseDelay * p \in Nat
  BY <1>1, RetryAssumption DEF p
<1> QED BY <1>2, RetryAssumption DEF Backoff, p

(* There is at least one attempt.                                          *)
LEMMA MaxAttemptsType == MaxAttempts \in Nat /\ MaxAttempts >= 1
BY RetryAssumption DEF MaxAttempts

(* A retried failure of a call that is not idempotent reached no work.     *)
LEMMA RetriedDidNothing ==
  ASSUME ~ idempotent, NEW f \in Causes, ShouldRetry(f),
         NEW did \in MayHavePerformed(f)
  PROVE  did = FALSE
<1>1. f.status = 429 \/ f.type = "connect_timeout"
  <2>1. CASE f \in [type : Failures, status : {0}]
    BY <2>1 DEF Failures, ShouldRetry, Signal
  <2>2. CASE f \in [type : {"http_status"}, status : Statuses]
    BY <2>2 DEF ShouldRetry, Signal
  <2> QED BY <2>1, <2>2 DEF Causes
<1>2. f.type \notin {"invalid_json", "invalid_body", "malformed"}
  BY <1>1, RetryAssumption DEF Causes, Failures
<1> QED BY <1>1, <1>2 DEF MayHavePerformed

(* Whether the work was done is a truth value.                             *)
LEMMA DidIsBoolean ==
  ASSUME NEW f \in Causes, NEW did \in MayHavePerformed(f)
  PROVE  did \in BOOLEAN
<1>1. CASE f.type = "connect_timeout" \/ f.status = 429
  BY <1>1 DEF MayHavePerformed
<1>2. CASE /\ ~ (f.type = "connect_timeout" \/ f.status = 429)
           /\ f.type \in {"invalid_json", "invalid_body", "malformed"}
  BY <1>2 DEF MayHavePerformed
<1>3. CASE /\ ~ (f.type = "connect_timeout" \/ f.status = 429)
           /\ f.type \notin {"invalid_json", "invalid_body", "malformed"}
  BY <1>3 DEF MayHavePerformed
<1> QED BY <1>1, <1>2, <1>3

(* No attempt was made at first.                                           *)
LEMMA InitRetry == Init => RetryInv
<1> SUFFICES ASSUME Init PROVE RetryInv
  OBVIOUS
<1>1. idempotent \in BOOLEAN /\ provider \in {"llm", "tts"}
  BY DEF Init
<1>2. TypeOK
  BY <1>1, MaxAttemptsType DEF Init, TypeOK
<1> QED BY <1>2 DEF Init, RetryInv, NotRepeated, RetriesStartInBudget

(* Every step keeps the invariant.                                         *)
LEMMA NextRetry == RetryInv /\ [Next]_vars => RetryInv'
<1> SUFFICES ASSUME RetryInv, [Next]_vars PROVE RetryInv'
  OBVIOUS
<1> USE MaxAttemptsType, RetryAssumption DEF NotRepeated, RetriesStartInBudget
<1>1. ASSUME NEW d \in 0 .. MaxLatency, Succeed(d) PROVE RetryInv'
  <2>1. d \in Nat
    OBVIOUS
  <2> QED BY <1>1, <2>1 DEF Succeed, Count, RetryInv, TypeOK
<1>2. ASSUME NEW d \in 0 .. MaxLatency, NEW f \in Causes,
             NEW did \in MayHavePerformed(f), NEW j \in Jitters(Backoff(attempt)),
             FailAttempt(d, f, did, j)
      PROVE  RetryInv'
  <2> DEFINE wait == Backoff(attempt) + j
  <2>1. did \in BOOLEAN
    BY DidIsBoolean
  <2>2. /\ state = "request" /\ cause' = f
        /\ elapsed' = elapsed + d
        /\ performed' = IF did THEN performed + 1 ELSE performed
        /\ UNCHANGED <<provider, idempotent, attempt>>
    BY <1>2 DEF FailAttempt, Count
  <2>3. CASE OutOfAttempts \/ ~ ShouldRetry(f) \/ OverBudget(elapsed', wait)
    <3>1. state' = "raised" /\ UNCHANGED delay
      BY <1>2, <2>3 DEF FailAttempt
    <3> QED BY <2>1, <2>2, <3>1 DEF RetryInv, TypeOK
  <2>4. CASE ~ (OutOfAttempts \/ ~ ShouldRetry(f) \/ OverBudget(elapsed', wait))
    <3>1. state' = "sleeping" /\ delay' = wait
      BY <1>2, <2>4 DEF FailAttempt
    <3>2. ~ idempotent => did = FALSE
      BY <2>4, RetriedDidNothing
    <3>3. attempt < MaxAttempts /\ ~ (elapsed' + delay' > Budget)
      BY <2>4, <3>1 DEF OutOfAttempts, OverBudget, RetryInv, TypeOK
    <3>4. Backoff(attempt) \in Nat /\ j \in Nat
      BY BackoffType DEF Jitters, RetryInv, TypeOK
    <3> QED BY <2>1, <2>2, <3>1, <3>2, <3>3, <3>4 DEF RetryInv, TypeOK
  <2> QED BY <2>3, <2>4
<1>3. CASE Wake
  BY <1>3 DEF Wake, RetryInv, TypeOK
<1>4. ASSUME NEW did \in BOOLEAN, Cancel(did) PROVE RetryInv'
  BY <1>4 DEF Cancel, Count, RetryInv, TypeOK
<1>5. CASE UNCHANGED vars
  BY <1>5 DEF vars, RetryInv, TypeOK
<1> QED BY <1>1, <1>2, <1>3, <1>4, <1>5 DEF Next

(* The invariant holds in every reachable state.                           *)
LEMMA RetryInductive == Spec => []RetryInv
BY InitRetry, NextRetry, PTL DEF Spec

(* The attempts stay within the policy's count, and so does the number of  *)
(* times the provider did the work.                                        *)
THEOREM AttemptsBounded == Spec => []TypeOK
<1>1. RetryInv => TypeOK
  BY DEF RetryInv
<1> QED BY <1>1, RetryInductive, PTL

(* A synthesis that is not idempotent is never performed twice by one      *)
(* call, whatever the retry settings.                                      *)
THEOREM SynthesizedOnce == Spec => []NotRepeated
<1>1. RetryInv => NotRepeated
  BY DEF RetryInv, NotRepeated
<1> QED BY <1>1, RetryInductive, PTL

(* No attempt after the first begins outside the total budget.             *)
THEOREM RetriesInBudget == Spec => []RetriesStartInBudget
<1>1. RetryInv => RetriesStartInBudget
  BY DEF RetryInv
<1> QED BY <1>1, RetryInductive, PTL

-----------------------------------------------------------------------------
(* The retry matrix.                                                       *)

(* should_retry_by_taxonomy, over the signals the clients attach, is the   *)
(* documented matrix.                                                      *)
LEMMA TaxonomyIsMatrix ==
  ASSUME idempotent \in BOOLEAN, NEW f \in Causes
  PROVE  ShouldRetry(f) <=> MatrixAllows(f)
<1>1. CASE f \in [type : Failures, status : {0}]
  <2>1. f.status = 0 /\ f.type \in Failures
    BY <1>1
  <2>2. CASE f.type = "connect_timeout"
    <3>1. Signal(f).signalled = TRUE /\ Signal(f).http_status = 0
      BY <2>1, <2>2 DEF Signal
    <3>2. Signal(f).timeout_type = "connect_timeout"
      BY <2>2 DEF Signal
    <3> QED BY <2>2, <3>1, <3>2 DEF ShouldRetry, MatrixAllows
  <2>3. CASE f.type = "read_timeout"
    BY <2>1, <2>3 DEF ShouldRetry, Signal, MatrixAllows
  <2>4. CASE f.type = "other_timeout"
    BY <2>1, <2>4 DEF ShouldRetry, Signal, MatrixAllows
  <2>5. CASE f.type \notin {"connect_timeout", "read_timeout", "other_timeout"}
    BY <2>1, <2>5 DEF ShouldRetry, Signal, MatrixAllows, Failures
  <2> QED BY <2>2, <2>3, <2>4, <2>5
<1>2. CASE f \in [type : {"http_status"}, status : Statuses]
  <2>0. f.type = "http_status" /\ f.status \in Statuses
    BY <1>2
  <2>1. f.type = "http_status" /\ f.status \in 400 .. 599
    <3>1. \A s \in Statuses : s \in 400 .. 599
      BY RetryAssumption
    <3> QED BY <2>0, <3>1
  <2>2. Signal(f).signalled = TRUE /\ Signal(f).http_status = f.status
    BY <2>1 DEF Signal
  <2>3. Signal(f).timeout_type = "none" /\ Signal(f).exception_type = "http_status"
    BY <2>1 DEF Signal
  <2>4. CASE f.status = 429
    BY <2>2, <2>4 DEF ShouldRetry, MatrixAllows
  <2>5. CASE f.status \in {500, 502, 503, 504}
    BY <2>1, <2>2, <2>5 DEF ShouldRetry, MatrixAllows
  <2>6. CASE f.status \notin {429, 500, 502, 503, 504}
    BY <2>1, <2>2, <2>3, <2>6 DEF ShouldRetry, MatrixAllows
  <2> QED BY <2>4, <2>5, <2>6
<1> QED BY <1>1, <1>2 DEF Causes

(* A call sleeps for a retry only where the matrix allows one, and gives   *)
(* up a retry the matrix allows only for want of attempts or of time.      *)
THEOREM MatrixFollowed == Spec => []FollowsMatrix
<1>1. Init => FollowsMatrix
  BY DEF Init, FollowsMatrix
<1>2. RetryInv /\ FollowsMatrix /\ [Next]_vars => FollowsMatrix'
  <2> SUFFICES ASSUME RetryInv, FollowsMatrix, [Next]_vars PROVE FollowsMatrix'
    OBVIOUS
  <2>1. ASSUME NEW d \in 0 .. MaxLatency, Succeed(d) PROVE FollowsMatrix'
    BY <2>1 DEF Succeed, FollowsMatrix
  <2>2. ASSUME NEW d \in 0 .. MaxLatency, NEW f \in Causes,
               NEW did \in MayHavePerformed(f), NEW j \in Jitters(Backoff(attempt)),
               FailAttempt(d, f, did, j)
        PROVE  FollowsMatrix'
    <3> DEFINE wait == Backoff(attempt) + j
    <3>1. cause' = f /\ UNCHANGED <<idempotent, attempt>>
      BY <2>2 DEF FailAttempt
    <3>2. ShouldRetry(f) <=> MatrixAllows(f)
      BY TaxonomyIsMatrix DEF RetryInv, TypeOK
    <3>3. MatrixAllows(cause)' <=> MatrixAllows(f)
      BY <3>1 DEF MatrixAllows
    <3>4. CASE OutOfAttempts \/ ~ ShouldRetry(f) \/ OverBudget(elapsed', wait)
      <4>1. state' = "raised"
        BY <2>2, <3>4 DEF FailAttempt
      <4>2. ASSUME MatrixAllows(f), attempt < MaxAttempts
            PROVE  elapsed' + Backoff(attempt) + j > Budget
        <5>1. ~ OutOfAttempts
          BY <4>2, MaxAttemptsType DEF OutOfAttempts, RetryInv, TypeOK
        <5>2. elapsed' + (Backoff(attempt) + j) > Budget
          BY <3>2, <3>4, <4>2, <5>1 DEF OverBudget
        <5>3. Backoff(attempt) \in Nat /\ j \in Nat /\ elapsed' \in Int
          BY <2>2, BackoffType, RetryAssumption, MaxAttemptsType
             DEF Jitters, RetryInv, TypeOK, FailAttempt
        <5> QED BY <5>2, <5>3
      <4> QED BY <3>1, <3>3, <4>1, <4>2 DEF FollowsMatrix
    <3>5. CASE ~ (OutOfAttempts \/ ~ ShouldRetry(f) \/ OverBudget(elapsed', wait))
      <4>1. state' = "sleeping"
        BY <2>2, <3>5 DEF FailAttempt
      <4> QED BY <3>2, <3>3, <3>5, <4>1 DEF FollowsMatrix
    <3> QED BY <3>4, <3>5
  <2>3. CASE Wake
    BY <2>3 DEF Wake, FollowsMatrix
  <2>4. ASSUME NEW did \in BOOLEAN, Cancel(did) PROVE FollowsMatrix'
    BY <2>4 DEF Cancel, FollowsMatrix
  <2>5. CASE UNCHANGED vars
    BY <2>5 DEF vars, FollowsMatrix, MatrixAllows
  <2> QED BY <2>1, <2>2, <2>3, <2>4, <2>5 DEF Next
<1> QED BY <1>1, <1>2, RetryInductive, PTL DEF Spec

=============================================================================
