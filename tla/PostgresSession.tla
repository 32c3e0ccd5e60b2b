-------------------------- MODULE PostgresSession --------------------------
(***************************************************************************)
(* The PostgreSQL session repository                                       *)
(* (app/adapters/outbound/postgres_session_repository.py): the lazily made *)
(* connection pool, the transactions of append_messages and set_history,   *)
(* the reads, and close().                                                 *)
(*                                                                         *)
(* Each member of Calls is one asyncio task running one repository method. *)
(* A step is what a task does between two awaits: one SQL statement, or    *)
(* one interaction with the pool or its lock.  The database is READ        *)
(* COMMITTED: a statement sees the rows committed before it and its own    *)
(* transaction's changes; a row lock is held until commit or rollback.     *)
(***************************************************************************)
EXTENDS History, FiniteSets, Functions

CONSTANTS
  Sessions,   \* session ids
  Calls,      \* repository calls, each run once
  Ops,        \* operations a call may perform
  Messages,   \* message contents, opaque
  None,       \* Python's None, SQL's NULL, "nobody"
  MaxTurns,   \* MAX_HISTORY_TURNS, self._max_history_turns
  MaxPool,    \* self._max_pool_size
  MaxIndex    \* largest value of the INTEGER column turn_index

ASSUME NoneAssumption == None \notin Int \cup Calls \cup {"append"}

ASSUME BoundsAssumption ==
  /\ MaxTurns \in Int
  /\ MaxPool \in Nat \ {0}
  /\ MaxIndex \in Nat

Operation ==
  [kind : {"append", "set", "get", "ping"}, session : Sessions,
   msgs : Seq(Messages), max : Int \cup {None}]

ASSUME OpsAssumption == Ops \subseteq Operation

VARIABLES
  pool,       \* self._pool: None or the number of a pool
  openPools,  \* pools created and not closed
  created,    \* how many pools were created
  poolLock,   \* holder of self._pool_lock
  closer,     \* close(): "open" (not called), "closing", "closed"
  pc,         \* call -> where it is
  op,         \* call -> its operation
  mypool,     \* call -> what _ensure_pool returned
  outcome,    \* call -> "ok" or "error" (exception, cancellation, False)
  applied,    \* call -> its effect is in the database (history variable)
  got,        \* call -> rows read by get_history
  last,       \* call -> last_index of append_messages
  ins,        \* call -> its uncommitted new rows, turn_index -> message
  del,        \* call -> committed rows its transaction deletes
  rowLock,    \* session -> transaction that holds the chat_sessions row
  sess,       \* session -> chat_sessions row: "absent", "live", "expired"
  rows        \* session -> committed chat_messages, turn_index -> message

poolVars == <<pool, openPools, created, poolLock, closer>>
txVars   == <<last, ins, del, rowLock>>
dbVars   == <<sess, rows>>
callVars == <<op, mypool, outcome, applied, got>>
vars     == <<poolVars, pc, callVars, txVars, dbVars>>

-----------------------------------------------------------------------------
(* Limits.                                                                 *)

(* _resolve_max_messages                                                   *)
ResolveMax(max) ==
  IF max # None THEN AtLeastZero(max)
  ELSE IF MaxTurns > 0 THEN MaxTurns * 2
  ELSE None

(* _normalize_messages                                                     *)
Normalize(msgs) == Recent(msgs, AtLeastZero(MaxTurns * 2))

(* The messages a call writes.                                             *)
Payload(c) == IF op[c].kind = "set" THEN Normalize(op[c].msgs) ELSE op[c].msgs

(* One index is skipped.                                                   *)
FirstIndexSkips(c) == IF op[c].kind = "set" THEN 0 ELSE last[c] + 2

(* turn_index of the first of them.                                        *)
FirstIndex(c) == IF op[c].kind = "set" THEN 0 ELSE last[c] + 1

NewIndexes(c) == FirstIndex(c) .. (FirstIndex(c) + Len(Payload(c)) - 1)

(* COALESCE(MAX(turn_index), -1)                                           *)
LastIndex(r) ==
  IF DOMAIN r = {} THEN -1
  ELSE CHOOSE i \in DOMAIN r : \A j \in DOMAIN r : j <= i

(* ORDER BY turn_index ASC: the i-th message is the one with i - 1 smaller *)
(* indexes.                                                                *)
Ordered(r) ==
  [i \in 1 .. Cardinality(DOMAIN r) |->
     r[CHOOSE k \in DOMAIN r : Cardinality({j \in DOMAIN r : j < k}) = i - 1]]

(* What a SELECT of another transaction returns now.                       *)
Visible(s) == IF sess[s] = "live" THEN Ordered(rows[s]) ELSE << >>

-----------------------------------------------------------------------------
(* Where a call may be.                                                    *)

TxPcs == {"lock", "count", "clear", "insert", "trim", "commit"}
ConnPcs == TxPcs \cup {"upsert", "query", "release"}

(* The caller has got its exception, the server has not noticed that the   *)
(* connection is lost: its transaction goes on, with COMMIT under way      *)
(* ("orphan") or not ("doomed").                                           *)
LeftPcs == {"orphan", "doomed"}

(* A transaction is open past its upsert.                                  *)
OpenPcs == TxPcs \cup LeftPcs

Pcs == ConnPcs \cup LeftPcs
         \cup {"idle", "poolwait", "creating", "acquire", "done"}

NoRows == [i \in {} |-> None]

Init ==
  /\ pool = None /\ openPools = {} /\ created = 0 /\ poolLock = None
  /\ closer = "open"
  /\ pc = [c \in Calls |-> "idle"]
  /\ op = [c \in Calls |-> None]
  /\ mypool = [c \in Calls |-> None]
  /\ outcome = [c \in Calls |-> None]
  /\ applied = [c \in Calls |-> FALSE]
  /\ got = [c \in Calls |-> None]
  /\ last = [c \in Calls |-> -1]
  /\ ins = [c \in Calls |-> NoRows]
  /\ del = [c \in Calls |-> {}]
  /\ rowLock = [s \in Sessions |-> None]
  /\ sess = [s \in Sessions |-> "absent"]
  /\ rows = [s \in Sessions |-> NoRows]

Goto(c, l) == pc' = [pc EXCEPT ![c] = l]

-----------------------------------------------------------------------------
(* Entry and _ensure_pool.                                                 *)

(* append_messages returns at once when there is nothing to append.        *)
StartEmptyAppend(c, o) ==
  /\ pc[c] = "idle"
  /\ o.kind = "append" /\ o.msgs = << >>
  /\ op' = [op EXCEPT ![c] = o]
  /\ outcome' = [outcome EXCEPT ![c] = "ok"]
  /\ Goto(c, "done")
  /\ UNCHANGED <<poolVars, mypool, applied, got, txVars, dbVars>>

(* Up to the first await: self._pool is tested without the lock.           *)
Start(c, o) ==
  /\ pc[c] = "idle"
  /\ ~ (o.kind = "append" /\ o.msgs = << >>)
  /\ op' = [op EXCEPT ![c] = o]
  /\ IF pool # None
       THEN mypool' = [mypool EXCEPT ![c] = pool] /\ Goto(c, "acquire")
       ELSE UNCHANGED mypool /\ Goto(c, "poolwait")
  /\ UNCHANGED <<poolVars, outcome, applied, got, txVars, dbVars>>

(* As LockPool, but trusting the test made before the lock was held.       *)
LockPoolNoRecheck(c) ==
  /\ pc[c] = "poolwait" /\ poolLock = None
  /\ poolLock' = c
  /\ Goto(c, "creating")
  /\ UNCHANGED <<pool, openPools, created, closer, op, mypool, outcome,
                 applied, got, txVars, dbVars>>

(* Entering `async with self._pool_lock': self._pool is tested again.      *)
LockPool(c) ==
  /\ pc[c] = "poolwait" /\ poolLock = None
  /\ IF pool = None
       THEN /\ poolLock' = c
            /\ Goto(c, "creating")
            /\ UNCHANGED mypool
       ELSE /\ mypool' = [mypool EXCEPT ![c] = pool]
            /\ Goto(c, "acquire")
            /\ UNCHANGED poolLock
  /\ UNCHANGED <<pool, openPools, created, closer, op, outcome, applied, got,
                 txVars, dbVars>>

(* asyncpg.create_pool returns; the lock is released on leaving the block. *)
CreatePool(c) ==
  /\ pc[c] = "creating"
  /\ created' = created + 1
  /\ pool' = created'
  /\ openPools' = openPools \cup {created'}
  /\ poolLock' = None
  /\ mypool' = [mypool EXCEPT ![c] = created']
  /\ Goto(c, "acquire")
  /\ UNCHANGED <<closer, op, outcome, applied, got, txVars, dbVars>>

(* The lock is taken and released by hand, not on the exception path.      *)
EnsureFailKeepsLock(c) ==
  /\ pc[c] \in {"poolwait", "creating"}
  /\ outcome' = [outcome EXCEPT ![c] = "error"]
  /\ Goto(c, "done")
  /\ UNCHANGED <<poolVars, op, mypool, applied, got, txVars, dbVars>>

(* create_pool raises, or the task is cancelled while it waits or creates: *)
(* `async with' releases the lock, self._pool stays None.                  *)
EnsureFail(c) ==
  /\ pc[c] \in {"poolwait", "creating"}
  /\ poolLock' = IF poolLock = c THEN None ELSE poolLock
  /\ outcome' = [outcome EXCEPT ![c] = "error"]
  /\ Goto(c, "done")
  /\ UNCHANGED <<pool, openPools, created, closer, op, mypool, applied, got,
                 txVars, dbVars>>

-----------------------------------------------------------------------------
(* pool.acquire() and its release.                                         *)

Connections(p) == {c \in Calls : pc[c] \in ConnPcs /\ mypool[c] = p}

Connected(c) == mypool[c] \in openPools

Acquire(c) ==
  /\ pc[c] = "acquire" /\ Connected(c)
  /\ Cardinality(Connections(mypool[c])) < MaxPool
  /\ Goto(c, IF op[c].kind \in {"append", "set"} THEN "upsert" ELSE "query")
  /\ UNCHANGED <<poolVars, callVars, txVars, dbVars>>

(* A pool that is closing or closed refuses (asyncpg.InterfaceError).      *)
Refused(c) == ~ Connected(c) \/ (closer = "closing" /\ mypool[c] = pool)

AcquireFail(c) ==
  /\ pc[c] = "acquire"
  /\ outcome' = [outcome EXCEPT ![c] = "error"]
  /\ Goto(c, "done")
  /\ UNCHANGED <<poolVars, op, mypool, applied, got, txVars, dbVars>>

Release(c) ==
  /\ pc[c] = "release"
  /\ Goto(c, "done")
  /\ UNCHANGED <<poolVars, callVars, txVars, dbVars>>

(* Cancelled, or the connection found broken, while it is given back.      *)
ReleaseFail(c) ==
  /\ pc[c] = "release"
  /\ outcome' = [outcome EXCEPT ![c] = "error"]
  /\ Goto(c, "done")
  /\ UNCHANGED <<poolVars, op, mypool, applied, got, txVars, dbVars>>

-----------------------------------------------------------------------------
(* Reads.                                                                  *)

(* get_history's SELECT, ping's SELECT 1.                                  *)
Query(c) ==
  /\ pc[c] = "query" /\ Connected(c)
  /\ IF op[c].kind = "get"
       THEN got' = [got EXCEPT ![c] = Visible(op[c].session)]
       ELSE UNCHANGED got
  /\ applied' = [applied EXCEPT ![c] = TRUE]
  /\ outcome' = [outcome EXCEPT ![c] = "ok"]
  /\ Goto(c, "release")
  /\ UNCHANGED <<poolVars, op, mypool, txVars, dbVars>>

-----------------------------------------------------------------------------
(* The write transactions, one SQL statement per step.                     *)

NoRowLock(s, c) == TRUE

(* The database grants the session row to one transaction at a time.       *)
RowFree(s, c) == rowLock[s] \in {None, c}

(* INSERT ... ON CONFLICT (session_id) DO UPDATE: a concurrent upsert of   *)
(* the same session waits for the other transaction to end.                *)
Upsert(c) ==
  /\ pc[c] = "upsert" /\ Connected(c)
  /\ RowFree(op[c].session, c)
  /\ rowLock' = [rowLock EXCEPT ![op[c].session] = c]
  /\ Goto(c, IF op[c].kind = "append" THEN "lock" ELSE "clear")
  /\ UNCHANGED <<poolVars, callVars, last, ins, del, dbVars>>

(* SELECT ... FOR UPDATE                                                   *)
LockSession(c) ==
  /\ pc[c] = "lock" /\ Connected(c)
  /\ RowFree(op[c].session, c)
  /\ rowLock' = [rowLock EXCEPT ![op[c].session] = c]
  /\ Goto(c, "count")
  /\ UNCHANGED <<poolVars, callVars, last, ins, del, dbVars>>

(* SELECT COALESCE(MAX(turn_index), -1)                                    *)
NextTurn(c) ==
  /\ pc[c] = "count" /\ Connected(c)
  /\ last' = [last EXCEPT ![c] = LastIndex(rows[op[c].session])]
  /\ Goto(c, "insert")
  /\ UNCHANGED <<poolVars, callVars, ins, del, rowLock, dbVars>>

(* set_history: DELETE of every message of the session; no INSERT when the *)
(* normalized list is empty.                                               *)
ClearSession(c) ==
  /\ pc[c] = "clear" /\ Connected(c)
  /\ del' = [del EXCEPT ![c] = DOMAIN rows[op[c].session]]
  /\ Goto(c, IF Payload(c) = << >> THEN "commit" ELSE "insert")
  /\ UNCHANGED <<poolVars, callVars, last, ins, rowLock, dbVars>>

(* The unique index (session_pk, turn_index) and the width of the column.  *)
Duplicate(c) ==
  NewIndexes(c) \cap (DOMAIN rows[op[c].session] \ del[c]) # {}

(* Only the first new index is compared with the bound.                    *)
OverflowFirstOnly(c) == FirstIndex(c) > MaxIndex

Overflow(c) == FirstIndex(c) + Len(Payload(c)) - 1 > MaxIndex

(* A row another transaction has inserted and not yet committed.           *)
Pending(c) ==
  \E d \in Calls \ {c} : /\ pc[d] \in OpenPcs
                         /\ op[d].session = op[c].session
                         /\ NewIndexes(c) \cap DOMAIN ins[d] # {}

InsertMessages(c) ==
  /\ pc[c] = "insert" /\ Connected(c)
  /\ ~ Pending(c) /\ ~ Duplicate(c) /\ ~ Overflow(c)
  /\ ins' = [ins EXCEPT ![c] =
               [i \in NewIndexes(c) |-> Payload(c)[i - FirstIndex(c) + 1]]]
  /\ Goto(c, IF op[c].kind = "append" /\ ResolveMax(op[c].max) # None
               THEN "trim" ELSE "commit")
  /\ UNCHANGED <<poolVars, callVars, last, del, rowLock, dbVars>>

(* The count of new messages is left out of `highest'.                     *)
TrimBoundStale(c) == last[c] - ResolveMax(op[c].max)

(* highest - limit                                                         *)
TrimBound(c) == last[c] + Len(op[c].msgs) - ResolveMax(op[c].max)

(* DELETE ... WHERE turn_index <= highest - limit, which may reach the     *)
(* rows this very transaction inserted.                                    *)
TrimMessages(c) ==
  /\ pc[c] = "trim" /\ Connected(c)
  /\ del' = [del EXCEPT ![c] =
               {i \in DOMAIN rows[op[c].session] : i <= TrimBound(c)}]
  /\ ins' = [ins EXCEPT ![c] =
               Restrict(@, {i \in DOMAIN @ : i > TrimBound(c)})]
  /\ Goto(c, "commit")
  /\ UNCHANGED <<poolVars, callVars, last, rowLock, dbVars>>

(* The session's rows once the transaction of c is committed.              *)
Committed(c) ==
  LET old == rows[op[c].session] IN
  [i \in (DOMAIN old \ del[c]) \cup DOMAIN ins[c] |->
     IF i \in DOMAIN ins[c] THEN ins[c][i] ELSE old[i]]

EndTransaction(c) ==
  /\ rowLock' = [s \in Sessions |-> IF rowLock[s] = c THEN None ELSE rowLock[s]]
  /\ ins' = [ins EXCEPT ![c] = NoRows]
  /\ del' = [del EXCEPT ![c] = {}]
  /\ last' = [last EXCEPT ![c] = -1]

(* COMMIT.  The caller learns of it (result "ok"), or the acknowledgement  *)
(* is lost or the task cancelled while it waits for it ("error").          *)
Commit(c, result) ==
  /\ pc[c] = "commit" /\ Connected(c)
  /\ rows' = [rows EXCEPT ![op[c].session] = Committed(c)]
  /\ sess' = [sess EXCEPT ![op[c].session] = "live"]
  /\ applied' = [applied EXCEPT ![c] = TRUE]
  /\ outcome' = [outcome EXCEPT ![c] = result]
  /\ EndTransaction(c)
  /\ Goto(c, "release")
  /\ UNCHANGED <<poolVars, op, mypool, got>>

(* A statement fails (error, lost connection, constraint, overflow) or the *)
(* task is cancelled in it: the transaction is rolled back.                *)
StatementFail(c) ==
  /\ pc[c] \in TxPcs \cup {"upsert", "query"}
  /\ outcome' = [outcome EXCEPT ![c] = "error"]
  /\ EndTransaction(c)
  /\ Goto(c, "release")
  /\ UNCHANGED <<poolVars, op, mypool, applied, got, dbVars>>

(* The connection is lost inside the transaction: the caller sees an error *)
(* and the pool drops the connection, while the server keeps the session   *)
(* row locked until it notices.                                            *)
LoseConnection(c) ==
  /\ pc[c] \in TxPcs
  /\ outcome' = [outcome EXCEPT ![c] = "error"]
  /\ Goto(c, IF pc[c] = "commit" THEN "orphan" ELSE "doomed")
  /\ UNCHANGED <<poolVars, op, mypool, applied, got, txVars, dbVars>>

(* The COMMIT had reached the server and is executed now.                  *)
LateCommit(c) ==
  /\ pc[c] = "orphan"
  /\ rows' = [rows EXCEPT ![op[c].session] = Committed(c)]
  /\ sess' = [sess EXCEPT ![op[c].session] = "live"]
  /\ applied' = [applied EXCEPT ![c] = TRUE]
  /\ EndTransaction(c)
  /\ Goto(c, "done")
  /\ UNCHANGED <<poolVars, op, mypool, outcome, got>>

(* The server notices and rolls back.                                      *)
LateRollback(c) ==
  /\ pc[c] \in LeftPcs
  /\ EndTransaction(c)
  /\ Goto(c, "done")
  /\ UNCHANGED <<poolVars, callVars, dbVars>>

-----------------------------------------------------------------------------
(* close(), called once at shutdown, and the passing of time.              *)

CloseBegin ==
  /\ closer = "open"
  /\ closer' = IF pool = None THEN "closed" ELSE "closing"
  /\ UNCHANGED <<pool, openPools, created, poolLock, pc, callVars, txVars, dbVars>>

(* Pool.close() waits until every connection is given back.                *)
CloseEnd ==
  /\ closer = "closing"
  /\ Connections(pool) = {}
  /\ closer' = "closed"
  /\ openPools' = openPools \ {pool}
  /\ pool' = None
  /\ UNCHANGED <<created, poolLock, pc, callVars, txVars, dbVars>>

(* Pool.close() is cancelled or fails: the pool is terminated, and the     *)
(* assignment self._pool = None is not reached.                            *)
CloseFail ==
  /\ closer = "closing"
  /\ closer' = "closed"
  /\ openPools' = openPools \ {pool}
  /\ UNCHANGED <<pool, created, poolLock, pc, callVars, txVars, dbVars>>

(* expires_at passes.                                                      *)
Expire(s) ==
  /\ sess[s] = "live"
  /\ sess' = [sess EXCEPT ![s] = "expired"]
  /\ UNCHANGED <<poolVars, pc, callVars, txVars, rows>>

-----------------------------------------------------------------------------

Call(c) ==
  \/ \E o \in Ops : StartEmptyAppend(c, o) \/ Start(c, o)
  \/ LockPool(c) \/ CreatePool(c) \/ EnsureFail(c)
  \/ Acquire(c) \/ AcquireFail(c) \/ Release(c) \/ ReleaseFail(c)
  \/ Query(c) \/ Upsert(c) \/ LockSession(c) \/ NextTurn(c) \/ ClearSession(c)
  \/ InsertMessages(c) \/ TrimMessages(c) \/ StatementFail(c)
  \/ \E result \in {"ok", "error"} : Commit(c, result)
  \/ LoseConnection(c) \/ LateCommit(c) \/ LateRollback(c)

Next ==
  \/ \E c \in Calls : Call(c)
  \/ CloseBegin \/ CloseEnd \/ CloseFail
  \/ \E s \in Sessions : Expire(s)

Spec == Init /\ [][Next]_vars

(* The steps a running call owes.  A statement that can succeed is not     *)
(* obliged to fail; one that cannot (no connection, constraint) is.  The   *)
(* server notices a lost connection in the end.                            *)
Progress(c) ==
  \/ LockPool(c) \/ CreatePool(c) \/ Acquire(c) \/ Release(c)
  \/ Refused(c) /\ AcquireFail(c)
  \/ Query(c) \/ Upsert(c) \/ LockSession(c) \/ NextTurn(c) \/ ClearSession(c)
  \/ InsertMessages(c) \/ TrimMessages(c) \/ Commit(c, "ok")
  \/ /\ ~ Connected(c) \/ (pc[c] = "insert" /\ (Duplicate(c) \/ Overflow(c)))
     /\ StatementFail(c)
  \/ LateRollback(c)

FairSpec ==
  /\ Spec
  /\ \A c \in Calls : WF_vars(Progress(c))
  /\ WF_vars(CloseEnd)

-----------------------------------------------------------------------------
(* Properties.                                                             *)

Rows == UNION {[I -> Messages] : I \in SUBSET (0 .. MaxIndex)}

(* Every variable keeps its type; in particular turn_index stays within    *)
(* the INTEGER column.                                                     *)
TypeOK ==
  /\ pool \in Nat \cup {None} /\ created \in Nat
  /\ openPools \subseteq 1 .. created
  /\ poolLock \in Calls \cup {None}
  /\ closer \in {"open", "closing", "closed"}
  /\ pc \in [Calls -> Pcs]
  /\ op \in [Calls -> Operation \cup {None}]
  /\ mypool \in [Calls -> Nat \cup {None}]
  /\ outcome \in [Calls -> {"ok", "error", None}]
  /\ applied \in [Calls -> BOOLEAN]
  /\ last \in [Calls -> -1 .. MaxIndex]
  /\ ins \in [Calls -> Rows]
  /\ del \in [Calls -> SUBSET (0 .. MaxIndex)]
  /\ rowLock \in [Sessions -> Calls \cup {None}]
  /\ sess \in [Sessions -> {"absent", "live", "expired"}]
  /\ rows \in [Sessions -> Rows]

(* No open pool is forgotten: the double check in _ensure_pool (its        *)
(* comment: without the lock the other pools leak) and close() keep        *)
(* self._pool pointing to the only open pool.                              *)
NoLeakedPool == \A p \in openPools : p = pool

(* The turn indexes of a session have no gap: append_messages continues    *)
(* after MAX(turn_index) and trims from the oldest, so `highest - limit'   *)
(* keeps exactly `limit' messages.                                         *)
Contiguous ==
  \A s \in Sessions : \A i, j \in DOMAIN rows[s] : i .. j \subseteq DOMAIN rows[s]

(* Two concurrent appends (or an append and a set_history) of one session  *)
(* never compute the same turn_index: the INSERT cannot hit the unique     *)
(* index ux_chat_messages_session_turn, nor wait for another transaction.  *)
NoIndexConflict ==
  \A c \in Calls : pc[c] = "insert" => ~ Duplicate(c) /\ ~ Pending(c)

-----------------------------------------------------------------------------
(* Refinement: each method takes effect atomically, once, between its call *)
(* and its return.                                                         *)
Phase(c) ==
  IF pc[c] = "idle" THEN "idle"
  ELSE IF pc[c] \in {"done", "doomed"} THEN outcome[c]
  ELSE IF pc[c] = "orphan" THEN "lost"
  ELSE IF applied[c] THEN "applied" ELSE "called"

Abstract ==
  INSTANCE SessionStore WITH
    hist <- [s \in Sessions |-> Ordered(rows[s])],
    live <- [s \in Sessions |-> sess[s] = "live"],
    phase <- [c \in Calls |-> Phase(c)],
    resent <- [c \in Calls |-> FALSE],
    DefaultLimit <- ResolveMax(None),
    SetLimit <- 2 * MaxTurns

(* The repository implements the port's promise (SessionStore): a turn     *)
(* whose append returned is stored whole, no concurrent append loses it,   *)
(* and a read returns the stored messages in order.                        *)
ImplementsSessionStore == Abstract!Spec

(* Every call returns or raises, and every transaction ends: nobody waits  *)
(* for ever for the pool lock, a connection or the session row, even if a  *)
(* lost connection holds it.                                               *)
CallsReturn == \A c \in Calls : pc[c] # "idle" ~> pc[c] = "done"

=============================================================================
