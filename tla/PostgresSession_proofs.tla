----------------------- MODULE PostgresSession_proofs -----------------------
(***************************************************************************)
(* Proofs, for every number of calls, sessions and operations, that the    *)
(* PostgreSQL session repository keeps its invariants: type correctness,   *)
(* one open pool at most, no gap in a session's turn indexes, and no       *)
(* conflict on the unique index; and that it implements the port: every    *)
(* transaction takes effect at its COMMIT, with what SessionStore's write  *)
(* makes of the history, or not at all.                                    *)
(***************************************************************************)
EXTENDS PostgresSession, FiniteSetTheorems, SequenceTheorems, WellFoundedInduction, TLAPS

-----------------------------------------------------------------------------
(* The inductive invariant behind the safety properties.                   *)

(* A call that started has an operation of the kind its place belongs to.  *)
OpInv ==
  \A c \in Calls :
    /\ pc[c] # "idle" => op[c] \in Operation
    /\ pc[c] \in {"lock", "count", "trim"} => op[c].kind = "append"
    /\ pc[c] = "clear" => op[c].kind = "set"
    /\ pc[c] \in {"upsert", "insert", "commit", "orphan"} => op[c].kind \in {"append", "set"}

(* Only the holder of the pool lock creates, and then there is no pool.    *)
PoolInv ==
  /\ openPools \subseteq {pool}
  /\ \A c \in Calls : pc[c] = "creating" => poolLock = c /\ pool = None

(* A transaction past its upsert holds its session row, and nobody else    *)
(* holds a row.                                                            *)
LockInv ==
  /\ \A c \in Calls : pc[c] \in OpenPcs => rowLock[op[c].session] = c
  /\ \A s \in Sessions, c \in Calls :
       rowLock[s] = c => pc[c] \in OpenPcs /\ op[c].session = s

Interval(D) == \E a \in 0 .. MaxIndex + 1, b \in -1 .. MaxIndex : D = a .. b

(* A transaction has rows of its own only after its INSERT, knows the last *)
(* index from its SELECT on, and leaves an interval when it commits.       *)
TxInv(c) ==
  LET s == op[c].session IN
  /\ pc[c] \notin {"trim", "commit"} \cup LeftPcs => ins[c] = NoRows
  /\ pc[c] \notin {"insert", "trim", "commit"} \cup LeftPcs => del[c] = {}
  /\ pc[c] \in {"insert", "trim"} /\ op[c].kind = "append" =>
       last[c] = LastIndex(rows[s]) /\ del[c] = {}
  /\ pc[c] = "insert" /\ op[c].kind = "set" => del[c] = DOMAIN rows[s]
  /\ pc[c] = "trim" =>
       /\ DOMAIN ins[c] = (last[c] + 1) .. (last[c] + Len(op[c].msgs))
       /\ last[c] + Len(op[c].msgs) <= MaxIndex
       /\ ResolveMax(op[c].max) \in Nat
  /\ pc[c] \in {"commit", "orphan"} =>
       Interval((DOMAIN rows[s] \ del[c]) \cup DOMAIN ins[c])

RowsInv ==
  /\ \A s \in Sessions : Interval(DOMAIN rows[s])
  /\ \A c \in Calls : TxInv(c)

IndInv == TypeOK /\ OpInv /\ PoolInv /\ LockInv /\ RowsInv

-----------------------------------------------------------------------------
(* Lemmas about the operators.                                             *)

(* A slice history[-n:] holds messages of the history.                     *)
LEMMA RecentType ==
  ASSUME NEW S, NEW h \in Seq(S), NEW n \in Int
  PROVE  Recent(h, n) \in Seq(S)
<1>1. CASE n <= 0
  BY <1>1 DEF Recent
<1>2. CASE n > 0 /\ Len(h) <= n
  BY <1>2 DEF Recent
<1>3. CASE n > 0 /\ Len(h) > n
  BY <1>3 DEF Recent
<1> QED BY <1>1, <1>2, <1>3

(* A set of rows is a function from indexes of the column to messages.     *)
LEMMA RowsIntro ==
  ASSUME NEW D \in SUBSET (0 .. MaxIndex), NEW f \in [D -> Messages]
  PROVE  f \in Rows
BY DEF Rows

(* What a row table is, taken apart.                                       *)
LEMMA RowsElim ==
  ASSUME NEW f \in Rows
  PROVE  /\ DOMAIN f \subseteq 0 .. MaxIndex
         /\ \A i \in DOMAIN f : f[i] \in Messages
BY DEF Rows

(* The empty table is one.                                                 *)
LEMMA NoRowsType == NoRows \in Rows /\ DOMAIN NoRows = {}
<1>1. NoRows \in [{} -> Messages] /\ DOMAIN NoRows = {}
  BY DEF NoRows
<1>2. {} \in SUBSET (0 .. MaxIndex)
  OBVIOUS
<1> QED BY <1>1, <1>2, RowsIntro

(* A nonempty set of natural numbers has a least element.                  *)
LEMMA LeastNatural ==
  ASSUME NEW T \in SUBSET Nat, T # {}
  PROVE  \E n \in T : \A m \in T : n <= m
<1> DEFINE R == {p \in Nat \X Nat : p[1] < p[2]}
<1>1. IsWellFoundedOn(R, Nat)
  BY NatLessThanWellFounded DEF OpToRel
<1> HIDE DEF R
<1>2. PICK n \in T : \A m \in T : ~ (<<m, n>> \in R)
  BY <1>1, WFMin
<1>3. \A m \in T : ~ (m < n)
  BY <1>2 DEF R
<1> QED BY <1>3

(* MAX(turn_index) exists unless there is no row.                          *)
LEMMA LastIndexType ==
  ASSUME NEW r \in Rows
  PROVE  /\ LastIndex(r) \in -1 .. MaxIndex
         /\ DOMAIN r # {} => /\ LastIndex(r) \in DOMAIN r
                             /\ \A j \in DOMAIN r : j <= LastIndex(r)
<1> DEFINE D == DOMAIN r
<1>1. D \subseteq 0 .. MaxIndex
  BY RowsElim
<1>2. CASE D = {}
  BY <1>2, BoundsAssumption DEF LastIndex
<1>3. CASE D # {}
  <2> DEFINE T == {n \in Nat : MaxIndex - n \in D}
  <2>1. T \in SUBSET Nat
    OBVIOUS
  <2>2. T # {}
    <3>1. PICK i \in D : TRUE
      BY <1>3
    <3>2. MaxIndex - i \in Nat /\ MaxIndex - (MaxIndex - i) = i
      BY <1>1, <3>1, BoundsAssumption
    <3> QED BY <3>1, <3>2
  <2>3. PICK n \in T : \A m \in T : n <= m
    BY <2>1, <2>2, LeastNatural
  <2>4. \A j \in D : j <= MaxIndex - n
    <3> SUFFICES ASSUME NEW j \in D PROVE j <= MaxIndex - n
      OBVIOUS
    <3>1. MaxIndex - j \in Nat /\ MaxIndex - (MaxIndex - j) = j
      BY <1>1, BoundsAssumption
    <3>2. MaxIndex - j \in T
      BY <3>1
    <3> QED BY <2>3, <3>1, <3>2, <1>1, BoundsAssumption
  <2>5. \E i \in D : \A j \in D : j <= i
    BY <2>3, <2>4
  <2> QED BY <1>1, <1>3, <2>5 DEF LastIndex
<1> QED BY <1>2, <1>3

-----------------------------------------------------------------------------
(* Type correctness.                                                       *)

(* The types hold at first.                                                *)
LEMMA InitType == Init => TypeOK /\ OpInv
<1> SUFFICES ASSUME Init PROVE TypeOK /\ OpInv
  OBVIOUS
<1>1. TypeOK
  BY NoRowsType, BoundsAssumption DEF Init, TypeOK, Pcs, ConnPcs, TxPcs, LeftPcs
<1>2. OpInv
  BY DEF Init, OpInv
<1> QED BY <1>1, <1>2

(* The payload of a call is a list of messages.                            *)
LEMMA PayloadType ==
  ASSUME TypeOK, OpInv, NEW c \in Calls, pc[c] # "idle"
  PROVE  Payload(c) \in Seq(Messages) /\ Len(Payload(c)) \in Nat
<1>1. op[c].msgs \in Seq(Messages)
  BY DEF OpInv, Operation
<1>2. AtLeastZero(MaxTurns * 2) \in Int
  BY BoundsAssumption DEF AtLeastZero
<1>3. Payload(c) \in Seq(Messages)
  BY <1>1, <1>2, RecentType DEF Payload, Normalize
<1> QED BY <1>3

(* What a transaction would leave are rows again.                          *)
LEMMA CommittedType ==
  ASSUME TypeOK, OpInv, NEW c \in Calls, pc[c] # "idle"
  PROVE  Committed(c) \in Rows
<1> DEFINE s == op[c].session
           D == (DOMAIN rows[s] \ del[c]) \cup DOMAIN ins[c]
<1>1. s \in Sessions
  BY DEF OpInv, Operation
<1>2. rows[s] \in Rows /\ ins[c] \in Rows
  BY <1>1 DEF TypeOK
<1>3. Committed(c) \in [D -> Messages] /\ D \in SUBSET (0 .. MaxIndex)
  BY <1>2, RowsElim DEF Committed
<1> QED BY <1>3, RowsIntro

(* Every step keeps the types and the operations of calls.                 *)
LEMMA NextType == TypeOK /\ OpInv /\ [Next]_vars => TypeOK' /\ OpInv'
<1> SUFFICES ASSUME TypeOK, OpInv, [Next]_vars PROVE TypeOK' /\ OpInv'
  OBVIOUS
<1> USE DEF Goto, Pcs, ConnPcs, TxPcs, LeftPcs, poolVars, callVars, txVars, dbVars
<1>1. ASSUME NEW c \in Calls, NEW o \in Ops, StartEmptyAppend(c, o)
      PROVE  TypeOK' /\ OpInv'
  BY <1>1, OpsAssumption DEF StartEmptyAppend, TypeOK, OpInv
<1>2. ASSUME NEW c \in Calls, NEW o \in Ops, Start(c, o)
      PROVE  TypeOK' /\ OpInv'
  <2>1. o \in Operation /\ op' = [op EXCEPT ![c] = o]
    BY <1>2, OpsAssumption DEF Start
  <2>2. PICK x \in {"acquire", "poolwait"} : pc' = [pc EXCEPT ![c] = x]
    BY <1>2 DEF Start
  <2>3. mypool' \in [Calls -> Nat \cup {None}]
    BY <1>2 DEF Start, TypeOK
  <2>4. pc' \in [Calls -> Pcs] /\ op' \in [Calls -> Operation \cup {None}]
    BY <2>1, <2>2 DEF TypeOK
  <2>5. TypeOK'
    BY <1>2, <2>3, <2>4 DEF Start, TypeOK
  <2>6. OpInv'
    BY <2>1, <2>2 DEF TypeOK, OpInv
  <2> QED BY <2>5, <2>6
<1>3. ASSUME NEW c \in Calls, LockPool(c)
      PROVE  TypeOK' /\ OpInv'
  BY <1>3 DEF LockPool, TypeOK, OpInv
<1>4. ASSUME NEW c \in Calls, CreatePool(c)
      PROVE  TypeOK' /\ OpInv'
  BY <1>4 DEF CreatePool, TypeOK, OpInv
<1>5. ASSUME NEW c \in Calls, EnsureFail(c)
      PROVE  TypeOK' /\ OpInv'
  BY <1>5 DEF EnsureFail, TypeOK, OpInv
<1>6. ASSUME NEW c \in Calls, Acquire(c)
      PROVE  TypeOK' /\ OpInv'
  BY <1>6 DEF Acquire, TypeOK, OpInv, Operation
<1>7. ASSUME NEW c \in Calls, AcquireFail(c) \/ Release(c) \/ ReleaseFail(c)
      PROVE  TypeOK' /\ OpInv'
  BY <1>7 DEF AcquireFail, Release, ReleaseFail, TypeOK, OpInv
<1>8. ASSUME NEW c \in Calls, Query(c)
      PROVE  TypeOK' /\ OpInv'
  BY <1>8 DEF Query, TypeOK, OpInv
<1>9. ASSUME NEW c \in Calls, Upsert(c)
      PROVE  TypeOK' /\ OpInv'
  BY <1>9 DEF Upsert, TypeOK, OpInv, Operation
<1>10. ASSUME NEW c \in Calls, LockSession(c)
       PROVE  TypeOK' /\ OpInv'
  BY <1>10 DEF LockSession, TypeOK, OpInv, Operation
<1>11. ASSUME NEW c \in Calls, NextTurn(c)
       PROVE  TypeOK' /\ OpInv'
  <2>1. op[c].session \in Sessions
    BY <1>11 DEF NextTurn, OpInv, Operation
  <2>2. LastIndex(rows[op[c].session]) \in -1 .. MaxIndex
    BY <2>1, LastIndexType DEF TypeOK
  <2> QED BY <1>11, <2>2 DEF NextTurn, TypeOK, OpInv
<1>12. ASSUME NEW c \in Calls, ClearSession(c)
       PROVE  TypeOK' /\ OpInv'
  <2>1. op[c].session \in Sessions
    BY <1>12 DEF ClearSession, OpInv, Operation
  <2>2. DOMAIN rows[op[c].session] \subseteq 0 .. MaxIndex
    BY <2>1, RowsElim DEF TypeOK
  <2> QED BY <1>12, <2>2 DEF ClearSession, TypeOK, OpInv
<1>13. ASSUME NEW c \in Calls, InsertMessages(c)
       PROVE  TypeOK' /\ OpInv'
  <2> DEFINE new == [i \in NewIndexes(c) |-> Payload(c)[i - FirstIndex(c) + 1]]
  <2>1. Payload(c) \in Seq(Messages) /\ Len(Payload(c)) \in Nat
    BY <1>13, PayloadType DEF InsertMessages
  <2>2. FirstIndex(c) \in Nat
    BY DEF FirstIndex, TypeOK
  <2>3. NewIndexes(c) \in SUBSET (0 .. MaxIndex)
    BY <1>13, <2>1, <2>2, BoundsAssumption DEF InsertMessages, Overflow, NewIndexes
  <2>4. \A i \in NewIndexes(c) : i - FirstIndex(c) + 1 \in 1 .. Len(Payload(c))
    BY <2>1, <2>2 DEF NewIndexes
  <2>5. new \in [NewIndexes(c) -> Messages]
    BY <2>1, <2>4
  <2>6. new \in Rows
    BY <2>3, <2>5, RowsIntro
  <2>7. ins' = [ins EXCEPT ![c] = new]
    BY <1>13 DEF InsertMessages
  <2>8. \A d \in Calls : ins'[d] \in Rows
    BY <2>6, <2>7 DEF TypeOK
  <2>9. TypeOK'
    BY <1>13, <2>8 DEF InsertMessages, TypeOK
  <2>10. OpInv'
    BY <1>13 DEF InsertMessages, TypeOK, OpInv
  <2> QED BY <2>9, <2>10
<1>14. ASSUME NEW c \in Calls, TrimMessages(c)
       PROVE  TypeOK' /\ OpInv'
  <2>1. op[c].session \in Sessions
    BY <1>14 DEF TrimMessages, OpInv, Operation
  <2>2. DOMAIN rows[op[c].session] \subseteq 0 .. MaxIndex
    BY <2>1, RowsElim DEF TypeOK
  <2> DEFINE kept == {i \in DOMAIN ins[c] : i > TrimBound(c)}
             new == Restrict(ins[c], kept)
  <2>3. DOMAIN ins[c] \subseteq 0 .. MaxIndex /\ \A i \in DOMAIN ins[c] : ins[c][i] \in Messages
    BY RowsElim DEF TypeOK
  <2>4. new \in [kept -> Messages] /\ kept \in SUBSET (0 .. MaxIndex)
    BY <2>3 DEF Restrict
  <2>5. new \in Rows
    BY <2>4, RowsIntro
  <2>6. ins' = [ins EXCEPT ![c] = new]
    BY <1>14 DEF TrimMessages
  <2>7. \A d \in Calls : ins'[d] \in Rows
    BY <2>5, <2>6 DEF TypeOK
  <2>8. \A d \in Calls : del'[d] \subseteq 0 .. MaxIndex
    BY <1>14, <2>2 DEF TrimMessages, TypeOK
  <2>9. TypeOK'
    BY <1>14, <2>7, <2>8 DEF TrimMessages, TypeOK
  <2>10. OpInv'
    BY <1>14 DEF TrimMessages, TypeOK, OpInv
  <2> QED BY <2>9, <2>10
<1>15. ASSUME NEW c \in Calls, NEW result \in {"ok", "error"}, Commit(c, result)
       PROVE  TypeOK' /\ OpInv'
  <2>4. Committed(c) \in Rows
    BY <1>15, CommittedType DEF Commit
  <2>5. rows' \in [Sessions -> Rows]
    BY <1>15, <2>4 DEF Commit, TypeOK
  <2>6. \A d \in Calls : ins'[d] \in Rows /\ del'[d] \subseteq 0 .. MaxIndex
    BY <1>15, NoRowsType DEF Commit, EndTransaction, TypeOK
  <2>7. TypeOK'
    BY <1>15, <2>5, <2>6, BoundsAssumption DEF Commit, EndTransaction, TypeOK
  <2>8. OpInv'
    BY <1>15 DEF Commit, TypeOK, OpInv
  <2> QED BY <2>7, <2>8
<1>16. ASSUME NEW c \in Calls, StatementFail(c)
       PROVE  TypeOK' /\ OpInv'
  <2>1. \A d \in Calls : ins'[d] \in Rows /\ del'[d] \subseteq 0 .. MaxIndex
    BY <1>16, NoRowsType DEF StatementFail, EndTransaction, TypeOK
  <2>2. TypeOK'
    BY <1>16, <2>1, BoundsAssumption DEF StatementFail, EndTransaction, TypeOK
  <2>3. OpInv'
    BY <1>16 DEF StatementFail, TypeOK, OpInv
  <2> QED BY <2>2, <2>3
<1>17. ASSUME NEW c \in Calls, LoseConnection(c)
       PROVE  TypeOK' /\ OpInv'
  BY <1>17 DEF LoseConnection, TypeOK, OpInv
<1>18. ASSUME NEW c \in Calls, LateCommit(c)
       PROVE  TypeOK' /\ OpInv'
  <2>1. Committed(c) \in Rows
    BY <1>18, CommittedType DEF LateCommit
  <2>2. rows' \in [Sessions -> Rows]
    BY <1>18, <2>1 DEF LateCommit, TypeOK
  <2>3. \A d \in Calls : ins'[d] \in Rows /\ del'[d] \subseteq 0 .. MaxIndex
    BY <1>18, NoRowsType DEF LateCommit, EndTransaction, TypeOK
  <2>4. TypeOK'
    BY <1>18, <2>2, <2>3, BoundsAssumption DEF LateCommit, EndTransaction, TypeOK
  <2>5. OpInv'
    BY <1>18 DEF LateCommit, TypeOK, OpInv
  <2> QED BY <2>4, <2>5
<1>19. ASSUME NEW c \in Calls, LateRollback(c)
       PROVE  TypeOK' /\ OpInv'
  <2>1. \A d \in Calls : ins'[d] \in Rows /\ del'[d] \subseteq 0 .. MaxIndex
    BY <1>19, NoRowsType DEF LateRollback, EndTransaction, TypeOK
  <2>2. TypeOK'
    BY <1>19, <2>1, BoundsAssumption DEF LateRollback, EndTransaction, TypeOK
  <2>3. OpInv'
    BY <1>19 DEF LateRollback, TypeOK, OpInv
  <2> QED BY <2>2, <2>3
<1>20. CASE CloseBegin \/ CloseEnd \/ CloseFail
  BY <1>20 DEF CloseBegin, CloseEnd, CloseFail, TypeOK, OpInv
<1>21. ASSUME NEW s \in Sessions, Expire(s)
       PROVE  TypeOK' /\ OpInv'
  BY <1>21 DEF Expire, TypeOK, OpInv
<1>22. CASE UNCHANGED vars
  BY <1>22 DEF vars, TypeOK, OpInv
<1> QED
  BY <1>1, <1>2, <1>3, <1>4, <1>5, <1>6, <1>7, <1>8, <1>9, <1>10, <1>11, <1>12,
     <1>13, <1>14, <1>15, <1>16, <1>17, <1>18, <1>19, <1>20, <1>21, <1>22
  DEF Next, Call

(* The repository is type correct: every turn_index it writes fits the     *)
(* INTEGER column of chat_messages.                                        *)
THEOREM TypeCorrect == Spec => []TypeOK
<1>1. Spec => [](TypeOK /\ OpInv)
  BY InitType, NextType, PTL DEF Spec
<1> QED BY <1>1, PTL
-----------------------------------------------------------------------------
(* One pool at most.                                                       *)

(* There is no pool at first.                                              *)
LEMMA InitPool == Init => PoolInv
BY DEF Init, PoolInv

(* Only the holder of the lock creates a pool, while there is none.        *)
LEMMA NextPool == TypeOK /\ PoolInv /\ [Next]_vars => PoolInv'
<1> SUFFICES ASSUME TypeOK, PoolInv, [Next]_vars PROVE PoolInv'
  OBVIOUS
<1> USE DEF Goto, poolVars
<1>1. ASSUME NEW c \in Calls, LockPool(c)
      PROVE  PoolInv'
  BY <1>1, NoneAssumption DEF LockPool, PoolInv, TypeOK
(* The creator found no pool under the lock, so no other pool is open.     *)
<1>2. ASSUME NEW c \in Calls, CreatePool(c)
      PROVE  PoolInv'
  <2>1. pool = None
    BY <1>2 DEF CreatePool, PoolInv
  <2>2. openPools = {}
    BY <2>1, NoneAssumption DEF PoolInv, TypeOK
  <2>3. \A d \in Calls : pc'[d] # "creating"
    BY <1>2 DEF CreatePool, PoolInv, TypeOK
  <2> QED BY <1>2, <2>2, <2>3 DEF CreatePool, PoolInv
<1>3. ASSUME NEW c \in Calls, EnsureFail(c)
      PROVE  PoolInv'
  BY <1>3 DEF EnsureFail, PoolInv, TypeOK
<1>4. ASSUME NEW c \in Calls,
             \/ \E o \in Ops : StartEmptyAppend(c, o) \/ Start(c, o)
             \/ Acquire(c) \/ AcquireFail(c) \/ Release(c) \/ ReleaseFail(c)
             \/ Query(c) \/ Upsert(c) \/ LockSession(c) \/ NextTurn(c)
             \/ ClearSession(c) \/ InsertMessages(c) \/ TrimMessages(c)
             \/ StatementFail(c)
             \/ \E result \in {"ok", "error"} : Commit(c, result)
             \/ LoseConnection(c) \/ LateCommit(c) \/ LateRollback(c)
      PROVE  PoolInv'
  <2>1. UNCHANGED <<pool, openPools, poolLock>>
    BY <1>4 DEF StartEmptyAppend, Start, Acquire, AcquireFail, Release,
      ReleaseFail, Query, Upsert, LockSession, NextTurn, ClearSession,
      InsertMessages, TrimMessages, StatementFail, Commit, LoseConnection,
      LateCommit, LateRollback
  <2>2. \A d \in Calls : pc'[d] = "creating" => pc[d] = "creating"
    BY <1>4 DEF TypeOK, StartEmptyAppend, Start, Acquire, AcquireFail, Release,
      ReleaseFail, Query, Upsert, LockSession, NextTurn, ClearSession,
      InsertMessages, TrimMessages, StatementFail, Commit, LoseConnection,
      LateCommit, LateRollback
  <2> QED BY <2>1, <2>2 DEF PoolInv
<1>5. CASE CloseBegin \/ CloseEnd \/ CloseFail
  BY <1>5 DEF CloseBegin, CloseEnd, CloseFail, PoolInv
<1>6. CASE (\E s \in Sessions : Expire(s)) \/ UNCHANGED vars
  BY <1>6 DEF Expire, vars, PoolInv
<1> QED
  BY <1>1, <1>2, <1>3, <1>4, <1>5, <1>6 DEF Next, Call

(* The comment in _ensure_pool: concurrent first calls must not each make  *)
(* a pool and forget all but the last.  An open pool is always the one     *)
(* self._pool refers to, through any interleaving with failures and close. *)
THEOREM NoPoolLeaks == Spec => []NoLeakedPool
<1>1. Spec => [](TypeOK /\ OpInv)
  BY InitType, NextType, PTL DEF Spec
<1>2. Spec => []PoolInv
  BY <1>1, InitPool, NextPool, PTL DEF Spec
<1>3. PoolInv => NoLeakedPool
  BY DEF PoolInv, NoLeakedPool
<1> QED BY <1>2, <1>3, PTL

-----------------------------------------------------------------------------
(* The row lock serialises the transactions of a session.                  *)

(* No row is locked at first.                                              *)
LEMMA InitLock == Init => LockInv
BY NoneAssumption DEF Init, LockInv, OpenPcs, TxPcs, LeftPcs

(* A call owns its session row from its upsert to its end.                 *)
LEMMA NextLock == TypeOK /\ OpInv /\ LockInv /\ [Next]_vars => LockInv'
<1> SUFFICES ASSUME TypeOK, OpInv, LockInv, [Next]_vars PROVE LockInv'
  OBVIOUS
<1> USE DEF Goto, OpenPcs, TxPcs, LeftPcs, txVars, callVars
(* Steps outside a transaction.                                            *)
<1>1. ASSUME NEW c \in Calls,
             \/ \E o \in Ops : StartEmptyAppend(c, o) \/ Start(c, o)
             \/ LockPool(c) \/ CreatePool(c) \/ EnsureFail(c)
             \/ Acquire(c) \/ AcquireFail(c) \/ Release(c) \/ ReleaseFail(c)
             \/ Query(c)
      PROVE  LockInv'
  <2>1. /\ UNCHANGED rowLock
        /\ pc[c] \notin OpenPcs /\ pc'[c] \notin OpenPcs
        /\ \A d \in Calls \ {c} : pc'[d] = pc[d] /\ op'[d] = op[d]
    BY <1>1 DEF TypeOK, StartEmptyAppend, Start, LockPool, CreatePool, EnsureFail,
      Acquire, AcquireFail, Release, ReleaseFail, Query
  <2> QED BY <2>1 DEF LockInv
(* Steps inside one.                                                       *)
<1>2. ASSUME NEW c \in Calls,
             \/ NextTurn(c) \/ ClearSession(c) \/ InsertMessages(c) \/ TrimMessages(c)
             \/ LoseConnection(c)
      PROVE  LockInv'
  <2>1. /\ UNCHANGED <<rowLock, op>>
        /\ pc[c] \in OpenPcs /\ pc'[c] \in OpenPcs
        /\ \A d \in Calls \ {c} : pc'[d] = pc[d]
    BY <1>2 DEF TypeOK, NextTurn, ClearSession, InsertMessages, TrimMessages,
      LoseConnection
  <2> QED BY <2>1 DEF LockInv
(* The row is granted only when nobody else holds it.                      *)
<1>3. ASSUME NEW c \in Calls, Upsert(c) \/ LockSession(c)
      PROVE  LockInv'
  <2> DEFINE s == op[c].session
  <2>1. s \in Sessions
    BY <1>3 DEF Upsert, LockSession, OpInv, Operation
  <2>2. /\ UNCHANGED op
        /\ rowLock' = [rowLock EXCEPT ![s] = c]
        /\ rowLock[s] \in {None, c}
        /\ pc'[c] \in OpenPcs
        /\ \A d \in Calls \ {c} : pc'[d] = pc[d]
    BY <1>3 DEF TypeOK, Upsert, LockSession, RowFree
  <2>3. \A d \in Calls : pc'[d] \in OpenPcs => rowLock'[op[d].session] = d
    BY <2>1, <2>2, NoneAssumption DEF LockInv, TypeOK
  <2>4. \A t \in Sessions, d \in Calls :
          rowLock'[t] = d => pc'[d] \in OpenPcs /\ op[d].session = t
    BY <2>1, <2>2 DEF LockInv, TypeOK
  <2> QED BY <2>2, <2>3, <2>4 DEF LockInv
(* The end of a transaction gives up its row and no other.                 *)
<1>4. ASSUME NEW c \in Calls,
             \/ StatementFail(c) \/ LateCommit(c) \/ LateRollback(c)
             \/ \E result \in {"ok", "error"} : Commit(c, result)
      PROVE  LockInv'
  <2>1. /\ UNCHANGED op
        /\ rowLock' = [s \in Sessions |-> IF rowLock[s] = c THEN None ELSE rowLock[s]]
        /\ pc'[c] \notin OpenPcs
        /\ \A d \in Calls \ {c} : pc'[d] = pc[d]
    BY <1>4 DEF TypeOK, StatementFail, Commit, LateCommit, LateRollback, EndTransaction
  <2>2. \A d \in Calls : pc[d] \in OpenPcs => op[d].session \in Sessions
    BY DEF OpInv, Operation
  <2> QED BY <2>1, <2>2, NoneAssumption DEF LockInv, TypeOK
<1>5. CASE CloseBegin \/ CloseEnd \/ CloseFail
  BY <1>5 DEF CloseBegin, CloseEnd, CloseFail, LockInv
<1>6. CASE (\E s \in Sessions : Expire(s)) \/ UNCHANGED vars
  BY <1>6 DEF Expire, vars, LockInv
<1> QED
  BY <1>1, <1>2, <1>3, <1>4, <1>5, <1>6 DEF Next, Call
-----------------------------------------------------------------------------
(* Turn indexes: lemmas about intervals.                                   *)

(* The last index is the upper end of the interval.                        *)
LEMMA IntervalToLast ==
  ASSUME NEW r \in Rows, Interval(DOMAIN r)
  PROVE  \E a \in 0 .. LastIndex(r) + 1 : DOMAIN r = a .. LastIndex(r)
<1>1. PICK a \in 0 .. MaxIndex + 1, b \in -1 .. MaxIndex : DOMAIN r = a .. b
  BY DEF Interval
<1>2. CASE a > b
  <2>1. DOMAIN r = {}
    BY <1>1, <1>2
  <2>2. LastIndex(r) = -1 /\ DOMAIN r = 0 .. -1
    BY <2>1 DEF LastIndex
  <2> QED BY <2>2
<1>3. CASE a <= b
  <2>1. b \in DOMAIN r
    BY <1>1, <1>3
  <2>2. LastIndex(r) \in DOMAIN r /\ \A j \in DOMAIN r : j <= LastIndex(r)
    BY <2>1, LastIndexType
  <2>3. b <= LastIndex(r) /\ LastIndex(r) <= b /\ LastIndex(r) \in Int /\ b \in Int
    BY <1>1, <2>1, <2>2
  <2>4. LastIndex(r) = b
    BY <2>3
  <2> QED BY <1>1, <1>3, <2>4
<1> QED BY <1>1, <1>2, <1>3

(* What an append leaves behind, whatever it deletes from the old end.     *)
LEMMA IntervalAppendTrim ==
  ASSUME NEW L \in -1 .. MaxIndex, NEW a \in 0 .. L + 1, NEW n \in Nat,
         L + n <= MaxIndex, NEW k \in Int, k <= L + n
  PROVE  Interval({i \in a .. L : i > k} \cup {i \in L + 1 .. L + n : i > k})
<1> DEFINE m == IF a > k THEN a ELSE k + 1
<1>1. m \in 0 .. MaxIndex + 1 /\ L + n \in -1 .. MaxIndex
  BY BoundsAssumption
<1>2. {i \in a .. L : i > k} \cup {i \in L + 1 .. L + n : i > k} = m .. (L + n)
  OBVIOUS
<1> QED BY <1>1, <1>2 DEF Interval

(* A replacement numbers its messages from 0.                              *)
LEMMA IntervalFromZero ==
  ASSUME NEW n \in Nat, n - 1 <= MaxIndex
  PROVE  Interval(0 .. n - 1)
BY BoundsAssumption DEF Interval

(* No rows are an interval.                                                *)
LEMMA IntervalEmpty == Interval(0 .. -1)
<1>1. 0 \in 0 .. MaxIndex + 1 /\ -1 \in -1 .. MaxIndex
  BY BoundsAssumption
<1> QED BY <1>1 DEF Interval

(* The limit a call resolves to is a natural number, or none.              *)
LEMMA ResolveMaxType ==
  ASSUME NEW max \in Int \cup {None}
  PROVE  ResolveMax(max) \in Nat \cup {None}
BY BoundsAssumption, NoneAssumption DEF ResolveMax, AtLeastZero
-----------------------------------------------------------------------------
(* Turn indexes: the invariant.                                            *)

(* Nothing is stored at first.                                             *)
LEMMA InitRows == Init => RowsInv
<1> SUFFICES ASSUME Init PROVE RowsInv
  OBVIOUS
<1>1. \A s \in Sessions : DOMAIN rows[s] = 0 .. -1
  BY NoRowsType DEF Init
<1>2. \A s \in Sessions : Interval(DOMAIN rows[s])
  BY <1>1, IntervalEmpty
<1>3. \A c \in Calls : TxInv(c)
  BY DEF Init, TxInv
<1> QED BY <1>2, <1>3 DEF RowsInv

(* A step that leaves a transaction and the rows of its session alone.     *)
LEMMA TxFrame ==
  ASSUME NEW d \in Calls, TxInv(d),
         pc'[d] = pc[d], op'[d] = op[d], ins'[d] = ins[d], del'[d] = del[d],
         last'[d] = last[d],
         pc[d] \in OpenPcs => rows'[op[d].session] = rows[op[d].session]
  PROVE  TxInv(d)'
<1>1. CASE pc[d] \in OpenPcs
  BY <1>1 DEF TxInv
<1>2. CASE pc[d] \notin OpenPcs
  BY <1>2 DEF TxInv, OpenPcs, TxPcs, LeftPcs
<1> QED BY <1>1, <1>2

(* Every step keeps what open transactions rely on.                        *)
LEMMA NextRows ==
  TypeOK /\ OpInv /\ LockInv /\ RowsInv /\ [Next]_vars => RowsInv'
<1> SUFFICES ASSUME TypeOK, OpInv, LockInv, RowsInv, [Next]_vars PROVE RowsInv'
  OBVIOUS
<1> USE DEF Goto, LeftPcs, txVars, dbVars, callVars
(* A step of c that changes no committed row keeps the others' part.       *)
<1>a. ASSUME NEW c \in Calls, UNCHANGED rows,
             \A d \in Calls \ {c} :
               /\ pc'[d] = pc[d] /\ op'[d] = op[d]
               /\ ins'[d] = ins[d] /\ del'[d] = del[d] /\ last'[d] = last[d],
             TxInv(c)'
      PROVE  RowsInv'
  <2>1. \A d \in Calls : TxInv(d)'
    BY <1>a, TxFrame DEF RowsInv
  <2>2. \A s \in Sessions : Interval(DOMAIN rows'[s])
    BY <1>a DEF RowsInv
  <2> QED BY <2>1, <2>2 DEF RowsInv, Interval
<1>1. ASSUME NEW c \in Calls,
             \/ \E o \in Ops : StartEmptyAppend(c, o) \/ Start(c, o)
             \/ LockPool(c) \/ CreatePool(c) \/ EnsureFail(c)
             \/ Acquire(c) \/ AcquireFail(c) \/ Release(c) \/ ReleaseFail(c)
             \/ Query(c) \/ Upsert(c) \/ LockSession(c)
      PROVE  RowsInv'
  <2>1. /\ UNCHANGED <<rows, ins, del, last>>
        /\ pc[c] \notin {"insert", "trim", "commit", "orphan", "doomed"}
        /\ pc'[c] \notin {"insert", "trim", "commit", "orphan", "doomed"}
        /\ \A d \in Calls \ {c} : pc'[d] = pc[d] /\ op'[d] = op[d]
    BY <1>1 DEF TypeOK, StartEmptyAppend, Start, LockPool, CreatePool, EnsureFail,
      Acquire, AcquireFail, Release, ReleaseFail, Query, Upsert, LockSession
  <2>2. TxInv(c)'
    BY <2>1 DEF RowsInv, TxInv
  <2> QED BY <2>1, <2>2, <1>a
<1>2. ASSUME NEW c \in Calls, NextTurn(c)
      PROVE  RowsInv'
  <2>1. /\ UNCHANGED <<rows, ins, del, op>>
        /\ pc[c] = "count" /\ pc'[c] = "insert" /\ op[c].kind = "append"
        /\ last'[c] = LastIndex(rows[op[c].session])
        /\ \A d \in Calls \ {c} : pc'[d] = pc[d] /\ last'[d] = last[d]
    BY <1>2 DEF TypeOK, OpInv, NextTurn
  <2>2. TxInv(c)'
    BY <2>1 DEF RowsInv, TxInv
  <2> QED BY <2>1, <2>2, <1>a
<1>3. ASSUME NEW c \in Calls, ClearSession(c)
      PROVE  RowsInv'
  <2> DEFINE s == op[c].session
  <2>1. /\ UNCHANGED <<rows, ins, last, op>>
        /\ pc[c] = "clear" /\ pc'[c] \in {"insert", "commit"} /\ op[c].kind = "set"
        /\ del'[c] = DOMAIN rows[s]
        /\ \A d \in Calls \ {c} : pc'[d] = pc[d] /\ del'[d] = del[d]
    BY <1>3 DEF TypeOK, OpInv, ClearSession
  <2>2. ins[c] = NoRows
    BY <2>1 DEF RowsInv, TxInv
  <2>3. (DOMAIN rows[s] \ del'[c]) \cup DOMAIN ins[c] = 0 .. -1
    BY <2>1, <2>2, NoRowsType
  <2>4. Interval((DOMAIN rows[s] \ del'[c]) \cup DOMAIN ins[c])
    BY <2>3, IntervalEmpty
  <2>5. TxInv(c)'
    BY <2>1, <2>2, <2>4 DEF TxInv, Interval
  <2> QED BY <2>1, <2>5, <1>a
<1>4. ASSUME NEW c \in Calls, InsertMessages(c)
      PROVE  RowsInv'
  <2> DEFINE s == op[c].session
             n == Len(Payload(c))
             D == (DOMAIN rows[s] \ del[c]) \cup NewIndexes(c)
  <2>1. /\ UNCHANGED <<rows, del, last, op>>
        /\ pc[c] = "insert" /\ pc'[c] \in {"trim", "commit"}
        /\ pc'[c] = "trim" => op[c].kind = "append" /\ ResolveMax(op[c].max) # None
        /\ DOMAIN ins'[c] = NewIndexes(c)
        /\ \A d \in Calls \ {c} : pc'[d] = pc[d] /\ ins'[d] = ins[d]
    BY <1>4 DEF TypeOK, InsertMessages
  <2>2. n \in Nat /\ s \in Sessions /\ op[c].kind \in {"append", "set"}
        /\ op[c].max \in Int \cup {None}
    BY <2>1, PayloadType DEF OpInv, Operation
  <2>3. FirstIndex(c) + n - 1 <= MaxIndex
    BY <1>4, <2>2, BoundsAssumption DEF InsertMessages, Overflow, FirstIndex, TypeOK
  <2>4. CASE op[c].kind = "append"
    <3>1. last[c] = LastIndex(rows[s]) /\ del[c] = {} /\ last[c] \in -1 .. MaxIndex
      BY <2>1, <2>4 DEF RowsInv, TxInv, TypeOK
    <3>2. PICK a \in 0 .. last[c] + 1 : DOMAIN rows[s] = a .. last[c]
      BY <2>2, <3>1, IntervalToLast DEF RowsInv, TypeOK
    <3>3. /\ FirstIndex(c) = last[c] + 1 /\ n = Len(op[c].msgs)
          /\ NewIndexes(c) = last[c] + 1 .. last[c] + n
          /\ last[c] + n <= MaxIndex
      BY <2>2, <2>3, <2>4, <3>1 DEF FirstIndex, Payload, NewIndexes
    <3>4. Interval({i \in a .. last[c] : i > -1}
                   \cup {i \in last[c] + 1 .. last[c] + n : i > -1})
      BY <2>2, <3>1, <3>3, IntervalAppendTrim
    <3>5. D = {i \in a .. last[c] : i > -1}
              \cup {i \in last[c] + 1 .. last[c] + n : i > -1}
      BY <3>1, <3>2, <3>3
    <3>6. Interval((DOMAIN rows[s] \ del[c]) \cup DOMAIN ins'[c])
      BY <2>1, <3>4, <3>5
    <3>7. pc'[c] = "trim" => ResolveMax(op[c].max) \in Nat
      BY <2>1, <2>2, ResolveMaxType
    <3>8. TxInv(c)'
      BY <2>1, <2>4, <3>1, <3>3, <3>6, <3>7 DEF TxInv, Interval
    <3> QED BY <2>1, <3>8, <1>a
  <2>5. CASE op[c].kind = "set"
    <3>1. del[c] = DOMAIN rows[s]
      BY <2>1, <2>5 DEF RowsInv, TxInv
    <3>2. NewIndexes(c) = 0 .. n - 1 /\ n - 1 <= MaxIndex
      BY <2>2, <2>3, <2>5, BoundsAssumption DEF NewIndexes, FirstIndex
    <3>3. Interval((DOMAIN rows[s] \ del[c]) \cup DOMAIN ins'[c])
      BY <2>1, <2>2, <3>1, <3>2, IntervalFromZero
    <3>4. TxInv(c)'
      BY <2>1, <2>5, <3>3 DEF TxInv, Interval
    <3> QED BY <2>1, <3>4, <1>a
  <2> QED BY <2>2, <2>4, <2>5
<1>5. ASSUME NEW c \in Calls, TrimMessages(c)
      PROVE  RowsInv'
  <2> DEFINE s == op[c].session
             n == Len(op[c].msgs)
             k == TrimBound(c)
  <2>1. /\ UNCHANGED <<rows, last, op>>
        /\ pc[c] = "trim" /\ pc'[c] = "commit" /\ op[c].kind = "append"
        /\ del'[c] = {i \in DOMAIN rows[s] : i <= k}
        /\ DOMAIN ins'[c] = {i \in DOMAIN ins[c] : i > k}
        /\ \A d \in Calls \ {c} : pc'[d] = pc[d] /\ ins'[d] = ins[d] /\ del'[d] = del[d]
    BY <1>5 DEF TypeOK, OpInv, TrimMessages, Restrict
  <2>2. /\ last[c] = LastIndex(rows[s]) /\ last[c] \in -1 .. MaxIndex
        /\ DOMAIN ins[c] = last[c] + 1 .. last[c] + n
        /\ last[c] + n <= MaxIndex
        /\ ResolveMax(op[c].max) \in Nat
    BY <2>1 DEF RowsInv, TxInv, TypeOK
  <2>3. n \in Nat /\ s \in Sessions
    BY <2>1 DEF OpInv, Operation
  <2>4. PICK a \in 0 .. last[c] + 1 : DOMAIN rows[s] = a .. last[c]
    BY <2>2, <2>3, IntervalToLast DEF RowsInv, TypeOK
  <2>5. k \in Int /\ k <= last[c] + n
    BY <2>2, <2>3 DEF TrimBound
  <2>6. Interval({i \in a .. last[c] : i > k}
                 \cup {i \in last[c] + 1 .. last[c] + n : i > k})
    BY <2>2, <2>3, <2>5, IntervalAppendTrim
  <2>7. (DOMAIN rows[s] \ del'[c]) \cup DOMAIN ins'[c]
          = {i \in a .. last[c] : i > k}
            \cup {i \in last[c] + 1 .. last[c] + n : i > k}
    BY <2>1, <2>2, <2>4, <2>5
  <2>8. TxInv(c)'
    BY <2>1, <2>6, <2>7 DEF TxInv, Interval
  <2> QED BY <2>1, <2>8, <1>a
(* Only the holder of the row lock changes the rows of a session.          *)
<1>6. ASSUME NEW c \in Calls,
             \/ \E result \in {"ok", "error"} : Commit(c, result)
             \/ LateCommit(c)
      PROVE  RowsInv'
  <2> DEFINE s == op[c].session
  <2>1. /\ UNCHANGED op
        /\ pc[c] \in {"commit", "orphan"} /\ pc'[c] \in {"release", "done"}
        /\ ins'[c] = NoRows /\ del'[c] = {}
        /\ rows' = [rows EXCEPT ![s] = Committed(c)]
        /\ \A d \in Calls \ {c} : /\ pc'[d] = pc[d] /\ ins'[d] = ins[d]
                                  /\ del'[d] = del[d] /\ last'[d] = last[d]
    BY <1>6 DEF TypeOK, Commit, LateCommit, EndTransaction
  <2>2. s \in Sessions
    BY <2>1 DEF OpInv, Operation
  <2>3. DOMAIN Committed(c) = (DOMAIN rows[s] \ del[c]) \cup DOMAIN ins[c]
    BY DEF Committed
  <2>4. Interval(DOMAIN Committed(c))
    BY <2>1, <2>3 DEF RowsInv, TxInv
  <2>5. \A t \in Sessions : Interval(DOMAIN rows'[t])
    BY <2>1, <2>2, <2>4 DEF RowsInv, TypeOK
  <2>6. ASSUME NEW d \in Calls, d # c PROVE TxInv(d)'
    <3>1. pc[d] \in OpenPcs => op[d].session # s
      BY <2>1, <2>6 DEF LockInv, OpenPcs, TxPcs
    <3>2. pc[d] \in OpenPcs => rows'[op[d].session] = rows[op[d].session]
      BY <2>1, <3>1 DEF TypeOK
    <3> QED BY <2>1, <2>6, <3>2, TxFrame DEF RowsInv
  <2>7. TxInv(c)'
    BY <2>1 DEF TxInv
  <2> QED BY <2>5, <2>6, <2>7 DEF RowsInv, Interval
<1>7. ASSUME NEW c \in Calls, StatementFail(c) \/ LateRollback(c)
      PROVE  RowsInv'
  <2>1. /\ UNCHANGED <<rows, op>>
        /\ pc'[c] \in {"release", "done"} /\ ins'[c] = NoRows /\ del'[c] = {}
        /\ \A d \in Calls \ {c} : /\ pc'[d] = pc[d] /\ ins'[d] = ins[d]
                                  /\ del'[d] = del[d] /\ last'[d] = last[d]
    BY <1>7 DEF TypeOK, StatementFail, LateRollback, EndTransaction
  <2>2. TxInv(c)'
    BY <2>1 DEF TxInv
  <2> QED BY <2>1, <2>2, <1>a
(* Losing the connection changes nothing the server knows.                 *)
<1>8. ASSUME NEW c \in Calls, LoseConnection(c)
      PROVE  RowsInv'
  <2>1. /\ UNCHANGED <<rows, op, ins, del, last>>
        /\ pc'[c] \in LeftPcs /\ (pc'[c] = "orphan" => pc[c] = "commit")
        /\ \A d \in Calls \ {c} : pc'[d] = pc[d]
    BY <1>8 DEF TypeOK, LoseConnection
  <2>2. TxInv(c)'
    BY <2>1 DEF RowsInv, TxInv, Interval
  <2> QED BY <2>1, <2>2, <1>a
<1>9. CASE CloseBegin \/ CloseEnd \/ CloseFail \/ (\E s \in Sessions : Expire(s))
           \/ UNCHANGED vars
  <2>1. UNCHANGED <<pc, op, ins, del, last, rows>>
    BY <1>9 DEF CloseBegin, CloseEnd, CloseFail, Expire, vars
  <2>2. \A d \in Calls : TxInv(d)'
    BY <2>1, TxFrame DEF RowsInv
  <2> QED BY <2>1, <2>2 DEF RowsInv, Interval
<1> QED
  BY <1>1, <1>2, <1>3, <1>4, <1>5, <1>6, <1>7, <1>8, <1>9 DEF Next, Call

(* The inductive invariant.                                                *)
THEOREM Inductive == Spec => []IndInv
<1>1. Init => IndInv
  BY InitType, InitPool, InitLock, InitRows DEF IndInv
<1>2. IndInv /\ [Next]_vars => IndInv'
  BY NextType, NextPool, NextLock, NextRows DEF IndInv
<1> QED BY <1>1, <1>2, PTL DEF Spec

(* The turn indexes of a session have no gap, so the trim of an append,    *)
(* computed from the highest index and the limit, keeps exactly the newest *)
(* messages, however calls interleave, fail or are cancelled.              *)
THEOREM TurnsContiguous == Spec => []Contiguous
<1>1. IndInv => Contiguous
  <2> SUFFICES ASSUME IndInv, NEW s \in Sessions,
                      NEW i \in DOMAIN rows[s], NEW j \in DOMAIN rows[s]
               PROVE  i .. j \subseteq DOMAIN rows[s]
    BY DEF Contiguous
  <2>1. PICK a \in 0 .. MaxIndex + 1, b \in -1 .. MaxIndex : DOMAIN rows[s] = a .. b
    BY DEF IndInv, RowsInv, Interval
  <2> QED BY <2>1
<1> QED BY <1>1, Inductive, PTL

(* An INSERT never meets a row of another call: neither a committed one    *)
(* with its turn_index nor an uncommitted one.                             *)
THEOREM InsertsDisjoint == Spec => []NoIndexConflict
<1>1. IndInv => NoIndexConflict
  <2> SUFFICES ASSUME IndInv, NEW c \in Calls, pc[c] = "insert"
               PROVE  ~ Duplicate(c) /\ ~ Pending(c)
    BY DEF NoIndexConflict
  <2> DEFINE s == op[c].session
  <2>1. s \in Sessions /\ op[c].kind \in {"append", "set"}
    BY DEF IndInv, OpInv, Operation
  <2>2. ~ Pending(c)
    BY DEF Pending, IndInv, LockInv, OpenPcs, TxPcs
  <2>3. CASE op[c].kind = "append"
    <3>1. last[c] = LastIndex(rows[s]) /\ last[c] \in -1 .. MaxIndex
      BY <2>3 DEF IndInv, RowsInv, TxInv, TypeOK
    <3>2. \A i \in DOMAIN rows[s] : i \in Int /\ i <= last[c]
      BY <2>1, <3>1, LastIndexType, RowsElim DEF IndInv, TypeOK
    <3>3. \A i \in NewIndexes(c) : i > last[c]
      BY <2>3, <3>1 DEF NewIndexes, FirstIndex
    <3> QED BY <2>2, <3>1, <3>2, <3>3 DEF Duplicate
  <2>4. CASE op[c].kind = "set"
    BY <2>2, <2>4 DEF Duplicate, IndInv, RowsInv, TxInv
  <2> QED BY <2>1, <2>3, <2>4
<1> QED BY <1>1, Inductive, PTL

-----------------------------------------------------------------------------
(* Rows and histories.                                                     *)

(* Rows numbered without a gap, read in the order of their turn_index.     *)
LEMMA OrderedInterval ==
  ASSUME NEW a \in Int, NEW b \in Int, a <= b + 1, NEW r, DOMAIN r = a .. b,
         \A i \in a .. b : r[i] \in Messages
  PROVE  /\ Ordered(r) \in Seq(Messages)
         /\ Len(Ordered(r)) = b - a + 1
         /\ \A i \in 1 .. b - a + 1 : Ordered(r)[i] = r[a + i - 1]
<1>1. Cardinality(DOMAIN r) = b - a + 1
  BY FS_Interval
<1>2. ASSUME NEW k \in a .. b
      PROVE  Cardinality({j \in DOMAIN r : j < k}) = k - a
  <2>1. {j \in DOMAIN r : j < k} = a .. k - 1
    OBVIOUS
  <2>2. Cardinality(a .. k - 1) = IF a > k - 1 THEN 0 ELSE k - 1 - a + 1
    BY FS_Interval
  <2>3. Cardinality(a .. k - 1) = k - a
    BY <2>2
  <2> QED BY <2>1, <2>3, Zenon
<1>3. ASSUME NEW i \in 1 .. b - a + 1
      PROVE  (CHOOSE k \in DOMAIN r : Cardinality({j \in DOMAIN r : j < k}) = i - 1)
               = a + i - 1
  <2>1. a + i - 1 \in a .. b /\ (a + i - 1) - a = i - 1
    OBVIOUS
  <2>2. Cardinality({j \in DOMAIN r : j < a + i - 1}) = i - 1
    BY <1>2, <2>1
  <2>3. ASSUME NEW k \in a .. b, Cardinality({j \in DOMAIN r : j < k}) = i - 1
        PROVE  k = a + i - 1
    BY <1>2, <2>3
  <2> QED BY <2>1, <2>2, <2>3
<1>4. Ordered(r) = [i \in 1 .. b - a + 1 |-> r[a + i - 1]]
  <2>1. Ordered(r) = [i \in 1 .. b - a + 1 |->
          r[CHOOSE k \in DOMAIN r : Cardinality({j \in DOMAIN r : j < k}) = i - 1]]
    BY <1>1, Zenon DEF Ordered
  <2> QED BY <1>3, <2>1, Zenon
<1>5. \A i \in 1 .. b - a + 1 : a + i - 1 \in a .. b
  OBVIOUS
<1>6. b - a + 1 \in Nat
  OBVIOUS
<1>7. [i \in 1 .. b - a + 1 |-> r[a + i - 1]] \in Seq(Messages)
  BY <1>5, <1>6
<1> QED BY <1>4, <1>6, <1>7

(* The rows r hold the end of the history h: its messages are numbered     *)
(* from a to b, and those from m on are there.                             *)
HoldsEnd(r, h, a, m, b) ==
  /\ a \in Int /\ b \in Int /\ m \in a .. b + 1
  /\ h \in Seq(Messages) /\ Len(h) = b - a + 1
  /\ DOMAIN r = m .. b /\ \A i \in m .. b : r[i] = h[i - a + 1]

(* Such rows, read in order.                                               *)
LEMMA OrderedSuffix ==
  ASSUME NEW r, NEW h, NEW a, NEW m, NEW b, HoldsEnd(r, h, a, m, b)
  PROVE  /\ m = a => Ordered(r) = h
         /\ m = b + 1 => Ordered(r) = << >>
         /\ Ordered(r) = SubSeq(h, m - a + 1, Len(h))
<1> USE DEF HoldsEnd
<1>1. /\ m <= b + 1 /\ Len(h) \in Nat
      /\ \A i \in m .. b : i - a + 1 \in 1 .. Len(h)
  OBVIOUS
<1>2. \A i \in m .. b : r[i] \in Messages
  BY <1>1, ElementOfSeq
<1>3. /\ Ordered(r) \in Seq(Messages)
      /\ Len(Ordered(r)) = b - m + 1
      /\ \A i \in 1 .. b - m + 1 : Ordered(r)[i] = r[m + i - 1]
  BY <1>1, <1>2, OrderedInterval
<1>4. \A i \in 1 .. b - m + 1 : Ordered(r)[i] = h[m - a + i]
  <2> TAKE i \in 1 .. b - m + 1
  <2>1. m + i - 1 \in m .. b /\ (m + i - 1) - a + 1 = m - a + i
    OBVIOUS
  <2> QED BY <1>3, <2>1
<1>5. ASSUME m = a PROVE Ordered(r) = h
  <2>1. Len(Ordered(r)) = Len(h) /\ \A i \in 1 .. Len(h) : Ordered(r)[i] = h[i]
    BY <1>3, <1>4, <1>5
  <2> QED BY <1>3, <2>1, SeqEqual
<1>6. ASSUME m = b + 1 PROVE Ordered(r) = << >>
  <2>1. Len(Ordered(r)) = 0
    BY <1>3, <1>6
  <2> QED BY <1>3, <2>1, EmptySeq
<1>7. Ordered(r) = SubSeq(h, m - a + 1, Len(h))
  <2> DEFINE p == m - a + 1
  <2>1. /\ p \in Int /\ p >= 1 /\ Len(h) - p + 1 = b - m + 1
        /\ \A i \in p .. Len(h) : i \in 1 .. Len(h)
    BY <1>1
  <2>2. \A i \in p .. Len(h) : h[i] \in Messages
    BY <2>1, ElementOfSeq
  <2> HIDE DEF p
  <2>3. /\ SubSeq(h, p, Len(h)) \in Seq(Messages)
        /\ Len(SubSeq(h, p, Len(h))) = IF p <= Len(h) THEN Len(h) - p + 1 ELSE 0
        /\ \A i \in 1 .. Len(h) - p + 1 : SubSeq(h, p, Len(h))[i] = h[p + i - 1]
    BY <1>1, <2>1, <2>2, SubSeqProperties
  <2>4. Len(SubSeq(h, p, Len(h))) = b - m + 1
    BY <1>1, <2>1, <2>3
  <2>5. \A i \in 1 .. b - m + 1 : SubSeq(h, p, Len(h))[i] = h[m - a + i]
    <3> TAKE i \in 1 .. b - m + 1
    <3>1. p + i - 1 = m - a + i
      BY DEF p
    <3> QED BY <2>1, <2>3, <3>1
  <2> QED BY <1>3, <1>4, <2>3, <2>4, <2>5, SeqEqual DEF p
<1> QED BY <1>5, <1>6, <1>7

(* The rows above `highest - limit' hold the last `limit' messages.        *)
LEMMA OrderedRecent ==
  ASSUME NEW r, NEW h, NEW a, NEW m, NEW b, HoldsEnd(r, h, a, m, b),
         NEW n \in Nat, m = IF a > b - n THEN a ELSE b - n + 1
  PROVE  Ordered(r) = Recent(h, n)
<1>1. /\ m = a => Ordered(r) = h
      /\ m = b + 1 => Ordered(r) = << >>
      /\ Ordered(r) = SubSeq(h, m - a + 1, Len(h))
  BY OrderedSuffix
<1> USE DEF HoldsEnd
<1>2. CASE a > b - n
  <2>1. Ordered(r) = h /\ Len(h) <= n
    BY <1>1, <1>2
  <2>2. n = 0 => h = << >>
    BY <2>1, EmptySeq
  <2> QED BY <2>1, <2>2 DEF Recent
<1>3. CASE a <= b - n
  <2>1. m - a + 1 = Len(h) - n + 1 /\ (n = 0 => m = b + 1) /\ Len(h) > n
    BY <1>3
  <2> QED BY <1>1, <2>1 DEF Recent
<1> QED BY <1>2, <1>3

(* The rows of a session after a transaction that deletes those numbered   *)
(* in d and inserts new.                                                   *)
After(r, d, new) ==
  [i \in (DOMAIN r \ d) \cup DOMAIN new |-> IF i \in DOMAIN new THEN new[i] ELSE r[i]]

(* set_history deletes every row and numbers the new ones from 0.          *)
LEMMA SetLeaves ==
  ASSUME NEW r, NEW h \in Seq(Messages), NEW new, DOMAIN new = 0 .. Len(h) - 1,
         \A i \in 0 .. Len(h) - 1 : new[i] = h[i + 1]
  PROVE  Ordered(After(r, DOMAIN r, new)) = h
<1> DEFINE w == After(r, DOMAIN r, new)
<1>1. Len(h) \in Nat
  BY LenProperties
<1>2. DOMAIN w = 0 .. Len(h) - 1 /\ \A i \in 0 .. Len(h) - 1 : w[i] = h[i + 1]
  BY DEF After
<1> HIDE DEF w
<1>3. HoldsEnd(w, h, 0, 0, Len(h) - 1)
  <2>1. 0 \in 0 .. (Len(h) - 1) + 1 /\ Len(h) = (Len(h) - 1) - 0 + 1 /\ Len(h) - 1 \in Int
    BY <1>1
  <2>2. \A i \in 0 .. Len(h) - 1 : w[i] = h[i - 0 + 1]
    BY <1>1, <1>2
  <2> QED BY <1>2, <2>1, <2>2 DEF HoldsEnd
<1>4. Ordered(w) = h
  BY <1>3, OrderedSuffix
<1> QED BY <1>4 DEF w

(* append_messages numbers its messages from L + 1 on and deletes what is  *)
(* numbered k or less, its own rows included.                              *)
LEMMA AppendLeaves ==
  ASSUME NEW r, NEW a \in Int, NEW L \in Int, a <= L + 1, DOMAIN r = a .. L,
         \A i \in a .. L : r[i] \in Messages,
         NEW msgs \in Seq(Messages), NEW k \in Int, k <= L + Len(msgs),
         NEW d, d = {i \in a .. L : i <= k},
         NEW new, DOMAIN new = {i \in L + 1 .. L + Len(msgs) : i > k},
         \A i \in DOMAIN new : new[i] = msgs[i - L]
  PROVE  HoldsEnd(After(r, d, new), Ordered(r) \o msgs,
                  a, IF a > k THEN a ELSE k + 1, L + Len(msgs))
<1> DEFINE w == After(r, d, new)
           h == Ordered(r) \o msgs
           m == IF a > k THEN a ELSE k + 1
           b == L + Len(msgs)
<1>1. Len(msgs) \in Nat
  BY LenProperties
<1>2. /\ Ordered(r) \in Seq(Messages)
      /\ Len(Ordered(r)) = L - a + 1
      /\ \A i \in 1 .. L - a + 1 : Ordered(r)[i] = r[a + i - 1]
  BY OrderedInterval
<1>3. /\ h \in Seq(Messages)
      /\ Len(h) = Len(Ordered(r)) + Len(msgs)
      /\ \A i \in 1 .. Len(Ordered(r)) + Len(msgs) :
           h[i] = IF i <= Len(Ordered(r)) THEN Ordered(r)[i] ELSE msgs[i - Len(Ordered(r))]
  BY <1>2, ConcatProperties
<1>4. b \in Int /\ m \in a .. b + 1 /\ Len(h) = b - a + 1
  BY <1>1, <1>2, <1>3
<1>5. DOMAIN w = m .. b
  <2>1. (DOMAIN r \ d) \cup DOMAIN new = m .. b
    BY <1>1
  <2> QED BY <2>1 DEF After
<1>6. ASSUME NEW i \in m .. b PROVE w[i] = h[i - a + 1]
  <2>1. i - a + 1 \in 1 .. Len(Ordered(r)) + Len(msgs) /\ i \in Int
    BY <1>1, <1>2, <1>4
  <2>2. CASE i <= L
    <3>1. i \notin DOMAIN new /\ w[i] = r[i]
      BY <1>1, <1>5, <2>1, <2>2 DEF After
    <3>2. i - a + 1 \in 1 .. L - a + 1 /\ a + (i - a + 1) - 1 = i
      BY <1>4, <2>1, <2>2
    <3>3. h[i - a + 1] = Ordered(r)[i - a + 1]
      BY <1>2, <1>3, <2>1, <3>2
    <3> QED BY <1>2, <3>1, <3>2, <3>3
  <2>3. CASE i > L
    <3>1. i \in DOMAIN new
      BY <1>1, <2>1, <2>3
    <3>2. w[i] = msgs[i - L]
      BY <1>5, <3>1 DEF After
    <3>3. h[i - a + 1] = msgs[(i - a + 1) - (L - a + 1)] /\ (i - a + 1) - (L - a + 1) = i - L
      BY <1>2, <1>3, <2>1, <2>3
    <3> QED BY <3>2, <3>3
  <2> QED BY <2>1, <2>2, <2>3
<1> HIDE DEF w, h, m, b
<1>7. HoldsEnd(w, h, a, m, b)
  BY <1>3, <1>4, <1>5, <1>6 DEF HoldsEnd
<1> QED BY <1>7 DEF w, h, m, b

(* What the write o makes of the history h, in this repository's limits.   *)
WrittenBy(o, h) ==
  IF o.kind # "append" THEN Normalize(o.msgs)
  ELSE IF ResolveMax(o.max) = None THEN h \o o.msgs
  ELSE Recent(h \o o.msgs, ResolveMax(o.max))

(* A negative limit keeps nothing, like 0.                                 *)
LEMMA RecentAtLeastZero ==
  ASSUME NEW h, NEW n \in Int
  PROVE  Recent(h, AtLeastZero(n)) = Recent(h, n)
<1>1. CASE n < 0
  BY <1>1 DEF Recent, AtLeastZero
<1>2. CASE ~ (n < 0)
  BY <1>2 DEF AtLeastZero
<1> QED BY <1>1, <1>2

(* It is what the port says.                                               *)
LEMMA WrittenIs ==
  ASSUME NEW c, op[c] \in Operation, NEW h
  PROVE  Abstract!Written(c, h) = WrittenBy(op[c], h)
<1>1. ASSUME NEW g, NEW n \in Int
      PROVE  Abstract!Keep(g, n) = Recent(g, n)
  BY NoneAssumption DEF Abstract!Keep, Abstract!Recent, Recent
<1>2. ASSUME NEW g PROVE Abstract!Keep(g, None) = g
  BY DEF Abstract!Keep
<1>3. op[c].max \in Int \cup {None}
  BY DEF Operation
<1>4. CASE op[c].kind # "append"
  <2>1. 2 * MaxTurns \in Int /\ 2 * MaxTurns = MaxTurns * 2
    BY BoundsAssumption
  <2>2. Abstract!Written(c, h) = Recent(op[c].msgs, MaxTurns * 2)
    BY <1>1, <1>4, <2>1 DEF Abstract!Written
  <2> QED BY <1>4, <2>1, <2>2, RecentAtLeastZero DEF WrittenBy, Normalize
<1>5. CASE op[c].kind = "append" /\ op[c].max = None
  <2>1. Abstract!Written(c, h) = Abstract!Keep(h \o op[c].msgs, ResolveMax(None))
    BY <1>5 DEF Abstract!Written, Abstract!AppendLimit
  <2>2. ResolveMax(None) \in Nat \cup {None}
    BY ResolveMaxType
  <2> QED BY <1>1, <1>2, <1>5, <2>1, <2>2, NoneAssumption DEF WrittenBy
<1>6. CASE op[c].kind = "append" /\ op[c].max # None
  <2>1. Abstract!Written(c, h) = Abstract!Keep(h \o op[c].msgs, op[c].max)
    BY <1>6 DEF Abstract!Written, Abstract!AppendLimit
  <2>2. op[c].max \in Int /\ ResolveMax(op[c].max) = AtLeastZero(op[c].max)
    BY <1>3, <1>6 DEF ResolveMax
  <2>3. AtLeastZero(op[c].max) # None
    BY <2>2, NoneAssumption DEF AtLeastZero
  <2> QED BY <1>1, <1>6, <2>1, <2>2, <2>3, RecentAtLeastZero DEF WrittenBy
<1> QED BY <1>4, <1>5, <1>6

-----------------------------------------------------------------------------
(* What a transaction ready to commit leaves.                              *)

(* ContentInv without the port's vocabulary.                               *)
Content(c) ==
  /\ pc[c] = "trim" => \A i \in DOMAIN ins[c] : ins[c][i] = op[c].msgs[i - last[c]]
  /\ pc[c] \in {"commit", "orphan"} =>
       Ordered(Committed(c)) = WrittenBy(op[c], Ordered(rows[op[c].session]))

(* A step that leaves a transaction and the rows of its session alone.     *)
LEMMA ContentFrame ==
  ASSUME NEW d \in Calls, Content(d),
         pc'[d] = pc[d], op'[d] = op[d], ins'[d] = ins[d], del'[d] = del[d],
         last'[d] = last[d],
         pc[d] \in OpenPcs => rows'[op[d].session] = rows[op[d].session]
  PROVE  Content(d)'
<1>1. CASE pc[d] \in OpenPcs
  <2>1. Committed(d)' = Committed(d)
    BY <1>1 DEF Committed
  <2> QED BY <1>1, <2>1 DEF Content
<1>2. CASE pc[d] \notin OpenPcs
  BY <1>2 DEF Content, OpenPcs, TxPcs, LeftPcs
<1> QED BY <1>1, <1>2

(* set_history: the deletion alone, of a list that is empty or normalized  *)
(* to nothing.                                                             *)
LEMMA ClearContent ==
  ASSUME TypeOK, OpInv, RowsInv, NEW c \in Calls, ClearSession(c)
  PROVE  Content(c)'
<1>1. /\ op' = op /\ rows' = rows /\ ins' = ins /\ pc[c] = "clear"
      /\ del'[c] = DOMAIN rows[op[c].session]
      /\ pc'[c] = IF Payload(c) = << >> THEN "commit" ELSE "insert"
      /\ op[c].kind = "set" /\ op[c] \in Operation
  BY DEF ClearSession, TypeOK, OpInv, Goto, callVars, dbVars
<1>2. CASE Payload(c) = << >>
  <2>1. ins[c] = NoRows
    BY <1>1 DEF RowsInv, TxInv, LeftPcs
  <2>2. PICK r : r = rows[op[c].session]
    OBVIOUS
  <2>3. Committed(c)' = After(r, DOMAIN r, NoRows)
    BY <1>1, <2>1, <2>2 DEF Committed, After
  <2>4. Ordered(After(r, DOMAIN r, NoRows)) = << >>
    <3>1. DOMAIN NoRows = 0 .. Len(<< >>) - 1 /\ << >> \in Seq(Messages)
      BY NoRowsType
    <3>2. \A i \in 0 .. Len(<< >>) - 1 : NoRows[i] = << >>[i + 1]
      OBVIOUS
    <3> QED BY <3>1, <3>2, SetLeaves
  <2>5. WrittenBy(op[c], Ordered(r)) = << >>
    BY <1>1, <1>2 DEF WrittenBy, Payload
  <2> QED BY <1>1, <1>2, <2>2, <2>3, <2>4, <2>5 DEF Content
<1>3. CASE Payload(c) # << >>
  BY <1>1, <1>3 DEF Content
<1> QED BY <1>2, <1>3

(* The INSERT: of set_history it is the last statement; of append_messages *)
(* only without a limit.                                                   *)
LEMMA InsertContent ==
  ASSUME TypeOK, OpInv, RowsInv, NEW c \in Calls, InsertMessages(c)
  PROVE  Content(c)'
<1>1. PICK s \in Sessions : s = op[c].session
  BY DEF InsertMessages, OpInv, Operation
<1>2. PICK new : new = [i \in NewIndexes(c) |-> Payload(c)[i - FirstIndex(c) + 1]]
  OBVIOUS
<1>3. /\ op' = op /\ rows' = rows /\ del' = del /\ last' = last /\ pc[c] = "insert"
      /\ ins'[c] = new
      /\ pc'[c] = IF op[c].kind = "append" /\ ResolveMax(op[c].max) # None
                    THEN "trim" ELSE "commit"
      /\ op[c].kind \in {"append", "set"} /\ op[c] \in Operation
  BY <1>2 DEF InsertMessages, TypeOK, OpInv, Goto, callVars, dbVars
<1>4. Payload(c) \in Seq(Messages) /\ Len(Payload(c)) \in Nat
  BY <1>3, PayloadType
<1>5. Committed(c)' = After(rows[s], del[c], new)
  BY <1>1, <1>3 DEF Committed, After
<1>6. CASE op[c].kind = "set"
  <2>1. PICK h : h = Payload(c)
    OBVIOUS
  <2>2. FirstIndex(c) = 0 /\ NewIndexes(c) = 0 .. Len(h) - 1
    BY <1>4, <1>6, <2>1 DEF FirstIndex, NewIndexes
  <2>3. DOMAIN new = 0 .. Len(h) - 1 /\ \A i \in 0 .. Len(h) - 1 : new[i] = h[i + 1]
    BY <1>2, <1>4, <2>1, <2>2
  <2>4. Ordered(After(rows[s], DOMAIN rows[s], new)) = h
    BY <1>4, <2>1, <2>3, SetLeaves
  <2>5. del[c] = DOMAIN rows[s]
    BY <1>1, <1>3, <1>6 DEF RowsInv, TxInv
  <2>6. WrittenBy(op[c], Ordered(rows[s])) = h
    BY <1>6, <2>1 DEF WrittenBy, Payload
  <2> QED BY <1>1, <1>3, <1>5, <1>6, <2>4, <2>5, <2>6 DEF Content
<1>7. CASE op[c].kind = "append"
  <2>1. PICK msgs \in Seq(Messages) : msgs = op[c].msgs
    BY <1>3 DEF Operation
  <2>2. PICK L \in -1 .. MaxIndex : L = last[c]
    BY DEF TypeOK
  <2>3. L = LastIndex(rows[s]) /\ del[c] = {}
    BY <1>1, <1>3, <1>7, <2>2 DEF RowsInv, TxInv
  <2>4. Payload(c) = msgs /\ FirstIndex(c) = L + 1 /\ Len(msgs) \in Nat
    BY <1>4, <1>7, <2>1, <2>2 DEF Payload, FirstIndex
  <2>5. NewIndexes(c) = L + 1 .. L + Len(msgs)
    BY <2>4 DEF NewIndexes
  <2>6. DOMAIN new = L + 1 .. L + Len(msgs) /\ \A i \in DOMAIN new : new[i] = msgs[i - L]
    <3>1. \A i \in L + 1 .. L + Len(msgs) : i - (L + 1) + 1 = i - L
      BY <2>4
    <3> QED BY <1>2, <2>4, <2>5, <3>1
  <2>7. CASE ResolveMax(op[c].max) # None
    BY <1>3, <1>7, <2>1, <2>2, <2>6, <2>7 DEF Content
  <2>8. CASE ResolveMax(op[c].max) = None
    <3>1. PICK a \in 0 .. L + 1 : DOMAIN rows[s] = a .. L
      BY <2>3, IntervalToLast DEF RowsInv, TypeOK
    <3>2. \A i \in a .. L : rows[s][i] \in Messages
      BY <3>1, RowsElim DEF TypeOK
    <3>3. /\ a \in Int /\ L \in Int /\ a <= L + 1 /\ -1 \in Int /\ -1 <= L + Len(msgs)
          /\ {} = {i \in a .. L : i <= -1}
          /\ DOMAIN new = {i \in L + 1 .. L + Len(msgs) : i > -1}
      BY <2>4, <2>6
    <3>4. HoldsEnd(After(rows[s], {}, new), Ordered(rows[s]) \o msgs,
                   a, IF a > -1 THEN a ELSE -1 + 1, L + Len(msgs))
      BY <2>6, <3>1, <3>2, <3>3, AppendLeaves
    <3>5. (IF a > -1 THEN a ELSE -1 + 1) = a
      OBVIOUS
    <3>6. Ordered(After(rows[s], {}, new)) = Ordered(rows[s]) \o msgs
      BY <3>4, <3>5, OrderedSuffix
    <3>7. WrittenBy(op[c], Ordered(rows[s])) = Ordered(rows[s]) \o msgs
      BY <1>7, <2>1, <2>8 DEF WrittenBy
    <3> QED BY <1>1, <1>3, <1>5, <1>7, <2>3, <2>8, <3>6, <3>7 DEF Content
  <2> QED BY <2>7, <2>8
<1> QED BY <1>3, <1>6, <1>7

(* The trim of append_messages keeps the caller's limit exactly.           *)
LEMMA TrimContent ==
  ASSUME TypeOK, OpInv, RowsInv, NEW c \in Calls, Content(c), TrimMessages(c)
  PROVE  Content(c)'
<1>1. PICK s \in Sessions : s = op[c].session
  BY DEF TrimMessages, OpInv, Operation
<1>2. PICK k : k = TrimBound(c)
  OBVIOUS
<1>3. PICK new : new = Restrict(ins[c], {i \in DOMAIN ins[c] : i > k})
  OBVIOUS
<1>4. PICK d : d = {i \in DOMAIN rows[s] : i <= k}
  OBVIOUS
<1>5. /\ op' = op /\ rows' = rows /\ pc[c] = "trim" /\ pc'[c] = "commit"
      /\ ins'[c] = new /\ del'[c] = d
      /\ op[c].kind = "append" /\ op[c] \in Operation
  BY <1>1, <1>2, <1>3, <1>4 DEF TrimMessages, TypeOK, OpInv, Goto, callVars, dbVars
<1>6. Committed(c)' = After(rows[s], d, new)
  BY <1>1, <1>5 DEF Committed, After
<1>7. PICK msgs \in Seq(Messages) : msgs = op[c].msgs
  BY <1>5 DEF Operation
<1>8. PICK L \in -1 .. MaxIndex : L = last[c]
  BY DEF TypeOK
<1>9. PICK n \in Nat : n = ResolveMax(op[c].max)
  BY <1>5 DEF RowsInv, TxInv
<1>10. /\ L = LastIndex(rows[s]) /\ DOMAIN ins[c] = L + 1 .. L + Len(msgs)
       /\ \A i \in DOMAIN ins[c] : ins[c][i] = msgs[i - L]
  BY <1>1, <1>5, <1>7, <1>8 DEF RowsInv, TxInv, Content
<1>11. k = L + Len(msgs) - n /\ Len(msgs) \in Nat
  BY <1>2, <1>7, <1>8, <1>9, LenProperties DEF TrimBound
<1>12. PICK a \in 0 .. L + 1 : DOMAIN rows[s] = a .. L
  BY <1>10, IntervalToLast DEF RowsInv, TypeOK
<1>13. \A i \in a .. L : rows[s][i] \in Messages
  BY <1>12, RowsElim DEF TypeOK
<1>14. /\ a \in Int /\ L \in Int /\ a <= L + 1 /\ k \in Int /\ k <= L + Len(msgs)
       /\ d = {i \in a .. L : i <= k}
  BY <1>4, <1>11, <1>12
<1>15. /\ DOMAIN new = {i \in L + 1 .. L + Len(msgs) : i > k}
       /\ \A i \in DOMAIN new : new[i] = msgs[i - L]
  BY <1>3, <1>10 DEF Restrict
<1>16. HoldsEnd(After(rows[s], d, new), Ordered(rows[s]) \o msgs,
                a, IF a > k THEN a ELSE k + 1, L + Len(msgs))
  BY <1>12, <1>13, <1>14, <1>15, AppendLeaves
<1>17. (IF a > k THEN a ELSE k + 1)
         = IF a > (L + Len(msgs)) - n THEN a ELSE (L + Len(msgs)) - n + 1
  BY <1>11
<1>18. Ordered(After(rows[s], d, new)) = Recent(Ordered(rows[s]) \o msgs, n)
  BY <1>16, <1>17, OrderedRecent
<1>19. WrittenBy(op[c], Ordered(rows[s])) = Recent(Ordered(rows[s]) \o msgs, n)
  BY <1>5, <1>7, <1>9, NoneAssumption DEF WrittenBy
<1> QED BY <1>1, <1>5, <1>6, <1>18, <1>19 DEF Content

(* Every step keeps what the transactions ready to commit will leave: only *)
(* the holder of the row lock changes the rows of a session.               *)
LEMMA NextContent ==
  ASSUME TypeOK, OpInv, LockInv, RowsInv, \A d \in Calls : Content(d), [Next]_vars
  PROVE  \A d \in Calls : Content(d)'
<1> USE DEF Goto, LeftPcs, txVars, dbVars, callVars
<1>a. ASSUME NEW c \in Calls, UNCHANGED rows, Content(c)',
             \A d \in Calls \ {c} :
               /\ pc'[d] = pc[d] /\ op'[d] = op[d]
               /\ ins'[d] = ins[d] /\ del'[d] = del[d] /\ last'[d] = last[d]
      PROVE  \A d \in Calls : Content(d)'
  BY <1>a, ContentFrame
<1>1. ASSUME NEW c \in Calls,
             \/ \E o \in Ops : StartEmptyAppend(c, o) \/ Start(c, o)
             \/ LockPool(c) \/ CreatePool(c) \/ EnsureFail(c)
             \/ Acquire(c) \/ AcquireFail(c) \/ Release(c) \/ ReleaseFail(c)
             \/ Query(c) \/ Upsert(c) \/ LockSession(c)
      PROVE  \A d \in Calls : Content(d)'
  <2>1. /\ UNCHANGED <<rows, ins, del, last>>
        /\ pc'[c] \notin {"trim", "commit", "orphan"}
        /\ \A d \in Calls \ {c} : pc'[d] = pc[d] /\ op'[d] = op[d]
    BY <1>1 DEF TypeOK, StartEmptyAppend, Start, LockPool, CreatePool, EnsureFail,
      Acquire, AcquireFail, Release, ReleaseFail, Query, Upsert, LockSession
  <2>2. Content(c)'
    BY <2>1 DEF Content
  <2> QED BY <2>1, <2>2, <1>a
<1>2. ASSUME NEW c \in Calls, NextTurn(c) \/ StatementFail(c) \/ LateRollback(c)
      PROVE  \A d \in Calls : Content(d)'
  <2>1. /\ UNCHANGED <<rows, op>>
        /\ pc'[c] \notin {"trim", "commit", "orphan"}
        /\ \A d \in Calls \ {c} : /\ pc'[d] = pc[d] /\ ins'[d] = ins[d]
                                  /\ del'[d] = del[d] /\ last'[d] = last[d]
    BY <1>2 DEF TypeOK, NextTurn, StatementFail, LateRollback, EndTransaction
  <2>2. Content(c)'
    BY <2>1 DEF Content
  <2> QED BY <2>1, <2>2, <1>a
<1>3. ASSUME NEW c \in Calls, ClearSession(c) \/ InsertMessages(c) \/ TrimMessages(c)
      PROVE  \A d \in Calls : Content(d)'
  <2>1. /\ UNCHANGED <<rows, op, last>>
        /\ \A d \in Calls \ {c} : pc'[d] = pc[d] /\ ins'[d] = ins[d] /\ del'[d] = del[d]
    BY <1>3 DEF TypeOK, ClearSession, InsertMessages, TrimMessages
  <2>2. Content(c)'
    BY <1>3, ClearContent, InsertContent, TrimContent
  <2> QED BY <2>1, <2>2, <1>a
<1>4. ASSUME NEW c \in Calls,
             \/ \E result \in {"ok", "error"} : Commit(c, result)
             \/ LateCommit(c)
      PROVE  \A d \in Calls : Content(d)'
  <2> DEFINE s == op[c].session
  <2>1. /\ UNCHANGED op
        /\ pc[c] \in {"commit", "orphan"} /\ pc'[c] \in {"release", "done"}
        /\ rows' = [rows EXCEPT ![s] = Committed(c)]
        /\ \A d \in Calls \ {c} : /\ pc'[d] = pc[d] /\ ins'[d] = ins[d]
                                  /\ del'[d] = del[d] /\ last'[d] = last[d]
    BY <1>4 DEF TypeOK, Commit, LateCommit, EndTransaction
  <2>2. ASSUME NEW d \in Calls, d # c PROVE Content(d)'
    <3>1. pc[d] \in OpenPcs => op[d].session # s
      BY <2>1, <2>2 DEF LockInv, OpenPcs, TxPcs
    <3>2. pc[d] \in OpenPcs => rows'[op[d].session] = rows[op[d].session]
      BY <2>1, <3>1 DEF TypeOK
    <3> QED BY <2>1, <2>2, <3>2, ContentFrame
  <2>3. Content(c)'
    BY <2>1 DEF Content
  <2> QED BY <2>2, <2>3
<1>5. ASSUME NEW c \in Calls, LoseConnection(c)
      PROVE  \A d \in Calls : Content(d)'
  <2>1. /\ UNCHANGED <<rows, op, ins, del, last>>
        /\ pc'[c] \in LeftPcs /\ (pc'[c] = "orphan" => pc[c] = "commit")
        /\ \A d \in Calls \ {c} : pc'[d] = pc[d]
    BY <1>5 DEF TypeOK, LoseConnection
  <2>2. Committed(c)' = Committed(c)
    BY <2>1 DEF Committed
  <2>3. Content(c)'
    BY <2>1, <2>2 DEF Content
  <2> QED BY <2>1, <2>3, <1>a
<1>6. CASE CloseBegin \/ CloseEnd \/ CloseFail \/ (\E s \in Sessions : Expire(s))
           \/ UNCHANGED vars
  <2>1. UNCHANGED <<pc, op, ins, del, last, rows>>
    BY <1>6 DEF CloseBegin, CloseEnd, CloseFail, Expire, vars
  <2> QED BY <2>1, ContentFrame
<1> QED BY <1>1, <1>2, <1>3, <1>4, <1>5, <1>6 DEF Next, Call

(* A call succeeds only if it took effect, and none does before its last   *)
(* statement.                                                              *)
Outcome(c) ==
  /\ pc[c] \notin {"release", "done"} => ~ applied[c]
  /\ pc[c] = "release" => outcome[c] = "error" \/ (outcome[c] = "ok" /\ applied[c])
  /\ pc[c] \in LeftPcs => outcome[c] = "error"
  /\ pc[c] = "query" => op[c].kind \in {"get", "ping"}

(* Every step keeps that.                                                  *)
LEMMA NextOutcome ==
  ASSUME TypeOK, OpInv, \A d \in Calls : Outcome(d), [Next]_vars
  PROVE  \A d \in Calls : Outcome(d)'
<1> USE DEF Goto, LeftPcs, TxPcs, txVars, dbVars, callVars
<1>a. ASSUME NEW c \in Calls, Outcome(c)',
             \A d \in Calls \ {c} : /\ pc'[d] = pc[d] /\ op'[d] = op[d]
                                    /\ applied'[d] = applied[d] /\ outcome'[d] = outcome[d]
      PROVE  \A d \in Calls : Outcome(d)'
  BY <1>a DEF Outcome
<1>1. ASSUME NEW c \in Calls, NEW o \in Ops, StartEmptyAppend(c, o) \/ Start(c, o)
      PROVE  \A d \in Calls : Outcome(d)'
  <2>1. /\ pc[c] = "idle" /\ pc'[c] \in {"done", "acquire", "poolwait"}
        /\ applied' = applied
        /\ \A d \in Calls \ {c} : /\ pc'[d] = pc[d] /\ op'[d] = op[d]
                                  /\ outcome'[d] = outcome[d]
    BY <1>1 DEF TypeOK, StartEmptyAppend, Start
  <2>2. Outcome(c)'
    BY <2>1 DEF Outcome
  <2> QED BY <2>1, <2>2, <1>a
<1>2. ASSUME NEW c \in Calls, LockPool(c) \/ CreatePool(c) \/ EnsureFail(c)
      PROVE  \A d \in Calls : Outcome(d)'
  BY <1>2, <1>a DEF TypeOK, Outcome, LockPool, CreatePool, EnsureFail
<1>3. ASSUME NEW c \in Calls, Acquire(c)
      PROVE  \A d \in Calls : Outcome(d)'
  BY <1>3, <1>a DEF TypeOK, OpInv, Operation, Outcome, Acquire
<1>4. ASSUME NEW c \in Calls, AcquireFail(c) \/ Release(c) \/ ReleaseFail(c)
      PROVE  \A d \in Calls : Outcome(d)'
  BY <1>4, <1>a DEF TypeOK, Outcome, AcquireFail, Release, ReleaseFail
<1>5. ASSUME NEW c \in Calls, Query(c)
      PROVE  \A d \in Calls : Outcome(d)'
  BY <1>5, <1>a DEF TypeOK, Outcome, Query
<1>6. ASSUME NEW c \in Calls,
             \/ Upsert(c) \/ LockSession(c) \/ NextTurn(c) \/ ClearSession(c)
             \/ InsertMessages(c) \/ TrimMessages(c)
      PROVE  \A d \in Calls : Outcome(d)'
  <2>1. /\ UNCHANGED <<op, applied, outcome>> /\ pc[c] \in TxPcs \cup {"upsert"}
        /\ pc'[c] \in TxPcs /\ \A d \in Calls \ {c} : pc'[d] = pc[d]
    BY <1>6 DEF TypeOK, Upsert, LockSession, NextTurn, ClearSession, InsertMessages,
      TrimMessages
  <2> QED BY <2>1, <1>a DEF Outcome
<1>7. ASSUME NEW c \in Calls, NEW result \in {"ok", "error"}, Commit(c, result)
      PROVE  \A d \in Calls : Outcome(d)'
  BY <1>7, <1>a DEF TypeOK, Outcome, Commit
<1>8. ASSUME NEW c \in Calls,
             StatementFail(c) \/ LoseConnection(c) \/ LateCommit(c) \/ LateRollback(c)
      PROVE  \A d \in Calls : Outcome(d)'
  BY <1>8, <1>a DEF TypeOK, Outcome, StatementFail, LoseConnection, LateCommit, LateRollback
<1>9. CASE CloseBegin \/ CloseEnd \/ CloseFail \/ (\E s \in Sessions : Expire(s))
           \/ UNCHANGED vars
  BY <1>9 DEF Outcome, CloseBegin, CloseEnd, CloseFail, Expire, vars
<1> QED BY <1>1, <1>2, <1>3, <1>4, <1>5, <1>6, <1>7, <1>8, <1>9 DEF Next, Call

(* The invariant the refinement rests on.                                  *)
RefineInv == IndInv /\ \A c \in Calls : Content(c) /\ Outcome(c)

(* It holds in every reachable state.                                      *)
LEMMA RefineInductive == Spec => []RefineInv
<1>1. Init => \A c \in Calls : Content(c) /\ Outcome(c)
  BY DEF Init, Content, Outcome, LeftPcs
<1>2. ASSUME IndInv, \A c \in Calls : Content(c) /\ Outcome(c), [Next]_vars
      PROVE  \A c \in Calls : Content(c)' /\ Outcome(c)'
  BY <1>2, NextContent, NextOutcome DEF IndInv
<1> DEFINE Both == \A c \in Calls : Content(c) /\ Outcome(c)
<1>3. Init => Both
  BY <1>1
<1>4. IndInv /\ Both /\ [Next]_vars => Both'
  BY <1>2
<1>5. RefineInv <=> IndInv /\ Both
  BY DEF RefineInv
<1> HIDE DEF Both
<1> QED BY <1>3, <1>4, <1>5, Inductive, PTL DEF Spec

-----------------------------------------------------------------------------
(* The refinement, step by step.                                           *)

AbstractHist == [s \in Sessions |-> Ordered(rows[s])]
AbstractLive == [s \in Sessions |-> sess[s] = "live"]
AbstractPhase == [c \in Calls |-> Phase(c)]
AbstractResent == [c \in Calls |-> FALSE]

(* The phases change for the one call that takes the step.                 *)
LEMMA PhaseStep ==
  ASSUME NEW c \in Calls, NEW p, Phase(c)' = p,
         \A b \in Calls \ {c} : /\ pc'[b] = pc[b] /\ applied'[b] = applied[b]
                                /\ outcome'[b] = outcome[b]
  PROVE  AbstractPhase' = [AbstractPhase EXCEPT ![c] = p]
<1>1. ASSUME NEW b \in Calls, b # c PROVE Phase(b)' = Phase(b)
  BY <1>1 DEF Phase
<1> QED BY <1>1 DEF AbstractPhase

(* A step of c that does not change its phase changes none.                *)
LEMMA PhaseKept ==
  ASSUME NEW c \in Calls, Phase(c)' = Phase(c),
         \A b \in Calls \ {c} : /\ pc'[b] = pc[b] /\ applied'[b] = applied[b]
                                /\ outcome'[b] = outcome[b]
  PROVE  AbstractPhase' = AbstractPhase
<1>1. ASSUME NEW b \in Calls, b # c PROVE Phase(b)' = Phase(b)
  BY <1>1 DEF Phase
<1> QED BY <1>1 DEF AbstractPhase

(* The database is not touched.                                            *)
LEMMA StoreKept ==
  ASSUME UNCHANGED dbVars
  PROVE  AbstractHist' = AbstractHist /\ AbstractLive' = AbstractLive
BY DEF dbVars, AbstractHist, AbstractLive

(* The mapping at one call.                                                *)
LEMMA PhaseAt ==
  ASSUME NEW c \in Calls
  PROVE  AbstractPhase[c] = Phase(c)
BY DEF AbstractPhase

(* Nothing is stored at first.                                             *)
LEMMA InitRefines == Init => Abstract!Init
<1> SUFFICES ASSUME Init PROVE Abstract!Init
  OBVIOUS
<1>1. AbstractHist = [s \in Sessions |-> << >>]
  <2>1. DOMAIN NoRows = 0 .. -1
    BY NoRowsType
  <2>2. \A i \in 0 .. -1 : NoRows[i] \in Messages
    OBVIOUS
  <2>3. Ordered(NoRows) \in Seq(Messages) /\ Len(Ordered(NoRows)) = 0
    BY <2>1, <2>2, OrderedInterval
  <2>4. Ordered(NoRows) = << >>
    BY <2>3, EmptySeq
  <2> QED BY <2>4 DEF Init, AbstractHist
<1>2. AbstractPhase = [c \in Calls |-> "idle"]
  BY DEF Init, AbstractPhase, Phase
<1>3. AbstractLive = [s \in Sessions |-> FALSE]
  <2>1. \A s \in Sessions : (sess[s] = "live") = FALSE
    BY DEF Init
  <2> QED BY <2>1, Zenon DEF AbstractLive
<1> QED BY <1>1, <1>2, <1>3
        DEF Init, Abstract!Init, AbstractHist, AbstractPhase, AbstractLive

(* A call starts.                                                          *)
LEMMA StartRefines ==
  ASSUME TypeOK, NEW c \in Calls, NEW o \in Ops, Outcome(c),
         StartEmptyAppend(c, o) \/ Start(c, o)
  PROVE  Abstract!CallEmptyAppend(c, o) \/ Abstract!Call(c, o)
<1> USE DEF callVars, dbVars
<1>1. /\ pc[c] = "idle" /\ op' = [op EXCEPT ![c] = o] /\ got' = got /\ applied' = applied
      /\ \A b \in Calls \ {c} : pc'[b] = pc[b] /\ outcome'[b] = outcome[b]
      /\ UNCHANGED dbVars
  BY DEF TypeOK, StartEmptyAppend, Start, Goto
<1>2. Phase(c) = "idle" /\ AbstractHist' = AbstractHist /\ AbstractLive' = AbstractLive
  BY <1>1, StoreKept DEF Phase
<1>3. CASE StartEmptyAppend(c, o)
  <2>1. Phase(c)' = "ok" /\ o.kind = "append" /\ o.msgs = << >>
    BY <1>3 DEF TypeOK, StartEmptyAppend, Goto, Phase
  <2>2. AbstractPhase' = [AbstractPhase EXCEPT ![c] = "ok"]
    BY <1>1, <2>1, PhaseStep
  <2>3. Abstract!CallEmptyAppend(c, o)
    BY <1>1, <1>2, <2>1, <2>2, PhaseAt
       DEF Abstract!CallEmptyAppend, AbstractPhase, AbstractHist, AbstractLive
  <2> QED BY <2>3
<1>4. CASE Start(c, o)
  <2>1. pc'[c] \in {"acquire", "poolwait"} /\ ~ applied[c]
    BY <1>1, <1>4 DEF TypeOK, Start, Goto, Outcome
  <2>2. Phase(c)' = "called"
    BY <1>1, <2>1 DEF Phase
  <2>3. AbstractPhase' = [AbstractPhase EXCEPT ![c] = "called"]
    BY <1>1, <2>2, PhaseStep
  <2>4. Abstract!Call(c, o)
    BY <1>1, <1>2, <2>3, PhaseAt
       DEF Abstract!Call, AbstractPhase, AbstractHist, AbstractLive
  <2> QED BY <2>4
<1> QED BY <1>3, <1>4

(* The pool, its connections, and the statements before the last: nothing  *)
(* another call could see.                                                 *)
LEMMA QuietRefines ==
  ASSUME TypeOK, NEW c \in Calls, Outcome(c),
         \/ LockPool(c) \/ CreatePool(c) \/ Acquire(c)
         \/ Upsert(c) \/ LockSession(c) \/ NextTurn(c) \/ ClearSession(c)
         \/ InsertMessages(c) \/ TrimMessages(c) \/ StatementFail(c)
  PROVE  UNCHANGED Abstract!vars
<1> USE DEF callVars, dbVars, txVars, TxPcs
<1>1. /\ UNCHANGED <<op, got, applied, dbVars>>
      /\ pc[c] \notin {"idle", "done", "doomed", "orphan", "release"}
      /\ pc'[c] \notin {"idle", "done", "doomed", "orphan"}
      /\ \A b \in Calls \ {c} : pc'[b] = pc[b] /\ outcome'[b] = outcome[b]
  BY DEF TypeOK, Goto, LockPool, CreatePool, Acquire, Upsert, LockSession, NextTurn,
     ClearSession, InsertMessages, TrimMessages, StatementFail
<1>2. Phase(c)' = Phase(c)
  BY <1>1 DEF Phase
<1>3. AbstractPhase' = AbstractPhase
  BY <1>1, <1>2, PhaseKept
<1> QED BY <1>1, <1>3, StoreKept DEF Abstract!vars, AbstractHist, AbstractLive, AbstractPhase

(* No connection, or it breaks while it is given back: the port's raise.   *)
LEMMA FailRefines ==
  ASSUME TypeOK, NEW c \in Calls, Outcome(c),
         EnsureFail(c) \/ AcquireFail(c) \/ ReleaseFail(c)
  PROVE  Abstract!Raise(c)
<1>1. /\ UNCHANGED <<op, got, applied, dbVars>>
      /\ pc[c] \in {"poolwait", "creating", "acquire", "release"}
      /\ pc'[c] = "done" /\ outcome'[c] = "error"
      /\ \A b \in Calls \ {c} : pc'[b] = pc[b] /\ outcome'[b] = outcome[b]
  BY DEF TypeOK, Goto, EnsureFail, AcquireFail, ReleaseFail, dbVars
<1>2. Phase(c) \in {"called", "applied"} /\ Phase(c)' = "error"
  BY <1>1 DEF Phase
<1>3. AbstractPhase' = [AbstractPhase EXCEPT ![c] = "error"]
  BY <1>1, <1>2, PhaseStep
<1> QED BY <1>1, <1>2, <1>3, PhaseAt, StoreKept
        DEF Abstract!Raise, AbstractPhase, AbstractHist, AbstractLive

(* The connection is given back: the method returns, or raises what made   *)
(* its transaction fail.                                                   *)
LEMMA ReleaseRefines ==
  ASSUME TypeOK, NEW c \in Calls, Outcome(c), Release(c)
  PROVE  Abstract!Return(c) \/ Abstract!Raise(c)
<1>1. /\ UNCHANGED <<op, got, applied, outcome, dbVars>>
      /\ pc[c] = "release" /\ pc'[c] = "done"
      /\ \A b \in Calls \ {c} : pc'[b] = pc[b]
  BY DEF TypeOK, Goto, Release, callVars, dbVars
<1>2. \/ outcome[c] = "error" /\ Phase(c) \in {"called", "applied"}
      \/ outcome[c] = "ok" /\ Phase(c) = "applied"
  BY <1>1 DEF Phase, Outcome
<1>3. PICK p : p = outcome[c]
  OBVIOUS
<1>4. Phase(c)' = p
  BY <1>1, <1>3 DEF Phase
<1>5. AbstractPhase' = [AbstractPhase EXCEPT ![c] = p]
  BY <1>1, <1>4, PhaseStep
<1> QED BY <1>1, <1>2, <1>3, <1>5, PhaseAt, StoreKept
        DEF Abstract!Return, Abstract!Raise, AbstractPhase, AbstractHist, AbstractLive

(* A SELECT sees the committed rows of its instant.                        *)
LEMMA QueryRefines ==
  ASSUME TypeOK, OpInv, NEW c \in Calls, Outcome(c), Query(c)
  PROVE  Abstract!ApplyGet(c) \/ Abstract!ApplyPing(c)
<1>1. PICK s \in Sessions : s = op[c].session
  BY DEF Query, OpInv, Operation
<1>2. /\ UNCHANGED <<op, dbVars>> /\ pc[c] = "query" /\ pc'[c] = "release"
      /\ applied'[c] = TRUE
      /\ \A b \in Calls \ {c} : /\ pc'[b] = pc[b] /\ outcome'[b] = outcome[b]
                                /\ applied'[b] = applied[b]
      /\ got' = IF op[c].kind = "get" THEN [got EXCEPT ![c] = Visible(s)] ELSE got
  BY <1>1 DEF TypeOK, Goto, Query, dbVars
<1>3. ~ applied[c] /\ op[c].kind \in {"get", "ping"}
  BY <1>2 DEF Outcome
<1>4. Phase(c) = "called" /\ Phase(c)' = "applied"
  BY <1>2, <1>3 DEF Phase
<1>5. AbstractPhase' = [AbstractPhase EXCEPT ![c] = "applied"]
  BY <1>2, <1>4, PhaseStep
<1>6. Abstract!Take(c)
  BY <1>4, <1>5, PhaseAt DEF Abstract!Take, AbstractPhase
<1>7. AbstractHist' = AbstractHist /\ AbstractLive' = AbstractLive
  BY <1>2, StoreKept
<1>8. CASE op[c].kind = "get"
  <2>1. Abstract!Visible(s) = Visible(s)
    BY DEF Abstract!Visible, Visible
  <2>2. Abstract!ApplyGet(c)
    BY <1>1, <1>2, <1>6, <1>7, <1>8, <2>1
       DEF Abstract!ApplyGet, AbstractHist, AbstractLive
  <2> QED BY <2>2
<1>9. CASE op[c].kind = "ping"
  <2>1. Abstract!ApplyPing(c)
    BY <1>2, <1>6, <1>7, <1>9 DEF Abstract!ApplyPing, AbstractHist, AbstractLive
  <2> QED BY <2>1
<1> QED BY <1>3, <1>8, <1>9

(* COMMIT, in time or after the caller has given up: the port's write, at  *)
(* one instant.                                                            *)
LEMMA CommitRefines ==
  ASSUME TypeOK, OpInv, NEW c \in Calls, Outcome(c), Content(c),
         (\E result \in {"ok", "error"} : Commit(c, result)) \/ LateCommit(c)
  PROVE  Abstract!ApplyWrite(c)
<1>1. PICK s \in Sessions : s = op[c].session
  BY DEF Commit, LateCommit, OpInv, Operation
<1>2. PICK r : r = Committed(c)
  OBVIOUS
<1>3. /\ op' = op /\ got' = got /\ applied'[c] = TRUE
      /\ rows' = [rows EXCEPT ![s] = r] /\ sess' = [sess EXCEPT ![s] = "live"]
      /\ \/ pc[c] = "commit" /\ pc'[c] = "release"
         \/ pc[c] = "orphan" /\ pc'[c] = "done" /\ outcome'[c] = outcome[c]
      /\ \A b \in Calls \ {c} : /\ pc'[b] = pc[b] /\ outcome'[b] = outcome[b]
                                /\ applied'[b] = applied[b]
  BY <1>1, <1>2 DEF TypeOK, Goto, Commit, LateCommit
<1>4. op[c] \in Operation /\ op[c].kind \in {"append", "set"}
  BY <1>3 DEF OpInv
<1>5. Ordered(r) = Abstract!Written(c, Ordered(rows[s]))
  <2>1. Ordered(r) = WrittenBy(op[c], Ordered(rows[s]))
    BY <1>1, <1>2, <1>3 DEF Content
  <2> QED BY <1>4, <2>1, WrittenIs
<1>6. AbstractHist' = [AbstractHist EXCEPT ![s] = Ordered(r)]
  <2>1. \A t \in Sessions : rows'[t] = IF t = s THEN r ELSE rows[t]
    BY <1>3 DEF TypeOK
  <2> QED BY <2>1 DEF AbstractHist
<1>7. AbstractLive' = [AbstractLive EXCEPT ![s] = TRUE]
  <2>1. \A t \in Sessions : (sess'[t] = "live") = IF t = s THEN TRUE ELSE sess[t] = "live"
    BY <1>3 DEF TypeOK
  <2> QED BY <2>1, Zenon DEF AbstractLive
<1>8. AbstractHist[s] = Ordered(rows[s])
  BY DEF AbstractHist
<1>9. Abstract!Write(c)
  BY <1>1, <1>4, <1>5, <1>6, <1>7, <1>8 DEF Abstract!Write, AbstractHist, AbstractLive
<1>10. Abstract!Take(c)
  <2>1. CASE pc[c] = "commit"
    <3>1. Phase(c) = "called" /\ Phase(c)' = "applied"
      BY <1>3, <2>1 DEF Phase, Outcome
    <3>2. AbstractPhase' = [AbstractPhase EXCEPT ![c] = "applied"]
      BY <1>3, <3>1, PhaseStep
    <3> QED BY <3>1, <3>2, PhaseAt DEF Abstract!Take, AbstractPhase
  <2>2. CASE pc[c] = "orphan"
    <3>1. Phase(c) = "lost" /\ Phase(c)' = "error"
      BY <1>3, <2>2 DEF Phase, Outcome, LeftPcs
    <3>2. AbstractPhase' = [AbstractPhase EXCEPT ![c] = "error"]
      BY <1>3, <3>1, PhaseStep
    <3> QED BY <3>1, <3>2, PhaseAt DEF Abstract!Take, AbstractPhase
  <2> QED BY <1>3, <2>1, <2>2
<1> QED BY <1>3, <1>9, <1>10 DEF Abstract!ApplyWrite

(* The connection is lost: with COMMIT under way the write is abandoned,   *)
(* before it the method raises.                                            *)
LEMMA LoseRefines ==
  ASSUME TypeOK, OpInv, NEW c \in Calls, Outcome(c), LoseConnection(c)
  PROVE  Abstract!Abandon(c) \/ Abstract!Raise(c)
<1>1. /\ UNCHANGED <<op, got, applied, dbVars>> /\ pc[c] \in TxPcs
      /\ pc'[c] = IF pc[c] = "commit" THEN "orphan" ELSE "doomed"
      /\ outcome'[c] = "error"
      /\ \A b \in Calls \ {c} : pc'[b] = pc[b] /\ outcome'[b] = outcome[b]
  BY DEF TypeOK, Goto, LoseConnection, dbVars
<1>2. Phase(c) = "called"
  BY <1>1 DEF Phase, Outcome, TxPcs
<1>3. CASE pc[c] = "commit"
  <2>1. Phase(c)' = "lost" /\ op[c].kind \in {"append", "set"}
    BY <1>1, <1>3 DEF Phase, OpInv
  <2>2. AbstractPhase' = [AbstractPhase EXCEPT ![c] = "lost"]
    BY <1>1, <2>1, PhaseStep
  <2>3. Abstract!Abandon(c)
    BY <1>1, <1>2, <2>1, <2>2, PhaseAt, StoreKept
       DEF Abstract!Abandon, AbstractPhase, AbstractHist, AbstractLive
  <2> QED BY <2>3
<1>4. CASE pc[c] # "commit"
  <2>1. Phase(c)' = "error"
    BY <1>1, <1>4 DEF Phase
  <2>2. AbstractPhase' = [AbstractPhase EXCEPT ![c] = "error"]
    BY <1>1, <2>1, PhaseStep
  <2>3. Abstract!Raise(c)
    BY <1>1, <1>2, <2>2, PhaseAt, StoreKept
       DEF Abstract!Raise, AbstractPhase, AbstractHist, AbstractLive
  <2> QED BY <2>3
<1> QED BY <1>3, <1>4

(* The server rolls back what its caller gave up.                          *)
LEMMA RollbackRefines ==
  ASSUME TypeOK, NEW c \in Calls, Outcome(c), LateRollback(c)
  PROVE  Abstract!Drop(c) \/ UNCHANGED Abstract!vars
<1>1. /\ UNCHANGED <<op, got, applied, outcome, dbVars>> /\ pc[c] \in {"orphan", "doomed"}
      /\ pc'[c] = "done" /\ outcome[c] = "error"
      /\ \A b \in Calls \ {c} : pc'[b] = pc[b]
  BY DEF TypeOK, Goto, LateRollback, LeftPcs, Outcome, callVars, dbVars
<1>2. Phase(c)' = "error"
  BY <1>1 DEF Phase
<1>3. CASE pc[c] = "orphan"
  <2>1. AbstractPhase' = [AbstractPhase EXCEPT ![c] = "error"] /\ Phase(c) = "lost"
    BY <1>1, <1>2, <1>3, PhaseStep DEF Phase
  <2>2. Abstract!Drop(c)
    BY <1>1, <2>1, PhaseAt, StoreKept
       DEF Abstract!Drop, AbstractPhase, AbstractHist, AbstractLive
  <2> QED BY <2>2
<1>4. CASE pc[c] = "doomed"
  <2>1. Phase(c)' = Phase(c)
    BY <1>1, <1>2, <1>4 DEF Phase
  <2>2. AbstractPhase' = AbstractPhase
    BY <1>1, <2>1, PhaseKept
  <2> QED BY <1>1, <2>2, StoreKept DEF Abstract!vars, AbstractPhase, AbstractHist, AbstractLive
<1> QED BY <1>1, <1>3, <1>4

(* expires_at passes: the rows stay, out of sight.                         *)
LEMMA ExpireRefines ==
  ASSUME TypeOK, NEW s \in Sessions, Expire(s)
  PROVE  Abstract!Expire(s)
<1>1. /\ sess[s] = "live" /\ sess' = [sess EXCEPT ![s] = "expired"]
      /\ UNCHANGED <<pc, op, got, applied, outcome, rows>>
  BY DEF Expire, callVars
<1>2. AbstractLive' = [AbstractLive EXCEPT ![s] = FALSE]
  <2>1. \A t \in Sessions : (sess'[t] = "live") = IF t = s THEN FALSE ELSE sess[t] = "live"
    BY <1>1 DEF TypeOK
  <2> QED BY <2>1, Zenon DEF AbstractLive
<1>3. AbstractHist' = AbstractHist /\ AbstractPhase' = AbstractPhase
  BY <1>1 DEF AbstractHist, AbstractPhase, Phase
<1>4. AbstractLive[s]
  BY <1>1 DEF AbstractLive
<1> QED BY <1>1, <1>2, <1>3, <1>4
        DEF Abstract!Expire, AbstractHist, AbstractLive, AbstractPhase

(* Every step is a step of the port's specification, or none.              *)
LEMMA NextRefines ==
  ASSUME RefineInv, [Next]_vars
  PROVE  [Abstract!Next]_(Abstract!vars)
<1>1. TypeOK /\ OpInv /\ \A c \in Calls : Content(c) /\ Outcome(c)
  BY DEF RefineInv, IndInv
<1>2. ASSUME NEW c \in Calls, NEW o \in Ops, StartEmptyAppend(c, o) \/ Start(c, o)
      PROVE  Abstract!Next
  BY <1>1, <1>2, StartRefines DEF Abstract!Next
<1>3. ASSUME NEW c \in Calls,
             \/ LockPool(c) \/ CreatePool(c) \/ Acquire(c)
             \/ Upsert(c) \/ LockSession(c) \/ NextTurn(c) \/ ClearSession(c)
             \/ InsertMessages(c) \/ TrimMessages(c) \/ StatementFail(c)
      PROVE  UNCHANGED Abstract!vars
  BY <1>1, <1>3, QuietRefines
<1>4. ASSUME NEW c \in Calls,
             \/ EnsureFail(c) \/ AcquireFail(c) \/ ReleaseFail(c) \/ Release(c)
             \/ Query(c) \/ LoseConnection(c)
      PROVE  Abstract!Next
  BY <1>1, <1>4, FailRefines, ReleaseRefines, QueryRefines, LoseRefines DEF Abstract!Next
<1>5. ASSUME NEW c \in Calls,
             (\E result \in {"ok", "error"} : Commit(c, result)) \/ LateCommit(c)
      PROVE  Abstract!Next
  BY <1>1, <1>5, CommitRefines DEF Abstract!Next
<1>6. ASSUME NEW c \in Calls, LateRollback(c)
      PROVE  Abstract!Next \/ UNCHANGED Abstract!vars
  BY <1>1, <1>6, RollbackRefines DEF Abstract!Next
<1>7. ASSUME NEW s \in Sessions, Expire(s) PROVE Abstract!Next
  BY <1>1, <1>7, ExpireRefines DEF Abstract!Next
<1>8. CASE CloseBegin \/ CloseEnd \/ CloseFail \/ UNCHANGED vars
  <2>1. UNCHANGED <<pc, op, got, applied, outcome, rows, sess>>
    BY <1>8 DEF CloseBegin, CloseEnd, CloseFail, vars, callVars, dbVars
  <2> QED BY <2>1 DEF Abstract!vars, Phase
<1> QED BY <1>2, <1>3, <1>4, <1>5, <1>6, <1>7, <1>8 DEF Next, Call

(* The PostgreSQL repository implements the port: every write is one       *)
(* atomic change of the session's history, with exactly the messages and   *)
(* the limit of the call, whatever statements of other calls come between, *)
(* and even when COMMIT is executed after its caller has got an exception. *)
THEOREM PostgresRefines == Spec => ImplementsSessionStore
<1>1. RefineInv /\ [Next]_vars => [Abstract!Next]_(Abstract!vars)
  BY NextRefines
<1> QED BY <1>1, InitRefines, RefineInductive, PTL
        DEF Spec, ImplementsSessionStore, Abstract!Spec

=============================================================================
